------------------------- MODULE HttpsFetcherProofs -------------------------
(***************************************************************************)
(* Proofs about macos9_https_fetcher.c for every number of slots, fetches  *)
(* and connections, every pool size and retry limit, and whatever the      *)
(* server, the TLS library and the client do: the fetcher implements       *)
(* FetchCore, its slots agree with fetch.c's rings, every connection has   *)
(* one owner, and what is handed on answers the fetch's own request.       *)
(***************************************************************************)
EXTENDS HttpsFetcher, FetchCoreProofs

-----------------------------------------------------------------------------
(* The inductive invariant: the slots.                                     *)

Conn == [open : BOOLEAN, key : {HostOf[f] : f \in Fetches} \cup {Elsewhere, NoConn},
         wire : Seq(Unit), closed : BOOLEAN]

SlotsTyped ==
    /\ https_slots \in [Slots -> Slot \cup {Idle}]
    /\ fetcher_handle \in [Fetches -> Slots \cup {NoSlot}]
    /\ cursor \in Slots \cup {NoSlot}
    /\ callback \in Slots \cup {NoSlot}

NetTyped ==
    /\ ostls \in [Conns -> Conn]
    /\ https_pool \in Seq(Conns)
    /\ disk \in [Urls -> {"none", "whole", "unknown", "part"}]

(* The answer is being read, also one that llcache gave up in.             *)
Wired(c) == c.state \in OnWire \/ (c.state = "UNHEARD" /\ c.conn # NoConn)

(* Part of the answer has been handed on.                                  *)
Handing(c) == c.state \in {"BODY", "UNHEARD"}

(* A slot record in use: a connection is only asked for once the fetch was *)
(* started, and each attempt sends the request at most once.               *)
SlotOK(c) ==
    /\ c \in Slot
    /\ c.state # "IDLE"
    /\ ~c.corrupt
    /\ c.conn # NoConn => c.started
    /\ c.state \in OnWire => c.conn # NoConn
    /\ c.state \in {"QUEUED", "CACHEHIT"} =>
          c.conn = NoConn /\ c.hdr_buf = <<>> /\ c.body = <<>>
    /\ c.state = "UNHEARD" /\ c.conn = NoConn => c.body = <<>>
    /\ c.sent <= c.retries + (IF c.state \in {"HEADERS", "BODY", "UNHEARD", "FAIL"} THEN 1 ELSE 0)

SlotsOK == \A s \in Slots : InUse(s) => SlotOK(https_slots[s])

StartedActive ==
    \A s \in Slots : InUse(s) /\ https_slots[s].started => fetch[https_slots[s].parent].active

(* A slot that was not yet reported has sent nothing finishing, and unless *)
(* it is aborted its client waits.  A redirect was heard.                  *)
HeardInv ==
    \A s \in Slots : InUse(s) =>
        /\ s # callback =>
              /\ told[https_slots[s].parent] = 0
              /\ ~https_slots[s].aborted => client[https_slots[s].parent] = "waiting"
        /\ s = callback /\ https_slots[s].redirected =>
              client[https_slots[s].parent] = "ended" \/ https_slots[s].state = "UNHEARD"

(* While the client is inside a callback the poll loop stands at the slot  *)
(* that made it, and only fetch_start may be running fetch_dispatch_jobs.  *)
CallbackInv ==
    callback # NoSlot =>
        /\ InUse(callback)
        /\ poller # "no"
        /\ cursor = callback
        /\ caller \in {"no", "start"}

HttpsInv ==
    /\ SlotsTyped
    /\ SlotsOK
    /\ SlotsServeDispatched
    /\ StartedActive
    /\ HeardInv
    /\ CallbackInv

-----------------------------------------------------------------------------
(* The inductive invariant: connections and answers.                       *)

(* Unit n of the answer to request f, and how many units it has.           *)
UnitAt(f, shape, n) ==
    [req |-> f,
     part |-> CASE n = 1 -> "head" [] n = 2 -> "blank"
                [] n > 2 /\ n <= shape.len + 2 -> "data" [] OTHER -> "end",
     shape |-> shape]

Units(shape) == shape.len + 2 + (IF shape.framing = "chunked" THEN 1 ELSE 0)

(* w holds units of that answer, beginning after the first p.              *)
Part(w, f, shape, p) ==
    /\ p + Len(w) <= Units(shape)
    /\ \A j \in DOMAIN w : w[j] = UnitAt(f, shape, p + j)

(* What slot record c has read and what is left on its wire w make up a    *)
(* part of the answer to the slot's own request.                           *)
WireOK(c, w) ==
    /\ c.state \in {"TLSING", "SEND_REQ"} => w = <<>> /\ c.hdr_buf = <<>> /\ c.body = <<>>
    /\ c.state = "HEADERS" =>
          /\ c.body = <<>>
          /\ \E shape \in Shapes : /\ Part(c.hdr_buf, c.parent, shape, 0)
                                   /\ Part(w, c.parent, shape, Len(c.hdr_buf))
    /\ c.state = "BODY" =>
          /\ c.shape \in Shapes
          /\ Part(c.body, c.parent, c.shape, 2)
          /\ Part(w, c.parent, c.shape, 2 + Len(c.body))
          /\ c.chunked => c.shape.framing = "chunked" /\ Len(c.body) <= c.shape.len
    /\ c.state = "UNHEARD" =>
          /\ c.shape \in Shapes
          /\ Part(c.body, c.parent, c.shape, 2)
          /\ Part(c.unfed, c.parent, c.shape, 2 + Len(c.body))
          /\ Part(w, c.parent, c.shape, 2 + Len(c.body) + Len(c.unfed))
          /\ c.chunked => c.shape.framing = "chunked" /\ Len(c.body) <= c.shape.len

AnswerOK(c) ==
    /\ \A i \in DOMAIN c.hdr_buf : c.hdr_buf[i].req = c.parent
    /\ \A i \in DOMAIN c.body : c.body[i].req = c.parent

ConnOf(s) == IF InUse(s) THEN https_slots[s].conn ELSE NoConn

(* Every open connection has one owner.                                    *)
Owned ==
    /\ Distinct(https_pool)
    /\ \A e \in Conns : ostls[e].open <=> Holds(https_pool, e) \/ \E s \in Slots : ConnOf(s) = e
    /\ \A s \in Slots : ConnOf(s) # NoConn => ~Holds(https_pool, ConnOf(s))
    /\ \A r, s \in Slots : ConnOf(s) # NoConn /\ ConnOf(r) = ConnOf(s) => r = s

(* No connection is pooled with an answer still to come.                   *)
PoolClean ==
    /\ Len(https_pool) <= HTTPS_POOL_SIZE
    /\ \A e \in Conns : Holds(https_pool, e) => ostls[e].wire = <<>>

WiresOK ==
    \A s \in Slots : InUse(s) =>
        /\ AnswerOK(https_slots[s])
        /\ s # callback /\ Wired(https_slots[s]) =>
              WireOK(https_slots[s], ostls[https_slots[s].conn].wire)

NetInv ==
    /\ NetTyped
    /\ Owned
    /\ PoolClean
    /\ WiresOK
    /\ SalvageNeverCached

IInv == CoreIInv /\ HttpsInv /\ NetInv

-----------------------------------------------------------------------------
(* How the slots keep their invariant.                                     *)

(* A slot belongs to one fetch, which is live.                             *)
LEMMA SlotOwner ==
    ASSUME HttpsInv, NEW s \in Slots, InUse(s)
    PROVE  /\ SlotOK(https_slots[s])
           /\ https_slots[s].parent \in Fetches
           /\ fetcher_handle[https_slots[s].parent] = s
           /\ fetch[https_slots[s].parent].life = "live"
           /\ \A r \in Slots : InUse(r) /\ r # s => https_slots[r].parent # https_slots[s].parent
<1>1. SlotOK(https_slots[s]) /\ https_slots[s].parent \in Fetches
  BY DEF HttpsInv, SlotsOK, SlotOK, Slot
<1>2. fetcher_handle[https_slots[s].parent] = s
  BY DEF HttpsInv, SlotsServeDispatched
<1>3. fetch[https_slots[s].parent].life = "live"
  BY <1>1, <1>2, HttpsSlotAssumption DEF HttpsInv, SlotsServeDispatched, Slots
<1>4. \A r \in Slots : InUse(r) /\ r # s => https_slots[r].parent # https_slots[s].parent
  BY <1>2 DEF HttpsInv, SlotsServeDispatched
<1> QED BY <1>1, <1>2, <1>3, <1>4

(* A slot in use changes and keeps its fetch.                              *)
Change(s, new, f) ==
    /\ f = https_slots[s].parent /\ new.parent = f
    /\ https_slots' = [https_slots EXCEPT ![s] = new]
    /\ fetcher_handle' = fetcher_handle
    /\ cursor' \in Slots \cup {NoSlot} /\ callback' \in Slots \cup {NoSlot}
    /\ \A g \in Fetches : fetch'[g].life = fetch[g].life
    /\ \A g \in Fetches : g # f => /\ fetch'[g].active = fetch[g].active
                                   /\ told'[g] = told[g]
                                   /\ client'[g] = client[g]
    /\ new.started => fetch'[f].active
    /\ s # callback' => told'[f] = 0 /\ (~new.aborted => client'[f] = "waiting")
    /\ s = callback' /\ new.redirected => client'[f] = "ended" \/ new.state = "UNHEARD"
    /\ \A r \in Slots : r # s => (r = callback' <=> r = callback)
    /\ callback' # NoSlot => callback' = s \/ callback' = callback
    /\ callback' # NoSlot => poller' # "no" /\ cursor' = callback' /\ caller' \in {"no", "start"}

LEMMA Changed ==
    ASSUME HttpsInv, NEW s \in Slots, InUse(s), NEW new, SlotOK(new), NEW f, Change(s, new, f)
    PROVE  HttpsInv'
<1> USE DEF HttpsInv, Change
<1>1. https_slots'[s] = new /\ \A r \in Slots : r # s => https_slots'[r] = https_slots[r]
  BY DEF SlotsTyped
<1>2. f \in Fetches /\ fetcher_handle[f] = s
      /\ \A r \in Slots : InUse(r) /\ r # s => https_slots[r].parent # f /\ https_slots[r].parent \in Fetches
  BY SlotOwner
<1>3. new \in Slot /\ new.state # "IDLE"
  BY DEF SlotOK
<1>4. SlotsTyped'
  BY <1>3 DEF SlotsTyped
<1>5. InUse(s)' /\ \A r \in Slots : r # s => (InUse(r)' <=> InUse(r))
  BY <1>1, <1>3 DEF InUse
<1>6. SlotsOK'
  BY <1>1, <1>5 DEF SlotsOK
<1>7. SlotsServeDispatched'
  <2>1. ASSUME NEW g \in Fetches
        PROVE  /\ fetch'[g].life = "live" <=> fetcher_handle'[g] # NoSlot
               /\ fetcher_handle'[g] # NoSlot =>
                     /\ https_slots'[fetcher_handle'[g]].state # "IDLE"
                     /\ https_slots'[fetcher_handle'[g]].parent = g
    <3>1. fetcher_handle[g] \in Slots \cup {NoSlot} BY DEF SlotsTyped
    <3>2. CASE fetcher_handle[g] = s
      <4>1. g = f BY <3>2, HttpsSlotAssumption DEF SlotsServeDispatched, Slots
      <4> QED BY <4>1, <3>2, <1>1, <1>3 DEF SlotsServeDispatched
    <3>3. CASE fetcher_handle[g] # s
      BY <3>1, <3>3, <1>1 DEF SlotsServeDispatched, InUse
    <3> QED BY <3>2, <3>3
  <2>2. ASSUME NEW r \in Slots, InUse(r)'
        PROVE  /\ fetcher_handle'[https_slots'[r].parent] = r
               /\ https_slots'[r].conn # NoConn => fetch'[https_slots'[r].parent].active
    <3>1. CASE r = s BY <3>1, <1>1, <1>2 DEF SlotOK
    <3>2. CASE r # s BY <3>2, <2>2, <1>1, <1>2, <1>5 DEF SlotsServeDispatched
    <3> QED BY <3>1, <3>2
  <2> QED BY <2>1, <2>2 DEF SlotsServeDispatched, InUse
<1>8. StartedActive'
  <2> SUFFICES ASSUME NEW r \in Slots, InUse(r)', https_slots'[r].started
               PROVE  fetch'[https_slots'[r].parent].active
    BY DEF StartedActive, InUse
  <2>1. CASE r = s BY <2>1, <1>1
  <2>2. CASE r # s BY <2>2, <1>1, <1>2, <1>5 DEF StartedActive
  <2> QED BY <2>1, <2>2
<1>9. HeardInv'
  <2> SUFFICES ASSUME NEW r \in Slots, InUse(r)'
               PROVE  /\ r # callback' =>
                           /\ told'[https_slots'[r].parent] = 0
                           /\ ~https_slots'[r].aborted => client'[https_slots'[r].parent] = "waiting"
                      /\ r = callback' /\ https_slots'[r].redirected =>
                           client'[https_slots'[r].parent] = "ended" \/ https_slots'[r].state = "UNHEARD"
    BY DEF HeardInv, InUse
  <2>1. CASE r = s BY <2>1, <1>1
  <2>2. CASE r # s BY <2>2, <1>1, <1>2, <1>5 DEF HeardInv
  <2> QED BY <2>1, <2>2
<1>10. CallbackInv'
  BY <1>5, HttpsSlotAssumption DEF CallbackInv, SlotsTyped, Slots
<1> QED BY <1>4, <1>6, <1>7, <1>8, <1>9, <1>10

LEMMA ChangeKeeps ==
    ASSUME HttpsInv, NEW s \in Slots, InUse(s), NEW new, SlotOK(new),
           NEW f, f = https_slots[s].parent, new.parent = f,
           https_slots' = [https_slots EXCEPT ![s] = new],
           fetcher_handle' = fetcher_handle,
           cursor' \in Slots \cup {NoSlot}, callback' \in Slots \cup {NoSlot},
           \A g \in Fetches : fetch'[g].life = fetch[g].life,
           \A g \in Fetches : g # f => /\ fetch'[g].active = fetch[g].active
                                       /\ told'[g] = told[g]
                                       /\ client'[g] = client[g],
           new.started => fetch'[f].active,
           s # callback' => told'[f] = 0 /\ (~new.aborted => client'[f] = "waiting"),
           s = callback' /\ new.redirected => client'[f] = "ended" \/ new.state = "UNHEARD",
           \A r \in Slots : r # s => (r = callback' <=> r = callback),
           callback' # NoSlot => callback' = s \/ callback' = callback,
           callback' # NoSlot => poller' # "no" /\ cursor' = callback' /\ caller' \in {"no", "start"}
    PROVE  HttpsInv'
<1>1. Change(s, new, f) BY DEF Change
<1> QED BY <1>1, Changed

(* A step that leaves slots, handles and what is known of the fetches      *)
(* alone.                                                                  *)
LEMMA StaysKeeps ==
    ASSUME HttpsInv, UNCHANGED <<https_slots, fetcher_handle, callback>>,
           cursor' \in Slots \cup {NoSlot},
           \A f \in Fetches : fetch'[f].life = fetch[f].life /\ fetch'[f].active = fetch[f].active,
           told' = told,
           \A f \in Fetches : fetch[f].life = "live" => client'[f] = client[f],
           callback # NoSlot => poller' # "no" /\ cursor' = callback /\ caller' \in {"no", "start"}
    PROVE  HttpsInv'
<1> USE DEF HttpsInv
<1>1. SlotsTyped' /\ SlotsOK'
  BY DEF SlotsTyped, SlotsOK, InUse
<1>2. \A s \in Slots : InUse(s) => https_slots[s].parent \in Fetches /\ fetch[https_slots[s].parent].life = "live"
  BY SlotOwner
<1>3. SlotsServeDispatched'
  BY <1>2 DEF SlotsServeDispatched, InUse
<1>4. StartedActive'
  BY <1>2 DEF StartedActive, InUse
<1>5. HeardInv'
  BY <1>2 DEF HeardInv, InUse
<1>6. CallbackInv'
  BY DEF CallbackInv, InUse
<1> QED BY <1>1, <1>3, <1>4, <1>5, <1>6

(* hctx_clear and fetch_free let go of each other.                         *)
LEMMA FreeKeeps ==
    ASSUME CoreIInv, HttpsInv, NEW s \in Slots, InUse(s), NEW f, f = https_slots[s].parent,
           hctx_clear(s), fetch' = [fetch EXCEPT ![f] = Freed],
           \A g \in Fetches : g # f => told'[g] = told[g] /\ client'[g] = client[g],
           callback \in {NoSlot, s}, callback' = NoSlot
    PROVE  HttpsInv'
<1> USE DEF HttpsInv
<1>1. /\ f \in Fetches
      /\ fetcher_handle[f] = s
      /\ \A r \in Slots : InUse(r) /\ r # s => https_slots[r].parent # f /\ https_slots[r].parent \in Fetches
  BY SlotOwner
<1>2. /\ https_slots' = [https_slots EXCEPT ![s] = Idle]
      /\ fetcher_handle' = [fetcher_handle EXCEPT ![f] = NoSlot]
      /\ cursor' = After(s)
  BY DEF hctx_clear
<1>3. https_slots'[s] = Idle /\ \A r \in Slots : r # s => https_slots'[r] = https_slots[r]
  BY <1>2 DEF SlotsTyped
<1>4. ~InUse(s)' /\ \A r \in Slots : r # s => (InUse(r)' <=> InUse(r))
  BY <1>3 DEF InUse, Idle
<1>5. cursor' \in Slots \cup {NoSlot}
  BY <1>2, HttpsSlotAssumption DEF After, Slots
<1>6. /\ fetcher_handle' \in [Fetches -> Slots \cup {NoSlot}]
      /\ fetcher_handle'[f] = NoSlot
      /\ \A g \in Fetches : g # f => fetcher_handle'[g] = fetcher_handle[g]
  BY <1>1, <1>2 DEF SlotsTyped
<1>7. fetch'[f].life = "freed" /\ \A g \in Fetches : g # f => fetch'[g] = fetch[g]
  BY <1>1 DEF CoreIInv, CoreTypeOK, Freed
<1>8. \A g \in Fetches : g # f => fetcher_handle[g] # s
  BY <1>1, HttpsSlotAssumption DEF SlotsServeDispatched, Slots
<1>9. SlotsTyped' /\ SlotsOK'
  <2>1. https_slots' \in [Slots -> Slot \cup {Idle}]
    BY <1>2 DEF SlotsTyped
  <2> QED BY <2>1, <1>3, <1>4, <1>5, <1>6 DEF SlotsTyped, SlotsOK
<1>10. SlotsServeDispatched'
  <2>1. ASSUME NEW g \in Fetches
        PROVE  /\ fetch'[g].life = "live" <=> fetcher_handle'[g] # NoSlot
               /\ fetcher_handle'[g] # NoSlot =>
                     /\ https_slots'[fetcher_handle'[g]].state # "IDLE"
                     /\ https_slots'[fetcher_handle'[g]].parent = g
    <3>1. CASE g = f BY <3>1, <1>6, <1>7
    <3>2. CASE g # f
      <4>1. fetcher_handle[g] = NoSlot \/ https_slots'[fetcher_handle[g]] = https_slots[fetcher_handle[g]]
        BY <3>2, <1>3, <1>8 DEF SlotsTyped
      <4> QED BY <3>2, <4>1, <1>6, <1>7 DEF SlotsServeDispatched, InUse
    <3> QED BY <3>1, <3>2
  <2>2. ASSUME NEW r \in Slots, InUse(r)'
        PROVE  /\ fetcher_handle'[https_slots'[r].parent] = r
               /\ https_slots'[r].conn # NoConn => fetch'[https_slots'[r].parent].active
    BY <2>2, <1>1, <1>3, <1>4, <1>6, <1>7 DEF SlotsServeDispatched
  <2> QED BY <2>1, <2>2 DEF SlotsServeDispatched, InUse
<1>11. StartedActive'
  <2> SUFFICES ASSUME NEW r \in Slots, InUse(r)', https_slots'[r].started
               PROVE  fetch'[https_slots'[r].parent].active
    BY DEF StartedActive, InUse
  <2> QED BY <1>1, <1>3, <1>4, <1>7 DEF StartedActive
<1>12. HeardInv'
  <2> SUFFICES ASSUME NEW r \in Slots, InUse(r)'
               PROVE  /\ r # callback' =>
                           /\ told'[https_slots'[r].parent] = 0
                           /\ ~https_slots'[r].aborted => client'[https_slots'[r].parent] = "waiting"
                      /\ r = callback' /\ https_slots'[r].redirected =>
                           client'[https_slots'[r].parent] = "ended" \/ https_slots'[r].state = "UNHEARD"
    BY DEF HeardInv, InUse
  <2>1. r # s BY <1>4
  <2>2. r # callback /\ r # callback'
    BY <2>1, HttpsSlotAssumption DEF Slots
  <2> QED BY <2>1, <2>2, <1>1, <1>3, <1>4 DEF HeardInv
<1>13. CallbackInv'
  BY DEF CallbackInv
<1> QED BY <1>9, <1>10, <1>11, <1>12, <1>13

(* The record setup fills in.                                              *)
LEMMA FreshSlot ==
    ASSUME NEW f \in Fetches
    PROVE  /\ SlotOK(Fresh(f)) /\ AnswerOK(Fresh(f))
           /\ Fresh(f).state = "QUEUED" /\ Fresh(f).parent = f /\ Fresh(f).conn = NoConn
           /\ Fresh(f).started = FALSE /\ Fresh(f).aborted = FALSE
<1> DEFINE c == Fresh(f)
           ka == f \notin Posts
<1>1. c = [state |-> "QUEUED", parent |-> f, aborted |-> FALSE, started |-> FALSE, conn |-> NoConn,
           retries |-> 0, sent |-> 0, keep_alive_ok |-> ka, hdr_buf |-> <<>>, shape |-> NoShape,
           chunked |-> FALSE, body |-> <<>>, cache_eligible |-> FALSE, redirected |-> FALSE,
           corrupt |-> FALSE, unfed |-> <<>>, stale |-> FALSE]
  BY DEF Fresh
<1>2. ka \in BOOLEAN
  OBVIOUS
<1> HIDE DEF c, ka
<1>3. c \in Slot
  BY <1>1, <1>2, HttpsRetryAssumption DEF Slot
<1>4. SlotOK(c)
  BY <1>1, <1>3 DEF SlotOK, OnWire
<1>5. AnswerOK(c)
  BY <1>1 DEF AnswerOK
<1>6. /\ c.state = "QUEUED" /\ c.parent = f /\ c.conn = NoConn
      /\ c.started = FALSE /\ c.aborted = FALSE
  BY <1>1
<1> QED BY <1>4, <1>5, <1>6 DEF c

(* macos9_https_setup gives the new fetch a slot nobody holds.             *)
LEMMA SetupSlot ==
    ASSUME NEW f \in Fetches, NEW hit \in BOOLEAN, HttpsStart(f, hit)
    PROVE  \E s \in Slots, new \in Slot :
              /\ ~InUse(s)
              /\ https_slots' = [https_slots EXCEPT ![s] = new]
              /\ fetcher_handle' = [fetcher_handle EXCEPT ![f] = s]
              /\ SlotOK(new) /\ AnswerOK(new)
              /\ new.state \in {"QUEUED", "CACHEHIT"}
              /\ new.parent = f /\ new.conn = NoConn /\ new.started = FALSE /\ new.aborted = FALSE
<1>1. PICK s \in Slots :
          /\ FirstIdle(s)
          /\ https_slots' = [https_slots EXCEPT ![s] =
                IF hit THEN [Fresh(f) EXCEPT !.state = "CACHEHIT", !.keep_alive_ok = FALSE]
                       ELSE Fresh(f)]
          /\ fetcher_handle' = [fetcher_handle EXCEPT ![f] = s]
  BY DEF HttpsStart
<1> DEFINE c == Fresh(f)
           d == [c EXCEPT !.state = "CACHEHIT", !.keep_alive_ok = FALSE]
           new == IF hit THEN d ELSE c
<1>2. https_slots' = [https_slots EXCEPT ![s] = new]
  BY <1>1
<1>3. /\ SlotOK(c) /\ AnswerOK(c) /\ c.state = "QUEUED" /\ c.parent = f /\ c.conn = NoConn
      /\ c.started = FALSE /\ c.aborted = FALSE
  BY FreshSlot
<1> HIDE DEF c
<1>4. c \in Slot
  BY <1>3 DEF SlotOK
<1>5. d \in Slot /\ d.state = "CACHEHIT"
  BY <1>4 DEF Slot
<1>6. /\ d.parent = c.parent /\ d.conn = c.conn /\ d.started = c.started /\ d.aborted = c.aborted
      /\ d.corrupt = c.corrupt /\ d.hdr_buf = c.hdr_buf /\ d.body = c.body /\ d.sent = c.sent
      /\ d.retries = c.retries
  BY <1>4 DEF Slot
<1> HIDE DEF d
<1>7. SlotOK(d) /\ AnswerOK(d)
  BY <1>3, <1>5, <1>6 DEF SlotOK, AnswerOK, OnWire
<1>8. /\ SlotOK(new) /\ AnswerOK(new) /\ new.state \in {"QUEUED", "CACHEHIT"}
      /\ new.parent = f /\ new.conn = NoConn /\ new.started = FALSE /\ new.aborted = FALSE
  BY <1>3, <1>5, <1>6, <1>7
<1> HIDE DEF new
<1>9. new \in Slot BY <1>8 DEF SlotOK
<1> QED BY <1>1, <1>2, <1>8, <1>9 DEF FirstIdle

LEMMA StartKeeps ==
    ASSUME CoreIInv, HttpsInv, NEW f \in Fetches, NEW hit \in BOOLEAN, HttpsStart(f, hit)
    PROVE  HttpsInv'
<1> USE DEF HttpsInv
<1>1. PICK s \in Slots, new \in Slot :
          /\ ~InUse(s)
          /\ https_slots' = [https_slots EXCEPT ![s] = new]
          /\ fetcher_handle' = [fetcher_handle EXCEPT ![f] = s]
          /\ SlotOK(new) /\ AnswerOK(new)
          /\ new.state \in {"QUEUED", "CACHEHIT"}
          /\ new.parent = f /\ new.conn = NoConn /\ new.started = FALSE /\ new.aborted = FALSE
  BY SetupSlot
<1>2. https_slots'[s] = new /\ \A r \in Slots : r # s => https_slots'[r] = https_slots[r]
  BY <1>1 DEF SlotsTyped
<1>3. InUse(s)' /\ \A r \in Slots : r # s => (InUse(r)' <=> InUse(r))
  BY <1>1, <1>2 DEF InUse
<1>4. /\ fetcher_handle' \in [Fetches -> Slots \cup {NoSlot}]
      /\ fetcher_handle'[f] = s
      /\ \A g \in Fetches : g # f => fetcher_handle'[g] = fetcher_handle[g]
  BY <1>1 DEF SlotsTyped
<1>5. /\ client[f] = "none"
      /\ fetch' = [fetch EXCEPT ![f].life = "live"]
      /\ client' = [client EXCEPT ![f] = "waiting"]
      /\ UNCHANGED <<told, poller, cursor, callback>>
      /\ caller' = "start"
  BY DEF HttpsStart, FetchStart
<1>6. fetch[f].life = "none" /\ told[f] = 0
  BY <1>5 DEF CoreIInv, EndsInv
<1>7. /\ fetch'[f].life = "live" /\ client'[f] = "waiting"
      /\ \A g \in Fetches : g # f => fetch'[g] = fetch[g] /\ client'[g] = client[g]
  BY <1>5 DEF CoreIInv, CoreTypeOK
<1>8. \A g \in Fetches : fetcher_handle[g] # s
  BY <1>1, HttpsSlotAssumption DEF SlotsServeDispatched, Slots
<1>9. s # NoSlot /\ s # callback
  BY <1>1, HttpsSlotAssumption DEF CallbackInv, Slots
<1>10. \A r \in Slots : InUse(r) /\ r # s => https_slots[r].parent # f /\ https_slots[r].parent \in Fetches
  BY <1>6, SlotOwner
<1>11. SlotsTyped' /\ SlotsOK'
  <2>1. new \in Slot BY <1>1 DEF SlotOK
  <2>2. https_slots' \in [Slots -> Slot \cup {Idle}] BY <1>1, <2>1 DEF SlotsTyped
  <2> QED BY <2>2, <1>1, <1>2, <1>3, <1>4, <1>5 DEF SlotsTyped, SlotsOK
<1>12. SlotsServeDispatched'
  <2>1. ASSUME NEW g \in Fetches
        PROVE  /\ fetch'[g].life = "live" <=> fetcher_handle'[g] # NoSlot
               /\ fetcher_handle'[g] # NoSlot =>
                     /\ https_slots'[fetcher_handle'[g]].state # "IDLE"
                     /\ https_slots'[fetcher_handle'[g]].parent = g
    <3>1. CASE g = f BY <3>1, <1>1, <1>2, <1>4, <1>7, <1>9
    <3>2. CASE g # f BY <3>2, <1>2, <1>4, <1>7, <1>8 DEF SlotsServeDispatched, SlotsTyped, InUse
    <3> QED BY <3>1, <3>2
  <2>2. ASSUME NEW r \in Slots, InUse(r)'
        PROVE  /\ fetcher_handle'[https_slots'[r].parent] = r
               /\ https_slots'[r].conn # NoConn => fetch'[https_slots'[r].parent].active
    <3>1. CASE r = s BY <3>1, <1>1, <1>2, <1>4
    <3>2. CASE r # s BY <3>2, <2>2, <1>2, <1>3, <1>4, <1>7, <1>10 DEF SlotsServeDispatched
    <3> QED BY <3>1, <3>2
  <2> QED BY <2>1, <2>2 DEF SlotsServeDispatched, InUse
<1>13. StartedActive'
  <2> SUFFICES ASSUME NEW r \in Slots, InUse(r)', https_slots'[r].started
               PROVE  fetch'[https_slots'[r].parent].active
    BY DEF StartedActive, InUse
  <2>1. r # s BY <1>1, <1>2
  <2> QED BY <2>1, <1>2, <1>3, <1>7, <1>10 DEF StartedActive
<1>14. HeardInv'
  <2> SUFFICES ASSUME NEW r \in Slots, InUse(r)'
               PROVE  /\ r # callback' =>
                           /\ told'[https_slots'[r].parent] = 0
                           /\ ~https_slots'[r].aborted => client'[https_slots'[r].parent] = "waiting"
                      /\ r = callback' /\ https_slots'[r].redirected =>
                           client'[https_slots'[r].parent] = "ended" \/ https_slots'[r].state = "UNHEARD"
    BY DEF HeardInv, InUse
  <2>1. CASE r = s BY <2>1, <1>1, <1>2, <1>5, <1>6, <1>7, <1>9
  <2>2. CASE r # s BY <2>2, <1>2, <1>3, <1>5, <1>7, <1>10 DEF HeardInv
  <2> QED BY <2>1, <2>2
<1>15. CallbackInv'
  BY <1>3, <1>5, <1>9 DEF CallbackInv, SlotsTyped
<1> QED BY <1>11, <1>12, <1>13, <1>14, <1>15

(* Of a slot record in use only a flag changes.                            *)
Flagged(c) == {[c EXCEPT !.aborted = TRUE], [c EXCEPT !.stale = TRUE],
               [c EXCEPT !.started = TRUE, !.stale = FALSE]}

LEMMA FlagsKeep ==
    ASSUME NEW c, SlotOK(c), NEW d \in Flagged(c)
    PROVE  /\ SlotOK(d)
           /\ AnswerOK(c) => AnswerOK(d)
           /\ \A w : WireOK(c, w) => WireOK(d, w)
           /\ d.state = c.state /\ d.parent = c.parent /\ d.conn = c.conn
           /\ d.redirected = c.redirected
           /\ d.started = c.started \/ d = [c EXCEPT !.started = TRUE, !.stale = FALSE]
           /\ d.aborted = c.aborted \/ (d = [c EXCEPT !.aborted = TRUE] /\ d.aborted = TRUE)
<1>1. c \in Slot BY DEF SlotOK
<1>2. d \in Slot
  <2>1. CASE d = [c EXCEPT !.aborted = TRUE] BY <1>1, <2>1 DEF Slot
  <2>2. CASE d = [c EXCEPT !.stale = TRUE] BY <1>1, <2>2 DEF Slot
  <2>3. CASE d = [c EXCEPT !.started = TRUE, !.stale = FALSE] BY <1>1, <2>3 DEF Slot
  <2> QED BY <2>1, <2>2, <2>3 DEF Flagged
<1>3. /\ d.state = c.state /\ d.parent = c.parent /\ d.conn = c.conn /\ d.redirected = c.redirected
      /\ d.corrupt = c.corrupt /\ d.retries = c.retries /\ d.sent = c.sent
      /\ d.hdr_buf = c.hdr_buf /\ d.body = c.body /\ d.shape = c.shape /\ d.chunked = c.chunked
      /\ d.unfed = c.unfed
  <2>1. CASE d = [c EXCEPT !.aborted = TRUE] BY <1>1, <2>1 DEF Slot
  <2>2. CASE d = [c EXCEPT !.stale = TRUE] BY <1>1, <2>2 DEF Slot
  <2>3. CASE d = [c EXCEPT !.started = TRUE, !.stale = FALSE] BY <1>1, <2>3 DEF Slot
  <2> QED BY <2>1, <2>2, <2>3 DEF Flagged
<1>4. /\ d.started = c.started \/ d = [c EXCEPT !.started = TRUE, !.stale = FALSE]
      /\ d.aborted = c.aborted \/ (d = [c EXCEPT !.aborted = TRUE] /\ d.aborted = TRUE)
      /\ c.started => d.started
  BY <1>1 DEF Slot, Flagged
<1>5. SlotOK(d) BY <1>2, <1>3, <1>4 DEF SlotOK
<1>6. AnswerOK(c) => AnswerOK(d) BY <1>3 DEF AnswerOK
<1>7. \A w : WireOK(c, w) => WireOK(d, w) BY <1>3 DEF WireOK
<1> QED BY <1>3, <1>4, <1>5, <1>6, <1>7

-----------------------------------------------------------------------------
(* How connections and answers keep their invariant.                       *)

(* One slot, its connection and the pool change; every connection still    *)
(* has one owner, and nobody else's answer is touched.                     *)
LEMMA NetKeeps ==
    ASSUME NetInv, NEW s \in Slots,
           \A r \in Slots : r # s => https_slots'[r] = https_slots[r],
           NetTyped',
           Distinct(https_pool'), Len(https_pool') <= HTTPS_POOL_SIZE,
           \A e \in Conns : ostls'[e].open <=> \/ Holds(https_pool', e)
                                               \/ ConnOf(s)' = e
                                               \/ \E r \in Slots : r # s /\ ConnOf(r) = e,
           \A e \in Conns : Holds(https_pool', e) => /\ Holds(https_pool, e) \/ e = ConnOf(s)
                                                     /\ e # ConnOf(s)'
                                                     /\ ostls'[e].wire = <<>>,
           ConnOf(s)' # NoConn => \/ ConnOf(s)' = ConnOf(s)
                                  \/ Holds(https_pool, ConnOf(s)')
                                  \/ ConnOf(s)' \in Conns /\ ~ostls[ConnOf(s)'].open,
           \A r \in Slots : r # s /\ ConnOf(r) # NoConn => ostls'[ConnOf(r)].wire = ostls[ConnOf(r)].wire,
           InUse(s)' => /\ AnswerOK(https_slots'[s])
                        /\ s # callback' /\ Wired(https_slots'[s]) =>
                              WireOK(https_slots'[s], ostls'[https_slots'[s].conn].wire),
           \A r \in Slots : r # s /\ r # callback' => r # callback,
           \A r \in Slots : InUse(r) /\ Wired(https_slots[r]) => https_slots[r].conn # NoConn,
           \A u \in Urls : disk'[u] # "part"
    PROVE  NetInv'
<1> USE DEF NetInv
<1>1. \A r \in Slots : r # s => ConnOf(r)' = ConnOf(r) /\ (InUse(r)' <=> InUse(r))
  BY DEF ConnOf, InUse
<1>2. \A x : Holds(https_pool', x) => x \in Conns
  BY DEF NetTyped, Holds
<1>3. Owned'
  <2>1. \A e \in Conns : ostls'[e].open <=> Holds(https_pool', e) \/ \E r \in Slots : ConnOf(r)' = e
    BY <1>1
  <2>2. ASSUME NEW r \in Slots, ConnOf(r)' # NoConn PROVE ~Holds(https_pool', ConnOf(r)')
    <3>1. CASE r = s BY <3>1, <1>2
    <3>2. CASE r # s
      <4>1. ConnOf(r)' = ConnOf(r) /\ ~Holds(https_pool, ConnOf(r))
        BY <3>2, <2>2, <1>1 DEF Owned
      <4>2. ConnOf(s) # NoConn => ConnOf(r) # ConnOf(s)
        BY <3>2 DEF Owned
      <4> QED BY <4>1, <4>2, <2>2, <1>2
    <3> QED BY <3>1, <3>2
  <2>3. ASSUME NEW r \in Slots, ConnOf(s)' # NoConn, r # s PROVE ConnOf(r)' # ConnOf(s)'
    <3>1. ConnOf(r)' = ConnOf(r) BY <2>3, <1>1
    <3>2. CASE ConnOf(s)' = ConnOf(s) BY <3>1, <3>2, <2>3 DEF Owned
    <3>3. CASE Holds(https_pool, ConnOf(s)') BY <3>1, <3>3, <2>3 DEF Owned
    <3>4. CASE ConnOf(s)' \in Conns /\ ~ostls[ConnOf(s)'].open BY <3>1, <3>4, <2>3 DEF Owned
    <3> QED BY <3>2, <3>3, <3>4, <2>3
  <2>4. ASSUME NEW q \in Slots, NEW r \in Slots, ConnOf(r)' # NoConn, ConnOf(q)' = ConnOf(r)' PROVE q = r
    <3>1. CASE q = s \/ r = s BY <3>1, <2>3, <2>4
    <3>2. CASE q # s /\ r # s BY <3>2, <2>4, <1>1 DEF Owned
    <3> QED BY <3>1, <3>2
  <2> QED BY <2>1, <2>2, <2>4 DEF Owned
<1>4. PoolClean'
  BY DEF PoolClean
<1>5. WiresOK'
  <2> SUFFICES ASSUME NEW r \in Slots, InUse(r)'
               PROVE  /\ AnswerOK(https_slots'[r])
                      /\ r # callback' /\ Wired(https_slots'[r]) =>
                            WireOK(https_slots'[r], ostls'[https_slots'[r].conn].wire)
    BY DEF WiresOK, InUse, AnswerOK, WireOK, Wired
  <2>1. CASE r = s BY <2>1
  <2>2. CASE r # s
    <3>1. InUse(r) /\ https_slots'[r] = https_slots[r] BY <2>2, <1>1
    <3>2. AnswerOK(https_slots[r]) BY <3>1 DEF WiresOK
    <3>3. ASSUME r # callback', Wired(https_slots[r])
          PROVE  WireOK(https_slots[r], ostls'[https_slots[r].conn].wire)
      <4>1. ConnOf(r) = https_slots[r].conn /\ ConnOf(r) # NoConn BY <3>1, <3>3 DEF ConnOf
      <4>2. WireOK(https_slots[r], ostls[https_slots[r].conn].wire) BY <3>1, <3>3, <2>2 DEF WiresOK
      <4> QED BY <4>1, <4>2, <2>2
    <3> QED BY <3>1, <3>2, <3>3
  <2> QED BY <2>1, <2>2
<1>6. SalvageNeverCached'
  BY DEF SalvageNeverCached
<1> QED BY <1>3, <1>4, <1>5, <1>6

(* The slot keeps its connection.                                          *)
LEMMA NetSame ==
    ASSUME HttpsInv, NetInv, NEW s \in Slots, ConnOf(s)' = ConnOf(s),
           \A r \in Slots : r # s => https_slots'[r] = https_slots[r],
           ostls' \in [Conns -> Conn], UNCHANGED <<https_pool, disk>>,
           \A e \in Conns : ostls'[e].open = ostls[e].open,
           \A e \in Conns : e # ConnOf(s) => ostls'[e].wire = ostls[e].wire,
           InUse(s)' => /\ AnswerOK(https_slots'[s])
                        /\ s # callback' /\ Wired(https_slots'[s]) =>
                              WireOK(https_slots'[s], ostls'[https_slots'[s].conn].wire),
           \A r \in Slots : r # s /\ r # callback' => r # callback
    PROVE  NetInv'
<1>1. NetTyped' BY DEF NetInv, NetTyped
<1>2. Distinct(https_pool') /\ Len(https_pool') <= HTTPS_POOL_SIZE BY DEF NetInv, Owned, PoolClean
<1>3. \A r \in Slots : ConnOf(r) \in Conns \cup {NoConn}
  BY DEF HttpsInv, SlotsOK, SlotOK, Slot, ConnOf
<1>4. \A e \in Conns : ostls'[e].open <=> \/ Holds(https_pool', e)
                                          \/ ConnOf(s)' = e
                                          \/ \E r \in Slots : r # s /\ ConnOf(r) = e
  BY DEF NetInv, Owned
<1>5. \A e \in Conns : Holds(https_pool', e) => /\ Holds(https_pool, e) \/ e = ConnOf(s)
                                                /\ e # ConnOf(s)'
                                                /\ ostls'[e].wire = <<>>
  <2> SUFFICES ASSUME NEW e \in Conns, Holds(https_pool, e)
               PROVE  e # ConnOf(s) /\ ostls'[e].wire = <<>>
    OBVIOUS
  <2>1. e # ConnOf(s) BY HttpsNoneAssumption DEF NetInv, Owned
  <2> QED BY <2>1 DEF NetInv, PoolClean
<1>6. \A r \in Slots : r # s /\ ConnOf(r) # NoConn => ostls'[ConnOf(r)].wire = ostls[ConnOf(r)].wire
  BY <1>3 DEF NetInv, Owned
<1>7. \A r \in Slots : InUse(r) /\ Wired(https_slots[r]) => https_slots[r].conn # NoConn
  BY DEF HttpsInv, SlotsOK, SlotOK, Wired
<1>8. \A u \in Urls : disk'[u] # "part"
  BY DEF NetInv, SalvageNeverCached
<1> QED BY <1>1, <1>2, <1>4, <1>5, <1>6, <1>7, <1>8, NetKeeps

(* OSTLS_Dispose.                                                          *)
LEMMA DisposedNet ==
    ASSUME NEW net \in [Conns -> Conn], NEW es
    PROVE  /\ Disposed(net, es) \in [Conns -> Conn]
           /\ \A e \in Conns : e \in es => ~Disposed(net, es)[e].open
           /\ \A e \in Conns : e \notin es => Disposed(net, es)[e] = net[e]
<1>1. ClosedConn \in Conn /\ ClosedConn.open = FALSE
  BY DEF ClosedConn, Conn
<1> QED BY <1>1 DEF Disposed

(* The slot gives its connection up, which is closed.                      *)
LEMMA NetDrop ==
    ASSUME HttpsInv, NetInv, NEW s \in Slots, ConnOf(s)' = NoConn,
           \A r \in Slots : r # s => https_slots'[r] = https_slots[r],
           NEW net \in [Conns -> Conn],
           \A e \in Conns : e # ConnOf(s) => net[e] = ostls[e],
           ostls' = Disposed(net, {ConnOf(s)}), UNCHANGED https_pool,
           InUse(s)' => AnswerOK(https_slots'[s]) /\ ~Wired(https_slots'[s]),
           \A r \in Slots : r # s /\ r # callback' => r # callback,
           disk' \in [Urls -> {"none", "whole", "unknown", "part"}],
           \A u \in Urls : disk'[u] # "part"
    PROVE  NetInv'
<1>1. /\ ostls' \in [Conns -> Conn]
      /\ \A e \in Conns : e = ConnOf(s) => ~ostls'[e].open
      /\ \A e \in Conns : e # ConnOf(s) => ostls'[e] = ostls[e]
  BY DisposedNet
<1>2. NetTyped' BY <1>1 DEF NetInv, NetTyped
<1>3. Distinct(https_pool') /\ Len(https_pool') <= HTTPS_POOL_SIZE BY DEF NetInv, Owned, PoolClean
<1>4. \A r \in Slots : ConnOf(r) \in Conns \cup {NoConn}
  BY DEF HttpsInv, SlotsOK, SlotOK, Slot, ConnOf
<1>5. \A e \in Conns : Holds(https_pool, e) => e # ConnOf(s)
  BY HttpsNoneAssumption DEF NetInv, Owned
<1>6. \A e \in Conns : ostls'[e].open <=> \/ Holds(https_pool', e)
                                          \/ ConnOf(s)' = e
                                          \/ \E r \in Slots : r # s /\ ConnOf(r) = e
  <2> SUFFICES ASSUME NEW e \in Conns
               PROVE  ostls'[e].open <=> Holds(https_pool, e) \/ \E r \in Slots : r # s /\ ConnOf(r) = e
    BY HttpsNoneAssumption
  <2>1. CASE e = ConnOf(s) BY <2>1, <1>1, <1>5, HttpsNoneAssumption DEF NetInv, Owned
  <2>2. CASE e # ConnOf(s) BY <2>2, <1>1 DEF NetInv, Owned
  <2> QED BY <2>1, <2>2
<1>7. \A e \in Conns : Holds(https_pool', e) => /\ Holds(https_pool, e) \/ e = ConnOf(s)
                                                /\ e # ConnOf(s)'
                                                /\ ostls'[e].wire = <<>>
  BY <1>1, <1>5, HttpsNoneAssumption DEF NetInv, PoolClean
<1>8. \A r \in Slots : r # s /\ ConnOf(r) # NoConn => ostls'[ConnOf(r)].wire = ostls[ConnOf(r)].wire
  BY <1>1, <1>4, ZenonT(60) DEF NetInv, Owned
<1>9. \A r \in Slots : InUse(r) /\ Wired(https_slots[r]) => https_slots[r].conn # NoConn
  BY DEF HttpsInv, SlotsOK, SlotOK, Wired
<1> QED BY <1>2, <1>3, <1>6, <1>7, <1>8, <1>9, NetKeeps

-----------------------------------------------------------------------------
(* The loop, the client and the world outside.                             *)

(* A flag of one slot changes.                                             *)
LEMMA FlagNet ==
    ASSUME HttpsInv, NetInv, NEW s \in Slots, InUse(s),
           NEW d \in Flagged(https_slots[s]), https_slots' = [https_slots EXCEPT ![s] = d],
           UNCHANGED <<netVars, disk, callback>>
    PROVE  NetInv'
<1> DEFINE c == https_slots[s]
<1>1. SlotOK(c) BY SlotOwner
<1>2. /\ SlotOK(d)
      /\ AnswerOK(c) => AnswerOK(d)
      /\ \A w : WireOK(c, w) => WireOK(d, w)
      /\ d.state = c.state /\ d.parent = c.parent /\ d.conn = c.conn
  <2> HIDE DEF c
  <2> QED BY <1>1, FlagsKeep DEF c
<1>3. https_slots'[s] = d /\ \A r \in Slots : r # s => https_slots'[r] = https_slots[r]
  BY DEF HttpsInv, SlotsTyped
<1>4. ConnOf(s)' = ConnOf(s) /\ InUse(s)'
  BY <1>2, <1>3 DEF ConnOf, InUse
<1>5. UNCHANGED <<ostls, https_pool, disk, callback>> /\ ostls' \in [Conns -> Conn]
  BY DEF netVars, NetInv, NetTyped
<1>6. AnswerOK(d) /\ (s # callback /\ Wired(d) => WireOK(d, ostls[d.conn].wire))
  BY <1>2 DEF NetInv, WiresOK, Wired
<1> QED BY <1>3, <1>4, <1>5, <1>6, NetSame

(* A step that touches neither slots nor connections.                      *)
LEMMA NetUntouched ==
    ASSUME NetInv, UNCHANGED <<https_slots, netVars, disk, callback>>
    PROVE  NetInv'
<1>1. UNCHANGED <<https_slots, ostls, https_pool, disk, callback>> BY DEF netVars
<1>2. NetTyped' /\ PoolClean' /\ SalvageNeverCached'
  BY <1>1 DEF NetInv, NetTyped, PoolClean, SalvageNeverCached
<1>3. Owned' BY <1>1 DEF NetInv, Owned, ConnOf, InUse
<1>4. WiresOK' BY <1>1 DEF NetInv, WiresOK, InUse
<1> QED BY <1>2, <1>3, <1>4 DEF NetInv

(* No slot goes back from the body of its answer.                          *)
Forward ==
    \A s \in Slots :
        /\ InUse(s) /\ https_slots[s].state \in {"BODY", "UNHEARD"}
        /\ https_slots'[s].state # "IDLE"
        => https_slots'[s].state \in {"BODY", "UNHEARD", "FAIL"}

LEMMA ForwardSlot ==
    ASSUME NEW s \in Slots, \A r \in Slots : r # s => https_slots'[r] = https_slots[r],
           Handing(https_slots[s]) => https_slots'[s].state \in {"IDLE", "BODY", "UNHEARD", "FAIL"}
    PROVE  Forward
  BY DEF Forward, Handing

LEMMA FlagForward ==
    ASSUME HttpsInv, NEW s \in Slots, InUse(s), NEW d \in Flagged(https_slots[s]),
           https_slots' = [https_slots EXCEPT ![s] = d]
    PROVE  Forward
<1>1. d.state = https_slots[s].state BY SlotOwner, FlagsKeep
<1>2. https_slots'[s] = d /\ \A r \in Slots : r # s => https_slots'[r] = https_slots[r]
  BY DEF HttpsInv, SlotsTyped
<1> QED BY <1>1, <1>2, ForwardSlot DEF Handing

(* fetch_dispatch_jobs hands a fetch over, which is active from then on.   *)
LEMMA DispatchKeeps ==
    ASSUME CoreIInv, HttpsInv, NetInv, NEW i \in DOMAIN queue_ring, HttpsDispatch(i)
    PROVE  HttpsInv' /\ NetInv' /\ Forward
<1> DEFINE g == queue_ring[i]
           s == fetcher_handle[g]
           c == https_slots[s]
           d == [c EXCEPT !.started = TRUE, !.stale = FALSE]
<1>1. g \in Fetches /\ fetch[g].life = "live"
  BY ElementOfSeq, RingsAgreeRestated DEF CoreIInv, CoreTypeOK, Holds
<1>2. /\ fetch' = [fetch EXCEPT ![g].active = TRUE]
      /\ https_slots' = macos9_https_start(s)
      /\ UNCHANGED <<told, client, caller, poller, fetcher_handle, cursor, callback>>
      /\ UNCHANGED <<netVars, disk, callback>>
  BY DEF HttpsDispatch, DispatchJob, MarkActive, clientVars, loopVars
<1> HIDE DEF g
<1>3. s \in Slots /\ c.parent = g /\ InUse(s)
  BY <1>1 DEF HttpsInv, SlotsServeDispatched, SlotsTyped
<1> HIDE DEF s
<1>4. SlotOK(c) BY <1>3, SlotOwner
<1>5. https_slots' = [https_slots EXCEPT ![s] = d]
  <2>1. c \in Slot BY <1>4 DEF SlotOK
  <2>2. https_slots \in [Slots -> Slot \cup {Idle}] BY DEF HttpsInv, SlotsTyped
  <2> QED BY <1>2, <1>3, <2>1, <2>2 DEF macos9_https_start
<1>6. /\ d \in Flagged(c) /\ SlotOK(d) /\ d.parent = g /\ d.redirected = c.redirected
      /\ d.aborted = c.aborted /\ d.state = c.state
  <2>0. d \in Flagged(c) BY DEF Flagged
  <2>1. SlotOK(d) /\ d.parent = g /\ d.redirected = c.redirected BY <1>3, <1>4, <2>0, FlagsKeep
  <2>2. c \in Slot BY <1>4 DEF SlotOK
  <2>3. d.aborted = c.aborted /\ d.state = c.state BY <2>2 DEF Slot
  <2> QED BY <2>0, <2>1, <2>3
<1> HIDE DEF d
<1>7. NetInv' BY <1>2, <1>3, <1>5, <1>6, FlagNet
<1>8. /\ \A f \in Fetches : fetch'[f].life = fetch[f].life
      /\ \A f \in Fetches : f # g => fetch'[f].active = fetch[f].active
      /\ fetch'[g].active
  BY <1>1, <1>2 DEF CoreIInv, CoreTypeOK
<1>9. /\ s # callback => told[g] = 0 /\ (~c.aborted => client[g] = "waiting")
      /\ s = callback /\ c.redirected => client[g] = "ended" \/ c.state = "UNHEARD"
  BY <1>3 DEF HttpsInv, HeardInv
<1>10. /\ cursor' \in Slots \cup {NoSlot} /\ callback' \in Slots \cup {NoSlot}
       /\ callback' # NoSlot => poller' # "no" /\ cursor' = callback' /\ caller' \in {"no", "start"}
  BY <1>2 DEF HttpsInv, SlotsTyped, CallbackInv
<1>11. HttpsInv'
  <2>1. /\ s # callback' => told'[g] = 0 /\ (~d.aborted => client'[g] = "waiting")
        /\ s = callback' /\ d.redirected => client'[g] = "ended" \/ d.state = "UNHEARD"
        /\ \A f \in Fetches : f # g => /\ fetch'[f].active = fetch[f].active
                                       /\ told'[f] = told[f]
                                       /\ client'[f] = client[f]
        /\ \A r \in Slots : r # s => (r = callback' <=> r = callback)
        /\ callback' # NoSlot => callback' = s \/ callback' = callback
        /\ d.started => fetch'[g].active
        /\ fetcher_handle' = fetcher_handle
    BY <1>2, <1>6, <1>8, <1>9
  <2>2. g = https_slots[s].parent /\ d.parent = g /\ SlotOK(d)
    BY <1>3, <1>6
  <2>3. Change(s, d, g) BY <1>5, <1>8, <1>10, <2>1, <2>2 DEF Change
  <2> QED BY <1>3, <2>2, <2>3, Changed
<1>12. Forward BY <1>3, <1>5, <1>6, FlagForward
<1> QED BY <1>7, <1>11, <1>12

LEMMA AbortKeeps ==
    ASSUME CoreIInv, HttpsInv, NetInv, NEW f \in Fetches, HttpsAbort(f)
    PROVE  HttpsInv' /\ NetInv' /\ Forward
<1> DEFINE s == fetcher_handle[f]
           c == https_slots[s]
           d == [c EXCEPT !.aborted = TRUE]
<1>1. /\ client[f] = "waiting"
      /\ fetch' = [fetch EXCEPT ![f].last = "finished"]
      /\ client' = [client EXCEPT ![f] = "dropped"]
      /\ https_slots' = macos9_https_abort(s)
      /\ UNCHANGED <<told, caller, poller, fetcher_handle, cursor, callback>>
      /\ UNCHANGED <<netVars, disk, callback>>
  BY DEF HttpsAbort, FetchAbort, loopVars
<1>2. fetch[f].life = "live"
  BY <1>1 DEF CoreIInv, EndsInv
<1>3. s \in Slots /\ c.parent = f /\ InUse(s)
  BY <1>2 DEF HttpsInv, SlotsServeDispatched, SlotsTyped
<1> HIDE DEF s
<1>4. SlotOK(c) BY <1>3, SlotOwner
<1>5. https_slots' = [https_slots EXCEPT ![s] = d]
  BY <1>1 DEF macos9_https_abort
<1>6. c \in Slot BY <1>4 DEF SlotOK
<1>7. /\ d \in Flagged(c) /\ SlotOK(d) /\ d.parent = f /\ d.redirected = c.redirected
  <2>1. d \in Flagged(c) BY DEF Flagged
  <2> QED BY <1>3, <1>4, <2>1, FlagsKeep
<1>8. d.aborted = TRUE /\ d.started = c.started /\ d.state = c.state BY <1>6 DEF Slot
<1> HIDE DEF d
<1>9. NetInv' BY <1>1, <1>3, <1>5, <1>7, FlagNet
<1>10. /\ \A g \in Fetches : fetch'[g].life = fetch[g].life /\ fetch'[g].active = fetch[g].active
       /\ \A g \in Fetches : g # f => client'[g] = client[g]
  BY <1>1 DEF CoreIInv, CoreTypeOK
<1>11. /\ s # callback => told[f] = 0
       /\ s = callback /\ c.redirected => client[f] = "ended" \/ c.state = "UNHEARD"
       /\ c.started => fetch[f].active
  BY <1>3 DEF HttpsInv, HeardInv, StartedActive
<1>12. /\ cursor' \in Slots \cup {NoSlot} /\ callback' \in Slots \cup {NoSlot}
       /\ callback' # NoSlot => poller' # "no" /\ cursor' = callback' /\ caller' \in {"no", "start"}
  BY <1>1 DEF HttpsInv, SlotsTyped, CallbackInv
<1>13. HttpsInv'
  <2>1. /\ s # callback' => told'[f] = 0 /\ (~d.aborted => client'[f] = "waiting")
        /\ s = callback' /\ d.redirected => client'[f] = "ended" \/ d.state = "UNHEARD"
        /\ \A g \in Fetches : fetch'[g].life = fetch[g].life
        /\ \A g \in Fetches : g # f => /\ fetch'[g].active = fetch[g].active
                                       /\ told'[g] = told[g]
                                       /\ client'[g] = client[g]
        /\ \A r \in Slots : r # s => (r = callback' <=> r = callback)
        /\ callback' # NoSlot => callback' = s \/ callback' = callback
        /\ d.started => fetch'[f].active
        /\ fetcher_handle' = fetcher_handle
    BY <1>1, <1>7, <1>8, <1>10, <1>11
  <2>2. f = https_slots[s].parent /\ d.parent = f /\ SlotOK(d)
    BY <1>3, <1>7
  <2> QED BY <1>3, <1>5, <1>12, <2>1, <2>2, ChangeKeeps, ZenonT(60)
<1>14. Forward BY <1>3, <1>5, <1>7, FlagForward
<1> QED BY <1>9, <1>13, <1>14

LEMMA StartNet ==
    ASSUME HttpsInv, NetInv, NEW f \in Fetches, NEW hit \in BOOLEAN, HttpsStart(f, hit)
    PROVE  NetInv'
<1>1. PICK s \in Slots, new \in Slot :
          /\ ~InUse(s)
          /\ https_slots' = [https_slots EXCEPT ![s] = new]
          /\ fetcher_handle' = [fetcher_handle EXCEPT ![f] = s]
          /\ SlotOK(new) /\ AnswerOK(new)
          /\ new.state \in {"QUEUED", "CACHEHIT"}
          /\ new.parent = f /\ new.conn = NoConn /\ new.started = FALSE /\ new.aborted = FALSE
  BY SetupSlot
<1>2. https_slots'[s] = new /\ \A r \in Slots : r # s => https_slots'[r] = https_slots[r]
  BY <1>1 DEF HttpsInv, SlotsTyped
<1>3. UNCHANGED <<ostls, https_pool, disk, callback>> /\ ostls' \in [Conns -> Conn]
  BY DEF HttpsStart, netVars, NetInv, NetTyped
<1>4. ConnOf(s)' = ConnOf(s)
  BY <1>1, <1>2 DEF ConnOf, InUse
<1>5. AnswerOK(https_slots'[s]) /\ ~Wired(https_slots'[s])
  BY <1>1, <1>2 DEF Wired, OnWire
<1> QED BY <1>2, <1>3, <1>4, <1>5, NetSame

(* The event loop's own steps, and a refused fetch, touch no slot.         *)
LEMMA LoopKeeps ==
    ASSUME CoreIInv, HttpsInv, NetInv,
           \/ HttpsDispatchReturns \/ HttpsPump \/ HttpsFetcherPoll \/ HttpsPollsDone
           \/ \E f \in Fetches : HttpsRefuse(f)
    PROVE  HttpsInv' /\ NetInv' /\ CoreNext
<1>1. UNCHANGED <<fetch, told>> /\ UNCHANGED <<https_slots, netVars, disk, callback>>
      /\ fetcher_handle' = fetcher_handle
  BY DEF HttpsDispatchReturns, HttpsPump, HttpsFetcherPoll, HttpsPollsDone, DispatchReturns, FetchPump,
         FetcherPoll, PollsDone, HttpsRefuse, FetchRefused, httpsVars, clientVars
<1>2. cursor' \in Slots \cup {NoSlot}
  BY HttpsSlotAssumption DEF HttpsInv, SlotsTyped, HttpsDispatchReturns, HttpsPump, HttpsFetcherPoll,
         HttpsPollsDone, HttpsRefuse, httpsVars, Slots
<1>3. \A f \in Fetches : fetch[f].life = "live" => client'[f] = client[f]
  <2>1. CASE \E f \in Fetches : HttpsRefuse(f)
    <3>1. PICK f \in Fetches : client[f] = "none" /\ client' = [client EXCEPT ![f] = "refused"]
      BY <2>1 DEF HttpsRefuse, FetchRefused
    <3> QED BY <3>1 DEF CoreIInv, CoreTypeOK, EndsInv
  <2>2. CASE HttpsDispatchReturns \/ HttpsPump \/ HttpsFetcherPoll \/ HttpsPollsDone
    BY <2>2 DEF HttpsDispatchReturns, HttpsPump, HttpsFetcherPoll, HttpsPollsDone, DispatchReturns,
         FetchPump, FetcherPoll, PollsDone, clientVars
  <2> QED BY <2>1, <2>2
<1>4. callback # NoSlot => poller' # "no" /\ cursor' = callback /\ caller' \in {"no", "start"}
  BY DEF HttpsInv, CallbackInv, HttpsDispatchReturns, HttpsPump, HttpsFetcherPoll, HttpsPollsDone,
         DispatchReturns, FetchPump, FetcherPoll, PollsDone, HttpsRefuse, FetchRefused, loopVars,
         httpsVars
<1>5. HttpsInv'
  BY <1>1, <1>2, <1>3, <1>4, StaysKeeps
<1>6. NetInv'
  BY <1>1, NetUntouched
<1>7. CoreNext
  BY DEF HttpsDispatchReturns, HttpsPump, HttpsFetcherPoll, HttpsPollsDone, HttpsRefuse, CoreNext
<1> QED BY <1>5, <1>6, <1>7

(* What fetch.c and the loop know stays.                                   *)
LEMMA CoreStays ==
    ASSUME HttpsInv, UNCHANGED coreVars, cursor' = cursor, callback' = callback
    PROVE  /\ UNCHANGED <<fetch, told, client, caller, poller>>
           /\ cursor' \in Slots \cup {NoSlot} /\ callback' \in Slots \cup {NoSlot}
           /\ callback' # NoSlot => poller' # "no" /\ cursor' = callback' /\ caller' \in {"no", "start"}
  BY DEF coreVars, ringVars, clientVars, loopVars, HttpsInv, SlotsTyped, CallbackInv

LEMMA TimeKeeps ==
    ASSUME HttpsInv, NetInv, NEW s \in Slots, TimePasses(s)
    PROVE  HttpsInv' /\ NetInv' /\ Forward /\ UNCHANGED coreVars
<1> DEFINE c == https_slots[s]
           d == [c EXCEPT !.stale = TRUE]
           f == c.parent
<1>1. InUse(s) BY DEF TimePasses, OnWire, InUse
<1>2. SlotOK(c) BY <1>1, SlotOwner
<1>3. /\ https_slots' = [https_slots EXCEPT ![s] = d]
      /\ UNCHANGED <<netVars, disk, callback>> /\ UNCHANGED coreVars
      /\ fetcher_handle' = fetcher_handle /\ cursor' = cursor /\ callback' = callback
  BY DEF TimePasses
<1>4. c \in Slot BY <1>2 DEF SlotOK
<1>5. /\ d.aborted = c.aborted /\ d.started = c.started
      /\ d.parent = f /\ d.redirected = c.redirected /\ d.state = c.state
  BY <1>4 DEF Slot
<1>6. d \in Flagged(c) BY DEF Flagged
<1>7. SlotOK(d) BY <1>2, <1>6, FlagsKeep
<1> HIDE DEF d
<1>8. NetInv' BY <1>1, <1>3, <1>6, FlagNet
<1>9. HttpsInv'
  <2>1. /\ UNCHANGED <<fetch, told, client, caller, poller>>
        /\ cursor' \in Slots \cup {NoSlot} /\ callback' \in Slots \cup {NoSlot}
        /\ callback' # NoSlot => poller' # "no" /\ cursor' = callback' /\ caller' \in {"no", "start"}
    BY <1>3, CoreStays
  <2>2. /\ s # callback => told[f] = 0 /\ (~c.aborted => client[f] = "waiting")
        /\ s = callback /\ c.redirected => client[f] = "ended" \/ c.state = "UNHEARD"
        /\ c.started => fetch[f].active
    BY <1>1 DEF HttpsInv, HeardInv, StartedActive
  <2>3. /\ s # callback' => told'[f] = 0 /\ (~d.aborted => client'[f] = "waiting")
        /\ s = callback' /\ d.redirected => client'[f] = "ended" \/ d.state = "UNHEARD"
        /\ \A g \in Fetches : fetch'[g].life = fetch[g].life
        /\ \A g \in Fetches : g # f => /\ fetch'[g].active = fetch[g].active
                                       /\ told'[g] = told[g]
                                       /\ client'[g] = client[g]
        /\ \A r \in Slots : r # s => (r = callback' <=> r = callback)
        /\ callback' # NoSlot => callback' = s \/ callback' = callback
        /\ d.started => fetch'[f].active
    BY <2>1, <2>2, <1>3, <1>5, <1>7
  <2>4. f = https_slots[s].parent /\ d.parent = f
    BY <1>5
  <2>5. https_slots' = [https_slots EXCEPT ![s] = d] /\ fetcher_handle' = fetcher_handle
    BY <1>3
  <2> HIDE DEF f, c
  <2>6. Change(s, d, f) BY <2>1, <2>3, <2>4, <2>5 DEF Change
  <2> QED BY <1>1, <1>7, <2>6, Changed
<1>10. Forward BY <1>1, <1>3, <1>6, FlagForward
<1> QED BY <1>3, <1>8, <1>9, <1>10

(* A part of an answer that is cut is still a part of it.                  *)
LEMMA PartCut ==
    ASSUME NEW w \in Seq(Unit), NEW n \in 0..Len(w), NEW f, NEW shape, shape \in Shape,
           NEW p \in Nat, Part(w, f, shape, p)
    PROVE  /\ SubSeq(w, 1, n) \in Seq(Unit) /\ Len(SubSeq(w, 1, n)) = n
           /\ SubSeq(w, n + 1, Len(w)) \in Seq(Unit) /\ Len(SubSeq(w, n + 1, Len(w))) = Len(w) - n
           /\ Part(SubSeq(w, 1, n), f, shape, p)
           /\ Part(SubSeq(w, n + 1, Len(w)), f, shape, p + n)
<1> DEFINE a == SubSeq(w, 1, n)
           b == SubSeq(w, n + 1, Len(w))
<1>1. Len(w) \in Nat /\ DOMAIN w = 1..Len(w) BY LenProperties
<1>2. a \in Seq(Unit) /\ Len(a) = n /\ \A i \in 1..n : a[i] = w[i]
  BY CutElements
<1>3. b \in Seq(Unit) /\ Len(b) = Len(w) - n /\ \A i \in 1..Len(w) - n : b[i] = w[n + i]
  BY CutElements
<1> HIDE DEF a, b
<1>4. DOMAIN a = 1..n /\ DOMAIN b = 1..Len(w) - n BY <1>2, <1>3, LenProperties
<1>5. Units(shape) \in Nat BY DEF Units, Shape
<1>6. p + Len(w) <= Units(shape) /\ \A j \in 1..Len(w) : w[j] = UnitAt(f, shape, p + j)
  BY <1>1 DEF Part
<1>7. Part(a, f, shape, p)
  BY <1>1, <1>2, <1>4, <1>5, <1>6 DEF Part
<1>8. Part(b, f, shape, p + n)
  <2>1. p + n + Len(b) <= Units(shape) BY <1>1, <1>3, <1>5, <1>6
  <2>2. ASSUME NEW j \in DOMAIN b PROVE b[j] = UnitAt(f, shape, p + n + j)
    <3>1. j \in 1..Len(w) - n /\ n + j \in 1..Len(w) BY <1>1, <1>4
    <3>2. b[j] = w[n + j] /\ w[n + j] = UnitAt(f, shape, p + (n + j)) BY <3>1, <1>3, <1>6
    <3>3. p + (n + j) = p + n + j BY <3>1
    <3> QED BY <3>2, <3>3
  <2> QED BY <2>1, <2>2 DEF Part
<1> QED BY <1>2, <1>3, <1>7, <1>8 DEF a, b

LEMMA WireCut ==
    ASSUME NEW c, SlotOK(c), NEW w \in Seq(Unit), NEW n \in 0..Len(w), WireOK(c, w)
    PROVE  WireOK(c, SubSeq(w, 1, n))
<1> DEFINE a == SubSeq(w, 1, n)
<1>1. c.hdr_buf \in Seq(Unit) /\ c.body \in Seq(Unit) /\ Len(c.hdr_buf) \in Nat /\ Len(c.body) \in Nat
  BY LenProperties DEF SlotOK, Slot
<1>2. ASSUME w = <<>> PROVE a = <<>>
  <2>1. n = 0 BY <1>2
  <2> QED BY <2>1, SubSeqEmpty
<1>3. \A shape \in Shapes, p \in Nat : Part(w, c.parent, shape, p) => Part(a, c.parent, shape, p)
  BY PartCut, HttpsShapeAssumption
<1> HIDE DEF a
<1>4. 2 + Len(c.body) \in Nat /\ 2 + Len(c.body) + Len(c.unfed) \in Nat
  <2> DEFINE m == Len(c.body)
             o == Len(c.unfed)
  <2>1. c.unfed \in Seq(Unit) BY DEF SlotOK, Slot
  <2>2. m \in Nat /\ o \in Nat BY <1>1, <2>1, LenProperties
  <2> HIDE DEF m, o
  <2>3. 2 + m \in Nat /\ 2 + m + o \in Nat BY <2>2
  <2> QED BY <2>3 DEF m, o
<1>5. WireOK(c, a)
  BY <1>1, <1>2, <1>3, <1>4 DEF WireOK
<1> QED BY <1>5 DEF a

(* The server closes, and what is left of its answer may be lost.          *)
LEMMA PeerCloseNet ==
    ASSUME HttpsInv, NetInv, NEW e \in Conns, NEW n \in 0..Len(ostls[e].wire), PeerClose(e, n)
    PROVE  NetInv'
<1> DEFINE w == ostls[e].wire
<1>1. ostls[e] \in Conn /\ w \in Seq(Unit) BY DEF NetInv, NetTyped, Conn
<1>2. /\ ostls' = [ostls EXCEPT ![e] = [ostls[e] EXCEPT !.closed = TRUE, !.wire = SubSeq(w, 1, n)]]
      /\ UNCHANGED <<https_slots, https_pool, disk, callback>>
  BY DEF PeerClose
<1>3. SubSeq(w, 1, n) \in Seq(Unit) BY <1>1, CutElements
<1> DEFINE d == [ostls[e] EXCEPT !.closed = TRUE, !.wire = SubSeq(w, 1, n)]
<1>4. d \in Conn /\ d.open = ostls[e].open /\ d.wire = SubSeq(w, 1, n)
  BY <1>1, <1>3 DEF Conn
<1> HIDE DEF d
<1>5. /\ ostls' \in [Conns -> Conn]
      /\ ostls'[e] = d
      /\ \A x \in Conns : x # e => ostls'[x] = ostls[x]
  BY <1>2, <1>4 DEF NetInv, NetTyped, d
<1>6. \A x \in Conns : ostls'[x].open = ostls[x].open BY <1>4, <1>5
<1>7. ASSUME NEW s \in Slots, ConnOf(s) = e \/ w = <<>> PROVE NetInv'
  <2>1. ConnOf(s)' = ConnOf(s) /\ (InUse(s)' <=> InUse(s)) BY <1>2 DEF ConnOf, InUse
  <2>2. \A x \in Conns : x # ConnOf(s) => ostls'[x].wire = ostls[x].wire
    <3>1. w = <<>> => SubSeq(w, 1, n) = w
      <4>1. w = <<>> => n = 0 OBVIOUS
      <4> QED BY <4>1, SubSeqEmpty
    <3> QED BY <1>4, <1>5, <1>7, <3>1
  <2>3. ASSUME InUse(s)
        PROVE  /\ AnswerOK(https_slots[s])
               /\ s # callback /\ Wired(https_slots[s]) =>
                     WireOK(https_slots[s], ostls'[https_slots[s].conn].wire)
    <3>1. AnswerOK(https_slots[s]) BY <2>3 DEF NetInv, WiresOK
    <3>2. ASSUME s # callback, Wired(https_slots[s])
          PROVE  WireOK(https_slots[s], ostls'[https_slots[s].conn].wire)
      <4>1. SlotOK(https_slots[s]) BY <2>3, SlotOwner
      <4>2. WireOK(https_slots[s], ostls[https_slots[s].conn].wire) BY <2>3, <3>2 DEF NetInv, WiresOK
      <4>3. https_slots[s].conn \in Conns BY <3>2, <4>1 DEF SlotOK, Slot, Wired
      <4>4. CASE https_slots[s].conn = e BY <4>1, <4>2, <4>4, <1>1, <1>4, <1>5, WireCut
      <4>5. CASE https_slots[s].conn # e BY <4>2, <4>3, <4>5, <1>5
      <4> QED BY <4>4, <4>5
    <3> QED BY <3>1, <3>2
  <2> QED BY <1>2, <1>5, <1>6, <2>1, <2>2, <2>3, NetSame
<1>8. CASE Holds(https_pool, e)
  <2>1. w = <<>> BY <1>8 DEF NetInv, PoolClean
  <2>2. 1 \in Slots BY HttpsSlotAssumption DEF Slots
  <2> QED BY <2>1, <2>2, <1>7
<1>9. CASE \E s \in Slots : ConnOf(s) = e
  BY <1>7, <1>9
<1>10. ostls[e].open BY DEF PeerClose
<1> QED BY <1>8, <1>9, <1>10 DEF NetInv, Owned

LEMMA PeerCloseKeeps ==
    ASSUME HttpsInv, NetInv, NEW e \in Conns, NEW n \in 0..Len(ostls[e].wire), PeerClose(e, n)
    PROVE  HttpsInv' /\ NetInv' /\ UNCHANGED coreVars
<1>1. /\ UNCHANGED <<https_slots, fetcher_handle, callback>> /\ UNCHANGED coreVars
      /\ cursor' = cursor /\ callback' = callback
  BY DEF PeerClose
<1>2. /\ UNCHANGED <<fetch, told, client, caller, poller>>
      /\ cursor' \in Slots \cup {NoSlot}
      /\ callback' # NoSlot => poller' # "no" /\ cursor' = callback' /\ caller' \in {"no", "start"}
  BY <1>1, CoreStays
<1>3. HttpsInv' BY <1>1, <1>2, StaysKeeps
<1> QED BY <1>1, <1>3, PeerCloseNet

-----------------------------------------------------------------------------
(* What a poll may do to its slot.                                         *)

(* The slot changes, its fetch does not end.                               *)
LEMMA MovedKeeps ==
    ASSUME HttpsInv, NEW s \in Slots, At(s), InUse(s), NEW new, SlotOK(new),
           new.parent = https_slots[s].parent, new.aborted <=> https_slots[s].aborted,
           new.started <=> https_slots[s].started,
           NEW next \in Slots \cup {NoSlot}, SlotBecomes(s, new, next)
    PROVE  HttpsInv' /\ UNCHANGED coreVars
<1> DEFINE c == https_slots[s]
           f == c.parent
<1>1. /\ https_slots' = [https_slots EXCEPT ![s] = new] /\ cursor' = next
      /\ callback = NoSlot /\ callback' = NoSlot /\ fetcher_handle' = fetcher_handle
      /\ UNCHANGED coreVars
  BY DEF SlotBecomes, At
<1>2. UNCHANGED <<fetch, told, client, caller, poller>>
  BY <1>1 DEF coreVars, ringVars, clientVars, loopVars
<1>3. s # callback BY <1>1, HttpsSlotAssumption DEF Slots
<1>4. /\ told[f] = 0 /\ (~c.aborted => client[f] = "waiting")
      /\ c.started => fetch[f].active
  BY <1>3 DEF HttpsInv, HeardInv, StartedActive
<1>5. /\ s # callback' => told'[f] = 0 /\ (~new.aborted => client'[f] = "waiting")
      /\ s = callback' /\ new.redirected => client'[f] = "ended" \/ new.state = "UNHEARD"
      /\ \A g \in Fetches : fetch'[g].life = fetch[g].life
      /\ \A g \in Fetches : g # f => /\ fetch'[g].active = fetch[g].active
                                     /\ told'[g] = told[g]
                                     /\ client'[g] = client[g]
      /\ \A r \in Slots : r # s => (r = callback' <=> r = callback)
      /\ callback' # NoSlot => callback' = s \/ callback' = callback
      /\ callback' # NoSlot => poller' # "no" /\ cursor' = callback' /\ caller' \in {"no", "start"}
      /\ new.started => fetch'[f].active
      /\ cursor' \in Slots \cup {NoSlot} /\ callback' \in Slots \cup {NoSlot}
  BY <1>1, <1>2, <1>3, <1>4
<1>6. HttpsInv'
  <2>1. f = https_slots[s].parent /\ new.parent = f OBVIOUS
  <2>2. https_slots' = [https_slots EXCEPT ![s] = new] /\ fetcher_handle' = fetcher_handle
    BY <1>1
  <2> HIDE DEF f
  <2> QED BY <1>5, <2>1, <2>2, ChangeKeeps, ZenonT(60)
<1> QED BY <1>1, <1>6

(* A finishing message is sent, and the loop stands at the slot.           *)
LEMMA ReportedKeeps ==
    ASSUME CoreIInv, HttpsInv, NEW s \in Slots, At(s), InUse(s), NEW new, SlotOK(new),
           new.parent = https_slots[s].parent, new.started <=> https_slots[s].started,
           new.redirected => ~https_slots[s].aborted \/ new.state = "UNHEARD", Notify(s, new)
    PROVE  /\ HttpsInv'
           /\ CoreNext
           /\ callback' = s
           /\ https_slots'[s].state = new.state
           /\ https_slots'[s].conn = new.conn
           /\ AnswerOK(new) => AnswerOK(https_slots'[s])
           /\ \A r \in Slots : r # s => https_slots'[r] = https_slots[r]
<1> DEFINE c == https_slots[s]
           f == c.parent
           ab == new.aborted \/ new.redirected
           d == [new EXCEPT !.aborted = ab]
<1>1. /\ fetch' = [fetch EXCEPT ![f].last = "finished"]
      /\ told' = [told EXCEPT ![f] = @ + 1]
      /\ client' = [client EXCEPT ![f] = Hears(@)]
      /\ https_slots' = [https_slots EXCEPT ![s] = d]
      /\ callback' = s
      /\ UNCHANGED <<ringVars, loopVars, fetcher_handle, cursor>>
      /\ SendFinishing(f)
  BY DEF Notify, SendFinishing
<1>2. caller = "no" /\ poller # "no" /\ cursor = s /\ callback = NoSlot BY DEF At
<1>3. f \in Fetches /\ fetch[f].life = "live" BY SlotOwner
<1>4. s # callback BY <1>2, HttpsSlotAssumption DEF Slots
<1>5. /\ told[f] = 0 /\ (~c.aborted => client[f] = "waiting")
      /\ c.started => fetch[f].active
  BY <1>4 DEF HttpsInv, HeardInv, StartedActive
<1>6. CoreNext
  BY <1>1, <1>2, <1>3, <1>5 DEF CoreNext, AnyNotify, Polled
<1>7. new \in Slot BY DEF SlotOK
<1>8. ab \in BOOLEAN BY <1>7 DEF Slot
<1> HIDE DEF ab
<1>9. d \in Slot BY <1>7, <1>8 DEF Slot
<1>10. /\ d.state = new.state /\ d.parent = new.parent /\ d.conn = new.conn /\ d.started = new.started
       /\ d.corrupt = new.corrupt /\ d.retries = new.retries /\ d.sent = new.sent
       /\ d.hdr_buf = new.hdr_buf /\ d.body = new.body /\ d.redirected = new.redirected
  BY <1>7, <1>8 DEF Slot
<1> HIDE DEF d
<1>11. SlotOK(d) BY <1>9, <1>10 DEF SlotOK
<1>12. AnswerOK(new) => AnswerOK(d) BY <1>10 DEF AnswerOK
<1>13. /\ \A g \in Fetches : fetch'[g].life = fetch[g].life /\ fetch'[g].active = fetch[g].active
       /\ \A g \in Fetches : g # f => told'[g] = told[g] /\ client'[g] = client[g]
       /\ client'[f] = Hears(client[f])
  BY <1>1, <1>3 DEF CoreIInv, CoreTypeOK
<1>14. d.redirected => client'[f] = "ended" \/ d.state = "UNHEARD"
  BY <1>5, <1>10, <1>13 DEF Hears
<1>15. /\ \A r \in Slots : r # s => (r = callback' <=> r = callback)
       /\ callback' # NoSlot => callback' = s \/ callback' = callback
       /\ callback' # NoSlot => poller' # "no" /\ cursor' = callback' /\ caller' \in {"no", "start"}
       /\ d.started => fetch'[f].active
       /\ cursor' \in Slots \cup {NoSlot} /\ callback' \in Slots \cup {NoSlot}
       /\ fetcher_handle' = fetcher_handle
  BY <1>1, <1>2, <1>3, <1>5, <1>10, <1>13, HttpsSlotAssumption DEF loopVars, Slots
<1>16. HttpsInv'
  <2>1. f = https_slots[s].parent /\ d.parent = f BY <1>10
  <2>2. /\ \A g \in Fetches : fetch'[g].life = fetch[g].life
        /\ \A g \in Fetches : g # f => /\ fetch'[g].active = fetch[g].active
                                       /\ told'[g] = told[g]
                                       /\ client'[g] = client[g]
        /\ s # callback' => told'[f] = 0 /\ (~d.aborted => client'[f] = "waiting")
        /\ s = callback' /\ d.redirected => client'[f] = "ended" \/ d.state = "UNHEARD"
    BY <1>1, <1>13, <1>14
  <2>3. https_slots' = [https_slots EXCEPT ![s] = d]
    BY <1>1
  <2> HIDE DEF f
  <2>4. Change(s, d, f) BY <1>15, <2>1, <2>2, <2>3 DEF Change
  <2> QED BY <1>11, <2>4, Changed
<1>17. https_slots'[s] = d /\ \A r \in Slots : r # s => https_slots'[r] = https_slots[r]
  BY <1>1 DEF HttpsInv, SlotsTyped
<1> QED BY <1>1, <1>6, <1>10, <1>12, <1>16, <1>17

(* hctx_finish: the fetch ends and the slot is free.                       *)
LEMMA FinishedKeeps ==
    ASSUME CoreIInv, HttpsInv, NEW s \in Slots, At(s), InUse(s), NEW c,
           c.parent = https_slots[s].parent, NEW net, NEW unseen, hctx_finish(s, c, net, unseen)
    PROVE  HttpsInv' /\ CoreNext
<1> DEFINE f == https_slots[s].parent
<1>1. FinishAndFree(f) /\ hctx_clear(s) /\ UNCHANGED loopVars /\ callback' = callback
  BY DEF hctx_finish
<1>2. caller = "no" /\ poller # "no" /\ callback = NoSlot BY DEF At
<1>3. f \in Fetches /\ fetch[f].life = "live" BY SlotOwner
<1>4. told[f] = 0
  BY <1>2, HttpsSlotAssumption DEF HttpsInv, HeardInv, Slots
<1>5. CoreNext BY <1>1, <1>2, <1>3, <1>4 DEF CoreNext, AnyFinish, Polled
<1>6. /\ fetch' = [fetch EXCEPT ![f] = Freed]
      /\ told' = [told EXCEPT ![f] = @ + 1]
      /\ client' = [client EXCEPT ![f] = Hears(@)]
  BY <1>1 DEF FinishAndFree, Freed
<1>7. \A g \in Fetches : g # f => told'[g] = told[g] /\ client'[g] = client[g]
  BY <1>6 DEF CoreIInv, CoreTypeOK
<1>8. HttpsInv' BY <1>1, <1>2, <1>6, <1>7, FreeKeeps
<1> QED BY <1>5, <1>8

(* The callback of a finishing message has returned.                       *)
LEMMA ReleaseKeeps ==
    ASSUME CoreIInv, HttpsInv, NEW s \in Slots, Release(s)
    PROVE  HttpsInv' /\ CoreNext
<1> DEFINE f == https_slots[s].parent
<1>1. /\ caller = "no" /\ callback = s /\ RemoveAndFree(f) /\ hctx_clear(s)
      /\ callback' = NoSlot /\ UNCHANGED loopVars
  BY DEF Release
<1>2. InUse(s) /\ poller # "no"
  BY <1>1, HttpsSlotAssumption DEF HttpsInv, CallbackInv, Slots
<1>3. f \in Fetches /\ fetch[f].life = "live" BY <1>2, SlotOwner
<1>4. CoreNext BY <1>1, <1>2, <1>3 DEF CoreNext, AnyFree, Polled
<1>5. fetch' = [fetch EXCEPT ![f] = Freed]
  BY <1>1 DEF RemoveAndFree, Freed
<1>6. \A g \in Fetches : g # f => told'[g] = told[g] /\ client'[g] = client[g]
  BY <1>1 DEF RemoveAndFree, clientVars, CoreIInv, CoreTypeOK
<1>7. HttpsInv' BY <1>1, <1>2, <1>5, <1>6, FreeKeeps
<1> QED BY <1>4, <1>7

(* https_pool_return: the slot's connection goes to the pool, which may    *)
(* evict its oldest entry.                                                 *)
LEMMA PoolReturn ==
    ASSUME NetInv, NEW x \in Conns, ~Holds(https_pool, x)
    PROVE  /\ Returned(x) \in Seq(Conns)
           /\ Distinct(Returned(x))
           /\ Len(Returned(x)) <= HTTPS_POOL_SIZE
           /\ \A e : Holds(Returned(x), e) <=> (Holds(https_pool, e) /\ e \notin Evicted) \/ e = x
           /\ \A e \in Evicted : Holds(https_pool, e)
<1>1. https_pool \in Seq(Conns) /\ Distinct(https_pool) /\ Len(https_pool) <= HTTPS_POOL_SIZE
      /\ Len(https_pool) \in Nat
  BY LenProperties DEF NetInv, NetTyped, Owned, PoolClean
<1>2. CASE Len(https_pool) >= HTTPS_POOL_SIZE
  <2> DEFINE t == Tail(https_pool)
  <2>1. https_pool # <<>>
    BY <1>1, <1>2, HttpsPoolAssumption
  <2>2. /\ t \in Seq(Conns) /\ Len(t) = Len(https_pool) - 1 /\ Distinct(t)
        /\ Holds(https_pool, Head(https_pool))
        /\ \A e : Holds(t, e) <=> Holds(https_pool, e) /\ e # Head(https_pool)
    BY <1>1, <2>1, TailDistinct
  <2>3. Returned(x) = Append(t, x) /\ Evicted = {Head(https_pool)}
    BY <1>2 DEF Returned, Evicted
  <2> HIDE DEF t
  <2>4. /\ Append(t, x) \in Seq(Conns) /\ Distinct(Append(t, x))
        /\ \A e : Holds(Append(t, x), e) <=> Holds(t, e) \/ e = x
    BY <2>2, AppendDistinct
  <2>5. Len(Append(t, x)) <= HTTPS_POOL_SIZE
    BY <1>1, <2>2, AppendProperties, HttpsPoolAssumption
  <2> QED BY <2>2, <2>3, <2>4, <2>5
<1>3. CASE ~(Len(https_pool) >= HTTPS_POOL_SIZE)
  <2>1. Returned(x) = Append(https_pool, x) /\ Evicted = {}
    BY <1>3 DEF Returned, Evicted
  <2>2. /\ Append(https_pool, x) \in Seq(Conns) /\ Distinct(Append(https_pool, x))
        /\ \A e : Holds(Append(https_pool, x), e) <=> Holds(https_pool, e) \/ e = x
    BY <1>1, AppendDistinct
  <2>3. Len(Append(https_pool, x)) <= HTTPS_POOL_SIZE
    BY <1>1, <1>3, AppendProperties, HttpsPoolAssumption
  <2> QED BY <2>1, <2>2, <2>3
<1> QED BY <1>2, <1>3

LEMMA NetReturn ==
    ASSUME HttpsInv, NetInv, NEW s \in Slots, ConnOf(s)' = NoConn, ~InUse(s)', ConnOf(s) \in Conns,
           \A r \in Slots : r # s => https_slots'[r] = https_slots[r],
           NEW net \in [Conns -> Conn],
           \A e \in Conns : e # ConnOf(s) => net[e] = ostls[e],
           net[ConnOf(s)].open, net[ConnOf(s)].wire = <<>>,
           https_pool' = Returned(ConnOf(s)), ostls' = Disposed(net, Evicted),
           \A r \in Slots : r # s /\ r # callback' => r # callback,
           disk' \in [Urls -> {"none", "whole", "unknown", "part"}],
           \A u \in Urls : disk'[u] # "part"
    PROVE  NetInv'
<1> DEFINE x == ConnOf(s)
<1>1. x \in Conns /\ x # NoConn /\ ~Holds(https_pool, x)
  BY HttpsNoneAssumption DEF NetInv, Owned
<1>2. /\ https_pool' \in Seq(Conns)
      /\ Distinct(https_pool')
      /\ Len(https_pool') <= HTTPS_POOL_SIZE
      /\ \A e : Holds(https_pool', e) <=> (Holds(https_pool, e) /\ e \notin Evicted) \/ e = x
      /\ \A e \in Evicted : Holds(https_pool, e)
  BY <1>1, PoolReturn
<1>3. /\ ostls' \in [Conns -> Conn]
      /\ \A e \in Conns : e \in Evicted => ~ostls'[e].open
      /\ \A e \in Conns : e \notin Evicted => ostls'[e] = net[e]
  BY DisposedNet
<1>4. NetTyped' BY <1>2, <1>3 DEF NetTyped
<1>5. \A r \in Slots : ConnOf(r) \in Conns \cup {NoConn}
  BY DEF HttpsInv, SlotsOK, SlotOK, Slot, ConnOf
<1>6. \A e \in Conns : ostls'[e].open <=> \/ Holds(https_pool', e)
                                          \/ ConnOf(s)' = e
                                          \/ \E r \in Slots : r # s /\ ConnOf(r) = e
  <2> SUFFICES ASSUME NEW e \in Conns
               PROVE  ostls'[e].open <=> Holds(https_pool', e) \/ \E r \in Slots : r # s /\ ConnOf(r) = e
    BY HttpsNoneAssumption
  <2>1. CASE e = x BY <2>1, <1>1, <1>2, <1>3
  <2>2. CASE e \in Evicted
    <3>1. Holds(https_pool, e) /\ e # x BY <2>2, <1>1, <1>2
    <3>2. \A r \in Slots : ConnOf(r) # e BY <3>1, HttpsNoneAssumption DEF NetInv, Owned
    <3> QED BY <2>2, <3>1, <3>2, <1>2, <1>3
  <2>3. CASE e # x /\ e \notin Evicted
    <3>1. ostls'[e] = ostls[e] /\ (Holds(https_pool', e) <=> Holds(https_pool, e)) BY <2>3, <1>2, <1>3
    <3> QED BY <2>3, <3>1 DEF NetInv, Owned
  <2> QED BY <2>1, <2>2, <2>3
<1>7. \A e \in Conns : Holds(https_pool', e) => /\ Holds(https_pool, e) \/ e = ConnOf(s)
                                                /\ e # ConnOf(s)'
                                                /\ ostls'[e].wire = <<>>
  <2> SUFFICES ASSUME NEW e \in Conns, Holds(https_pool', e)
               PROVE  (Holds(https_pool, e) \/ e = x) /\ ostls'[e].wire = <<>>
    BY HttpsNoneAssumption
  <2>1. (Holds(https_pool, e) /\ e \notin Evicted) \/ e = x BY <1>2
  <2> QED BY <2>1, <1>1, <1>2, <1>3 DEF NetInv, PoolClean
<1>8. \A r \in Slots : r # s /\ ConnOf(r) # NoConn => ostls'[ConnOf(r)].wire = ostls[ConnOf(r)].wire
  <2> SUFFICES ASSUME NEW r \in Slots, r # s, ConnOf(r) # NoConn
               PROVE  ostls'[ConnOf(r)] = ostls[ConnOf(r)]
    OBVIOUS
  <2>1. ConnOf(r) \in Conns /\ ConnOf(r) # x /\ ~Holds(https_pool, ConnOf(r))
    BY <1>1, <1>5 DEF NetInv, Owned
  <2> QED BY <2>1, <1>2, <1>3
<1>9. \A r \in Slots : InUse(r) /\ Wired(https_slots[r]) => https_slots[r].conn # NoConn
  BY DEF HttpsInv, SlotsOK, SlotOK, Wired
<1> QED BY <1>2, <1>4, <1>6, <1>7, <1>8, <1>9, NetKeeps

(* hctx_finish, when a connection that may be pooled has nothing left to   *)
(* read, and a body that may be stored is not a cut one.                   *)
LEMMA FinishNet ==
    ASSUME HttpsInv, NetInv, NEW s \in Slots, At(s), InUse(s), NEW c,
           c.parent = https_slots[s].parent, c.conn = https_slots[s].conn,
           NEW net \in [Conns -> Conn],
           \A e \in Conns : e # c.conn => net[e] = ostls[e],
           c.conn # NoConn => net[c.conn].open = ostls[c.conn].open,
           Poolable(c) => net[c.conn].wire = <<>>,
           c.cache_eligible /\ c.body # <<>> => Worth(c) \in {"whole", "unknown"},
           NEW unseen, hctx_finish(s, c, net, unseen)
    PROVE  NetInv'
<1>1. /\ https_slots' = [https_slots EXCEPT ![s] = Idle] /\ callback' = callback
      /\ disk' = Stored(c) /\ PutAway(c, net, unseen)
  BY DEF hctx_finish, hctx_clear
<1>2. https_slots'[s] = Idle /\ \A r \in Slots : r # s => https_slots'[r] = https_slots[r]
  BY <1>1 DEF HttpsInv, SlotsTyped
<1>3. ~InUse(s)' /\ ConnOf(s)' = NoConn /\ ConnOf(s) = c.conn
  BY <1>2 DEF InUse, ConnOf, Idle
<1>4. c.conn \in Conns \cup {NoConn}
  BY SlotOwner DEF SlotOK, Slot
<1>5. disk' \in [Urls -> {"none", "whole", "unknown", "part"}] /\ \A u \in Urls : disk'[u] # "part"
  <2>1. disk \in [Urls -> {"none", "whole", "unknown", "part"}] /\ \A u \in Urls : disk[u] # "part"
    BY DEF NetInv, NetTyped, SalvageNeverCached
  <2>2. UrlOf[c.parent] \in Urls BY SlotOwner DEF Urls
  <2>3. CASE c.cache_eligible /\ c.body # <<>>
    <3>1. disk' = [disk EXCEPT ![UrlOf[c.parent]] = Worth(c)] BY <2>3, <1>1 DEF Stored
    <3>2. Worth(c) \in {"whole", "unknown"} BY <2>3
    <3> QED BY <2>1, <2>2, <3>1, <3>2
  <2>4. CASE ~(c.cache_eligible /\ c.body # <<>>)
    BY <2>1, <2>4, <1>1 DEF Stored
  <2> QED BY <2>3, <2>4
<1>6. CASE Poolable(c) /\ (~net[c.conn].closed \/ unseen)
  <2>1. https_pool' = Returned(c.conn) /\ ostls' = Disposed(net, Evicted)
    BY <1>1, <1>6 DEF PutAway
  <2>2. c.conn \in Conns BY <1>4, <1>6 DEF Poolable
  <2>3. net[c.conn].open
    BY <2>2, <1>3, <1>6 DEF NetInv, Owned, Poolable
  <2> QED BY <1>1, <1>2, <1>3, <1>5, <1>6, <2>1, <2>2, <2>3, NetReturn
<1>7. CASE ~(Poolable(c) /\ (~net[c.conn].closed \/ unseen))
  <2>1. https_pool' = https_pool /\ ostls' = Disposed(net, {c.conn})
    BY <1>1, <1>7 DEF PutAway
  <2> QED BY <1>1, <1>2, <1>3, <1>5, <2>1, NetDrop
<1> QED BY <1>6, <1>7

LEMMA ReleaseNet ==
    ASSUME HttpsInv, NetInv, NEW s \in Slots, Release(s)
    PROVE  NetInv'
<1>1. /\ https_slots' = [https_slots EXCEPT ![s] = Idle] /\ callback = s
      /\ ostls' = Disposed(ostls, {https_slots[s].conn}) /\ UNCHANGED <<https_pool, disk>>
  BY DEF Release, hctx_clear
<1>2. https_slots'[s] = Idle /\ \A r \in Slots : r # s => https_slots'[r] = https_slots[r]
  BY <1>1 DEF HttpsInv, SlotsTyped
<1>3. InUse(s) BY <1>1, HttpsSlotAssumption DEF HttpsInv, CallbackInv, Slots
<1>4. ~InUse(s)' /\ ConnOf(s)' = NoConn /\ ConnOf(s) = https_slots[s].conn
  BY <1>2, <1>3 DEF InUse, ConnOf, Idle
<1>5. disk' \in [Urls -> {"none", "whole", "unknown", "part"}] /\ \A u \in Urls : disk'[u] # "part"
  BY <1>1 DEF NetInv, NetTyped, SalvageNeverCached
<1>6. ostls \in [Conns -> Conn] BY DEF NetInv, NetTyped
<1>7. \A r \in Slots : r # s /\ r # callback' => r # callback BY <1>1
<1> QED BY <1>1, <1>2, <1>4, <1>5, <1>6, <1>7, NetDrop

(* A report leaves the slot its connection, of which it may have read.     *)
LEMMA ReportNet ==
    ASSUME HttpsInv, NetInv, NEW s \in Slots, At(s), InUse(s), callback' = s, InUse(s)',
           https_slots'[s].conn = https_slots[s].conn, AnswerOK(https_slots'[s]),
           \A r \in Slots : r # s => https_slots'[r] = https_slots[r],
           ostls' \in [Conns -> Conn], UNCHANGED <<https_pool, disk>>,
           \A e \in Conns : ostls'[e].open = ostls[e].open,
           \A e \in Conns : e # https_slots[s].conn => ostls'[e].wire = ostls[e].wire
    PROVE  NetInv'
<1>1. ConnOf(s)' = ConnOf(s) /\ ConnOf(s) = https_slots[s].conn BY DEF ConnOf
<1>2. \A r \in Slots : r # s /\ r # callback' => r # callback
  BY HttpsSlotAssumption DEF At, Slots
<1> QED BY <1>1, <1>2, NetSame

-----------------------------------------------------------------------------
(* The polls that fail, skip or finish.                                    *)

(* What every step has to show.                                            *)
StepOK == HttpsInv' /\ NetInv' /\ [CoreNext]_coreVars /\ Forward

LEMMA FailKeeps ==
    ASSUME CoreIInv, HttpsInv, NetInv, NEW s \in Slots, At(s), InUse(s), hctx_fail(s, FALSE)
    PROVE  StepOK
<1> DEFINE c == https_slots[s]
<1>1. PICK fallback \in MayFallBack(s) :
          /\ Notify(s, [c EXCEPT !.state = "FAIL", !.redirected = fallback, !.corrupt = FALSE])
          /\ UNCHANGED netVars
  BY DEF hctx_fail
<1>2. fallback \in BOOLEAN /\ (fallback => ~c.aborted)
  BY <1>1 DEF MayFallBack
<1> DEFINE new == [c EXCEPT !.state = "FAIL", !.redirected = fallback, !.corrupt = FALSE]
<1>3. SlotOK(c) /\ c \in Slot BY SlotOwner DEF SlotOK
<1>4. new \in Slot BY <1>2, <1>3 DEF Slot
<1>5. /\ new.state = "FAIL" /\ new.parent = c.parent /\ new.conn = c.conn
      /\ new.started = c.started
      /\ new.corrupt = FALSE /\ new.retries = c.retries /\ new.sent = c.sent
      /\ new.hdr_buf = c.hdr_buf /\ new.body = c.body /\ new.redirected = fallback
  BY <1>2, <1>3 DEF Slot
<1>6. Notify(s, new) BY <1>1
<1> HIDE DEF new
<1>7. new.sent <= new.retries + 1
  BY <1>3, <1>5 DEF SlotOK, Slot
<1>8. SlotOK(new) BY <1>3, <1>4, <1>5, <1>7 DEF SlotOK, OnWire
<1>9. AnswerOK(new) BY <1>5 DEF NetInv, WiresOK, AnswerOK
<1>10. new.parent = c.parent /\ (new.started <=> c.started) /\ (new.redirected => ~c.aborted)
  BY <1>2, <1>5
<1>11. /\ HttpsInv' /\ CoreNext /\ callback' = s
       /\ https_slots'[s].state = new.state /\ https_slots'[s].conn = new.conn
       /\ AnswerOK(https_slots'[s])
       /\ \A r \in Slots : r # s => https_slots'[r] = https_slots[r]
  BY <1>6, <1>8, <1>9, <1>10, ReportedKeeps
<1>12. InUse(s)' /\ https_slots'[s].conn = c.conn BY <1>5, <1>11 DEF InUse
<1>13. UNCHANGED <<ostls, https_pool, disk>> /\ ostls' \in [Conns -> Conn]
  BY <1>1, <1>6 DEF Notify, netVars, NetInv, NetTyped
<1>14. NetInv'
  BY <1>11, <1>12, <1>13, ReportNet
<1>15. Forward BY <1>5, <1>11, ForwardSlot
<1> QED BY <1>11, <1>14, <1>15 DEF StepOK

LEMMA SkipKeeps ==
    ASSUME HttpsInv, NetInv, NEW s \in Slots, PollSkip(s)
    PROVE  StepOK
<1>1. /\ UNCHANGED coreVars /\ UNCHANGED <<https_slots, fetcher_handle, callback>>
      /\ UNCHANGED <<https_slots, netVars, disk, callback>>
      /\ cursor' = After(s) /\ callback = NoSlot
  BY DEF PollSkip, At
<1>2. cursor' \in Slots \cup {NoSlot}
  BY <1>1, HttpsSlotAssumption DEF After, Slots
<1>3. UNCHANGED <<fetch, told, client>> BY <1>1 DEF coreVars, ringVars, clientVars
<1>4. HttpsInv' BY <1>1, <1>2, <1>3, StaysKeeps
<1>5. NetInv' BY <1>1, NetUntouched
<1>6. Forward BY <1>1 DEF Forward
<1> QED BY <1>1, <1>4, <1>5, <1>6 DEF StepOK

(* hctx_finish, of a slot record that only differs in what was read.       *)
LEMMA FinishKeeps ==
    ASSUME CoreIInv, HttpsInv, NetInv, NEW s \in Slots, At(s), InUse(s), NEW c,
           c.parent = https_slots[s].parent, c.conn = https_slots[s].conn,
           NEW net \in [Conns -> Conn],
           \A e \in Conns : e # c.conn => net[e] = ostls[e],
           c.conn # NoConn => net[c.conn].open = ostls[c.conn].open,
           Poolable(c) => net[c.conn].wire = <<>>,
           c.cache_eligible /\ c.body # <<>> => Worth(c) \in {"whole", "unknown"},
           NEW unseen, hctx_finish(s, c, net, unseen)
    PROVE  StepOK
<1>1. HttpsInv' /\ CoreNext BY FinishedKeeps
<1>2. NetInv' BY FinishNet
<1>3. https_slots' = [https_slots EXCEPT ![s] = Idle]
  BY DEF hctx_finish, hctx_clear
<1>4. https_slots'[s] = Idle /\ \A r \in Slots : r # s => https_slots'[r] = https_slots[r]
  BY <1>3 DEF HttpsInv, SlotsTyped
<1>5. Forward BY <1>4, ForwardSlot DEF Idle
<1> QED BY <1>1, <1>2, <1>5 DEF StepOK

LEMMA CacheHitKeeps ==
    ASSUME CoreIInv, HttpsInv, NetInv, NEW s \in Slots, PollCacheHit(s)
    PROVE  StepOK
<1> DEFINE c == https_slots[s]
<1>1. At(s) /\ c.state = "CACHEHIT" /\ hctx_finish(s, c, ostls, FALSE)
  BY DEF PollCacheHit, Polling
<1>2. InUse(s) BY <1>1 DEF InUse
<1>3. c.conn = NoConn /\ c.body = <<>>
  BY <1>1, <1>2, SlotOwner DEF SlotOK
<1>4. ~Poolable(c) /\ ostls \in [Conns -> Conn]
  BY <1>3 DEF Poolable, NetInv, NetTyped
<1> QED BY <1>1, <1>2, <1>3, <1>4, FinishKeeps

LEMMA ReleaseStep ==
    ASSUME CoreIInv, HttpsInv, NetInv, NEW s \in Slots, Release(s)
    PROVE  StepOK
<1>1. https_slots' = [https_slots EXCEPT ![s] = Idle]
  BY DEF Release, hctx_clear
<1>2. https_slots'[s] = Idle /\ \A r \in Slots : r # s => https_slots'[r] = https_slots[r]
  BY <1>1 DEF HttpsInv, SlotsTyped
<1>3. Forward BY <1>2, ForwardSlot DEF Idle
<1> QED BY <1>3, ReleaseKeeps, ReleaseNet DEF StepOK

-----------------------------------------------------------------------------
(* The polls that open or give up a connection.                            *)

LEMMA MoveStep ==
    ASSUME HttpsInv, NetInv', NEW s \in Slots, At(s), InUse(s), NEW new, SlotOK(new),
           new.parent = https_slots[s].parent, new.aborted <=> https_slots[s].aborted,
           new.started <=> https_slots[s].started,
           Handing(https_slots[s]) => Handing(new),
           NEW next \in Slots \cup {NoSlot}, SlotBecomes(s, new, next)
    PROVE  StepOK
<1>1. HttpsInv' /\ UNCHANGED coreVars BY MovedKeeps
<1>2. https_slots'[s] = new /\ \A r \in Slots : r # s => https_slots'[r] = https_slots[r]
  BY DEF SlotBecomes, HttpsInv, SlotsTyped
<1>3. Forward BY <1>2, ForwardSlot DEF Handing
<1> QED BY <1>1, <1>3 DEF StepOK

LEMMA AfterSlot == ASSUME NEW s \in Slots PROVE After(s) \in Slots \cup {NoSlot}
  BY HttpsSlotAssumption DEF After, Slots

(* A pooled connection is taken out by moving the last one to its place.   *)
LEMMA CompactPool ==
    ASSUME NetInv, NEW i \in DOMAIN https_pool
    PROVE  /\ Compact(i) \in Seq(Conns)
           /\ Distinct(Compact(i))
           /\ Len(Compact(i)) <= HTTPS_POOL_SIZE
           /\ https_pool[i] \in Conns /\ Holds(https_pool, https_pool[i])
           /\ \A e : Holds(Compact(i), e) <=> Holds(https_pool, e) /\ e # https_pool[i]
<1> DEFINE n == Len(https_pool)
           q == [https_pool EXCEPT ![i] = https_pool[n]]
           r == Compact(i)
<1>1. /\ https_pool \in Seq(Conns) /\ Distinct(https_pool) /\ n <= HTTPS_POOL_SIZE
      /\ n \in Nat /\ DOMAIN https_pool = 1..n /\ i \in 1..n /\ n \in 1..n
  BY LenProperties DEF NetInv, NetTyped, Owned, PoolClean
<1>2. \A j \in 1..n : https_pool[j] \in Conns BY <1>1, ElementOfSeq
<1>3. q \in Seq(Conns) /\ Len(q) = n /\ \A j \in 1..n : q[j] = IF j = i THEN https_pool[n] ELSE https_pool[j]
  BY <1>1, <1>2, ExceptSeq
<1>4. r = SubSeq(q, 1, n - 1) BY DEF Compact
<1> HIDE DEF q, r
<1>5. n - 1 \in 0..Len(q) BY <1>1, <1>3
<1>6. r \in Seq(Conns) /\ Len(r) = n - 1 /\ \A j \in 1..n - 1 : r[j] = q[j]
  BY <1>3, <1>4, <1>5, CutElements
<1>7. DOMAIN r = 1..n - 1 BY <1>6, LenProperties
<1> DEFINE old(j) == IF j = i THEN n ELSE j
<1>8. \A j \in 1..n - 1 : old(j) \in 1..n /\ old(j) # i /\ r[j] = https_pool[old(j)]
  BY <1>1, <1>3, <1>6
<1>9. \A j, k \in 1..n - 1 : old(j) = old(k) => j = k
  BY <1>1
<1>10. \A k \in 1..n : k # i => \E j \in 1..n - 1 : old(j) = k
  <2> SUFFICES ASSUME NEW k \in 1..n, k # i PROVE \E j \in 1..n - 1 : old(j) = k
    OBVIOUS
  <2>1. CASE k = n
    <3>1. i \in 1..n - 1 /\ old(i) = k BY <2>1, <1>1
    <3> QED BY <3>1
  <2>2. CASE k # n
    <3>1. k \in 1..n - 1
      <4>1. \A a \in Nat : \A b \in 1..a : b # a => b \in 1..a - 1 OBVIOUS
      <4> QED BY <2>2, <1>1, <4>1
    <3>2. old(k) = k OBVIOUS
    <3> QED BY <3>1, <3>2
  <2> QED BY <2>1, <2>2
<1> HIDE DEF old
<1>11. Distinct(r)
  BY <1>1, <1>7, <1>8, <1>9 DEF Distinct
<1>12. ASSUME NEW e PROVE Holds(r, e) <=> Holds(https_pool, e) /\ e # https_pool[i]
  BY <1>1, <1>7, <1>8, <1>10 DEF Distinct, Holds
<1>13. Len(r) <= HTTPS_POOL_SIZE BY <1>1, <1>6, HttpsPoolAssumption
<1> QED BY <1>1, <1>2, <1>6, <1>11, <1>12, <1>13 DEF r, Holds

LEMMA DiscardKeeps ==
    ASSUME HttpsInv, NetInv, NEW s \in Slots, NEW i \in DOMAIN https_pool, PoolDiscard(s, i)
    PROVE  StepOK
<1> DEFINE x == https_pool[i]
<1>1. /\ https_pool' = Compact(i) /\ ostls' = Disposed(ostls, {x})
      /\ UNCHANGED coreVars /\ UNCHANGED <<https_slots, fetcher_handle, callback>>
      /\ UNCHANGED <<https_slots, disk, callback>> /\ cursor' = cursor /\ callback' = callback
  BY DEF PoolDiscard
<1>2. /\ https_pool' \in Seq(Conns) /\ Distinct(https_pool') /\ Len(https_pool') <= HTTPS_POOL_SIZE
      /\ x \in Conns /\ Holds(https_pool, x)
      /\ \A e : Holds(https_pool', e) <=> Holds(https_pool, e) /\ e # x
  BY <1>1, CompactPool
<1> HIDE DEF x
<1>3. /\ ostls' \in [Conns -> Conn] /\ ~ostls'[x].open
      /\ \A e \in Conns : e # x => ostls'[e] = ostls[e]
  BY <1>1, <1>2, DisposedNet DEF NetInv, NetTyped
<1>4. NetTyped' BY <1>1, <1>2, <1>3 DEF NetInv, NetTyped
<1>5. \A r \in Slots : ConnOf(r) # x BY <1>2, HttpsNoneAssumption DEF NetInv, Owned
<1>6. \A r \in Slots : ConnOf(r)' = ConnOf(r) /\ ConnOf(r) \in Conns \cup {NoConn}
  BY <1>1 DEF ConnOf, InUse, HttpsInv, SlotsOK, SlotOK, Slot
<1>7. \A e \in Conns : ostls'[e].open <=> \/ Holds(https_pool', e)
                                          \/ ConnOf(s)' = e
                                          \/ \E r \in Slots : r # s /\ ConnOf(r) = e
  <2> SUFFICES ASSUME NEW e \in Conns
               PROVE  ostls'[e].open <=> Holds(https_pool', e) \/ \E r \in Slots : ConnOf(r) = e
    BY <1>6
  <2>1. CASE e = x BY <2>1, <1>2, <1>3, <1>5
  <2>2. CASE e # x BY <2>2, <1>2, <1>3 DEF NetInv, Owned
  <2> QED BY <2>1, <2>2
<1>8. \A e \in Conns : Holds(https_pool', e) => /\ Holds(https_pool, e) \/ e = ConnOf(s)
                                                /\ e # ConnOf(s)'
                                                /\ ostls'[e].wire = <<>>
  BY <1>2, <1>3, <1>6, HttpsNoneAssumption DEF NetInv, Owned, PoolClean
<1>9. \A r \in Slots : ConnOf(r) # NoConn => ostls'[ConnOf(r)].wire = ostls[ConnOf(r)].wire
  BY <1>3, <1>5, <1>6
<1>10. InUse(s)' => /\ AnswerOK(https_slots'[s])
                    /\ s # callback' /\ Wired(https_slots'[s]) =>
                          WireOK(https_slots'[s], ostls'[https_slots'[s].conn].wire)
  <2>1. InUse(s)' <=> InUse(s) BY <1>1 DEF InUse
  <2>2. InUse(s) => ConnOf(s) = https_slots[s].conn BY DEF ConnOf
  <2>3. InUse(s) /\ Wired(https_slots[s]) => https_slots[s].conn # NoConn
    BY SlotOwner DEF SlotOK, Wired
  <2> QED BY <1>1, <1>9, <2>1, <2>2, <2>3 DEF NetInv, WiresOK
<1>11. \A r \in Slots : InUse(r) /\ Wired(https_slots[r]) => https_slots[r].conn # NoConn
  BY DEF HttpsInv, SlotsOK, SlotOK, Wired
<1>12. \A u \in Urls : disk'[u] # "part" BY <1>1 DEF NetInv, SalvageNeverCached
<1>13. /\ \A r \in Slots : r # s => https_slots'[r] = https_slots[r]
       /\ \A r \in Slots : r # s /\ r # callback' => r # callback
       /\ ConnOf(s)' # NoConn => ConnOf(s)' = ConnOf(s)
  BY <1>1, <1>6
<1>14. NetInv'
  BY <1>2, <1>4, <1>7, <1>8, <1>9, <1>10, <1>11, <1>12, <1>13, NetKeeps
<1>15. /\ UNCHANGED <<fetch, told, client, caller, poller>>
       /\ cursor' \in Slots \cup {NoSlot}
       /\ callback' # NoSlot => poller' # "no" /\ cursor' = callback' /\ caller' \in {"no", "start"}
  BY <1>1, CoreStays
<1>16. HttpsInv' BY <1>1, <1>15, StaysKeeps
<1>17. Forward BY <1>1 DEF Forward
<1> QED BY <1>1, <1>14, <1>16, <1>17 DEF StepOK

(* A queued slot gets a connection, from the pool or a new one.            *)
LEMMA TakeStep ==
    ASSUME HttpsInv, NetInv, NEW s \in Slots, Opening(s), NEW x \in Conns,
           NEW st \in {"TLSING", "SEND_REQ"},
           SlotBecomes(s, [https_slots[s] EXCEPT !.state = st, !.conn = x, !.stale = FALSE], After(s)),
           ostls' \in [Conns -> Conn], ostls'[x].open, ostls'[x].wire = <<>>,
           \A e \in Conns : e # x => ostls'[e] = ostls[e],
           https_pool' \in Seq(Conns), Distinct(https_pool'), Len(https_pool') <= HTTPS_POOL_SIZE,
           \A e \in Conns : Holds(https_pool', e) <=> Holds(https_pool, e) /\ e # x,
           Holds(https_pool, x) \/ ~ostls[x].open
    PROVE  StepOK
<1> DEFINE c == https_slots[s]
           new == [c EXCEPT !.state = st, !.conn = x, !.stale = FALSE]
<1>1. At(s) /\ c.state = "QUEUED" /\ c.started BY DEF Opening, Polling
<1>2. InUse(s) BY <1>1 DEF InUse
<1>3. SlotOK(c) /\ c \in Slot BY <1>2, SlotOwner DEF SlotOK
<1>4. c.conn = NoConn /\ c.hdr_buf = <<>> /\ c.body = <<>> BY <1>1, <1>3 DEF SlotOK
<1>5. SlotBecomes(s, new, After(s)) OBVIOUS
<1>6. new \in Slot BY <1>3 DEF Slot
<1>7. /\ new.state = st /\ new.parent = c.parent /\ new.conn = x
      /\ new.corrupt = c.corrupt /\ new.retries = c.retries /\ new.sent = c.sent
      /\ new.hdr_buf = c.hdr_buf /\ new.body = c.body
      /\ new.started = c.started /\ new.aborted = c.aborted
  BY <1>3 DEF Slot
<1> HIDE DEF new
<1>8. SlotOK(new)
  <2>1. new.sent <= new.retries /\ ~new.corrupt BY <1>1, <1>3, <1>7 DEF SlotOK, Slot
  <2>2. new.conn # NoConn /\ new.started BY <1>1, <1>7, HttpsNoneAssumption
  <2> QED BY <1>6, <1>7, <2>1, <2>2 DEF SlotOK, Slot
<1>9. AnswerOK(new) /\ WireOK(new, <<>>) BY <1>4, <1>7 DEF AnswerOK, WireOK
<1>10. /\ https_slots' = [https_slots EXCEPT ![s] = new] /\ disk' = disk /\ callback' = callback
       /\ callback = NoSlot
  BY <1>1, <1>5 DEF SlotBecomes, At
<1>11. https_slots'[s] = new /\ \A r \in Slots : r # s => https_slots'[r] = https_slots[r]
  BY <1>10 DEF HttpsInv, SlotsTyped
<1>12. ConnOf(s)' = x /\ ConnOf(s) = NoConn /\ x # NoConn
  BY <1>4, <1>7, <1>11, HttpsNoneAssumption DEF ConnOf, InUse
<1>13. \A r \in Slots : ConnOf(r) \in Conns \cup {NoConn} /\ ConnOf(r) # x
  <2>1. \A r \in Slots : ConnOf(r) \in Conns \cup {NoConn}
    BY DEF HttpsInv, SlotsOK, SlotOK, Slot, ConnOf
  <2>2. \A r \in Slots : ConnOf(r) # x BY <1>12 DEF NetInv, Owned
  <2> QED BY <2>1, <2>2
<1>14. NetTyped' BY <1>10 DEF NetInv, NetTyped
<1>15. \A e \in Conns : ostls'[e].open <=> \/ Holds(https_pool', e)
                                           \/ ConnOf(s)' = e
                                           \/ \E r \in Slots : r # s /\ ConnOf(r) = e
  <2> SUFFICES ASSUME NEW e \in Conns
               PROVE  ostls'[e].open <=> \/ Holds(https_pool', e)
                                         \/ x = e
                                         \/ \E r \in Slots : r # s /\ ConnOf(r) = e
    BY <1>12
  <2>1. CASE e = x BY <2>1
  <2>2. CASE e # x
    <3>1. ostls[e].open <=> Holds(https_pool, e) \/ \E r \in Slots : ConnOf(r) = e
      BY DEF NetInv, Owned
    <3> QED BY <2>2, <3>1, <1>12, HttpsNoneAssumption
  <2> QED BY <2>1, <2>2
<1>16. \A e \in Conns : Holds(https_pool', e) => /\ Holds(https_pool, e) \/ e = ConnOf(s)
                                                 /\ e # ConnOf(s)'
                                                 /\ ostls'[e].wire = <<>>
  BY <1>12 DEF NetInv, PoolClean
<1>17. ConnOf(s)' # NoConn => \/ ConnOf(s)' = ConnOf(s)
                              \/ Holds(https_pool, ConnOf(s)')
                              \/ ConnOf(s)' \in Conns /\ ~ostls[ConnOf(s)'].open
  BY <1>12
<1>18. \A r \in Slots : r # s /\ ConnOf(r) # NoConn => ostls'[ConnOf(r)].wire = ostls[ConnOf(r)].wire
  BY <1>13
<1>19. InUse(s)' => /\ AnswerOK(https_slots'[s])
                    /\ s # callback' /\ Wired(https_slots'[s]) =>
                          WireOK(https_slots'[s], ostls'[https_slots'[s].conn].wire)
  BY <1>7, <1>9, <1>11
<1>20. \A r \in Slots : InUse(r) /\ Wired(https_slots[r]) => https_slots[r].conn # NoConn
  BY DEF HttpsInv, SlotsOK, SlotOK, Wired
<1>21. \A u \in Urls : disk'[u] # "part" BY <1>10 DEF NetInv, SalvageNeverCached
<1>22. \A r \in Slots : r # s /\ r # callback' => r # callback BY <1>10
<1>23. NetInv'
  BY <1>11, <1>14, <1>15, <1>16, <1>17, <1>18, <1>19, <1>20, <1>21, <1>22, NetKeeps
<1>24. /\ new.parent = https_slots[s].parent /\ (new.aborted <=> https_slots[s].aborted)
       /\ (new.started <=> https_slots[s].started)
       /\ Handing(https_slots[s]) => Handing(new)
  BY <1>1, <1>7 DEF Handing
<1> QED BY <1>1, <1>2, <1>5, <1>8, <1>23, <1>24, AfterSlot, MoveStep

LEMMA ReuseKeeps ==
    ASSUME HttpsInv, NetInv, NEW s \in Slots, NEW i \in DOMAIN https_pool, PollReuse(s, i)
    PROVE  StepOK
<1> DEFINE x == https_pool[i]
<1>1. /\ Opening(s) /\ https_pool' = Compact(i) /\ ostls' = ostls
      /\ SlotBecomes(s, [https_slots[s] EXCEPT !.state = "SEND_REQ", !.conn = x, !.stale = FALSE], After(s))
  BY DEF PollReuse
<1>2. /\ https_pool' \in Seq(Conns) /\ Distinct(https_pool') /\ Len(https_pool') <= HTTPS_POOL_SIZE
      /\ x \in Conns /\ Holds(https_pool, x)
      /\ \A e \in Conns : Holds(https_pool', e) <=> Holds(https_pool, e) /\ e # x
  BY <1>1, CompactPool
<1> HIDE DEF x
<1>3. ostls' \in [Conns -> Conn] /\ ostls'[x].open /\ ostls'[x].wire = <<>>
  BY <1>1, <1>2 DEF NetInv, NetTyped, Owned, PoolClean
<1>4. \A e \in Conns : e # x => ostls'[e] = ostls[e] BY <1>1
<1> QED BY <1>1, <1>2, <1>3, <1>4, TakeStep

LEMMA ConnectKeeps ==
    ASSUME HttpsInv, NetInv, NEW s \in Slots, NEW e \in Conns, PollConnect(s, e)
    PROVE  StepOK
<1> DEFINE d == [ClosedConn EXCEPT !.open = TRUE, !.key = Key(s)]
<1>1. /\ Opening(s) /\ ~ostls[e].open /\ https_pool' = https_pool /\ ostls' = [ostls EXCEPT ![e] = d]
      /\ SlotBecomes(s, [https_slots[s] EXCEPT !.state = "TLSING", !.conn = e, !.stale = FALSE], After(s))
  BY DEF PollConnect
<1>2. InUse(s) BY <1>1 DEF Opening, Polling, InUse
<1>3. Key(s) \in {HostOf[f] : f \in Fetches} BY <1>2, SlotOwner DEF Key
<1>4. d \in Conn /\ d.open /\ d.wire = <<>>
  <2>1. ClosedConn \in Conn /\ ClosedConn.wire = <<>> BY DEF ClosedConn, Conn
  <2> QED BY <2>1, <1>3 DEF Conn
<1> HIDE DEF d
<1>5. /\ ostls' \in [Conns -> Conn] /\ ostls'[e] = d
      /\ \A x \in Conns : x # e => ostls'[x] = ostls[x]
  BY <1>1, <1>4 DEF NetInv, NetTyped
<1>6. ~Holds(https_pool, e) BY <1>1 DEF NetInv, Owned
<1>7. /\ https_pool' \in Seq(Conns) /\ Distinct(https_pool') /\ Len(https_pool') <= HTTPS_POOL_SIZE
      /\ \A x \in Conns : Holds(https_pool', x) <=> Holds(https_pool, x) /\ x # e
  BY <1>1, <1>6 DEF NetInv, NetTyped, Owned, PoolClean
<1>8. ostls'[e].open /\ ostls'[e].wire = <<>> BY <1>4, <1>5
<1> QED BY <1>1, <1>5, <1>7, <1>8, TakeStep

(* hctx_fail on the abort, when no connection can be opened, and when the  *)
(* transport fails.                                                        *)
LEMMA FailSteps ==
    ASSUME CoreIInv, HttpsInv, NetInv, NEW s \in Slots,
           PollAborted(s) \/ PollOpenFails(s) \/ PollBroken(s)
    PROVE  StepOK
<1>1. At(s) /\ InUse(s) /\ hctx_fail(s, FALSE)
  BY DEF PollAborted, PollOpenFails, PollBroken, Opening, Polling, OnWire, InUse
<1> QED BY <1>1, FailKeeps

LEMMA RetryKeeps ==
    ASSUME HttpsInv, NetInv, NEW s \in Slots, Polling(s, PreBody),
           https_slots[s].retries < HTTPS_MAX_RETRIES, Retry(s)
    PROVE  StepOK
<1> DEFINE c == https_slots[s]
           new == ResetForRetry(c)
<1>1. At(s) /\ c.state \in PreBody BY DEF Polling
<1>2. InUse(s) BY <1>1 DEF InUse, PreBody, OnWire
<1>3. SlotOK(c) /\ c \in Slot BY <1>2, SlotOwner DEF SlotOK
<1>4. /\ ostls' = Disposed(ostls, {c.conn}) /\ https_pool' = https_pool
      /\ SlotBecomes(s, new, After(s))
  BY DEF Retry
<1>5. c.retries + 1 \in 0..HTTPS_MAX_RETRIES
  BY <1>3, HttpsRetryAssumption DEF Slot
<1>6. new \in Slot
  <2> DEFINE k == c.retries + 1
             d == [c EXCEPT !.state = "QUEUED", !.conn = NoConn, !.hdr_buf = <<>>, !.shape = NoShape]
             e == [d EXCEPT !.chunked = FALSE, !.body = <<>>, !.cache_eligible = FALSE,
                            !.stale = FALSE, !.retries = k]
  <2>1. <<>> \in Seq(Unit) OBVIOUS
  <2>2. d \in Slot BY <1>3, <2>1 DEF Slot
  <2>3. k \in 0..HTTPS_MAX_RETRIES BY <1>5
  <2>4. new = e
    <3>1. d.retries = c.retries BY <1>3 DEF Slot
    <3> QED BY <1>3, <3>1 DEF ResetForRetry, Slot
  <2> HIDE DEF d, k
  <2>5. e \in Slot BY <2>1, <2>2, <2>3 DEF Slot
  <2> QED BY <2>4, <2>5
<1>7. /\ new.state = "QUEUED" /\ new.parent = c.parent /\ new.conn = NoConn
      /\ new.corrupt = c.corrupt /\ new.retries = c.retries + 1 /\ new.sent = c.sent
      /\ new.hdr_buf = <<>> /\ new.body = <<>>
      /\ new.started = c.started /\ new.aborted = c.aborted
  BY <1>3, <1>5 DEF Slot, ResetForRetry
<1> HIDE DEF new
<1>8. SlotOK(new)
  <2>1. new.sent <= new.retries /\ ~new.corrupt BY <1>1, <1>3, <1>7 DEF SlotOK, Slot
  <2> QED BY <1>6, <1>7, <2>1 DEF SlotOK, Slot, OnWire
<1>9. AnswerOK(new) BY <1>7 DEF AnswerOK
<1>10. /\ https_slots' = [https_slots EXCEPT ![s] = new] /\ disk' = disk /\ callback' = callback
  BY <1>4 DEF SlotBecomes
<1>11. https_slots'[s] = new /\ \A r \in Slots : r # s => https_slots'[r] = https_slots[r]
  BY <1>10 DEF HttpsInv, SlotsTyped
<1>12. ConnOf(s)' = NoConn /\ ConnOf(s) = c.conn
  BY <1>2, <1>7, <1>11 DEF ConnOf, InUse
<1>13. AnswerOK(https_slots'[s]) /\ ~Wired(https_slots'[s])
  BY <1>7, <1>9, <1>11 DEF Wired, OnWire
<1>14. ostls \in [Conns -> Conn] BY DEF NetInv, NetTyped
<1>15. disk' \in [Urls -> {"none", "whole", "unknown", "part"}] /\ \A u \in Urls : disk'[u] # "part"
  BY <1>10 DEF NetInv, NetTyped, SalvageNeverCached
<1>16. NetInv'
  BY <1>4, <1>10, <1>11, <1>12, <1>13, <1>14, <1>15, NetDrop
<1>17. /\ new.parent = https_slots[s].parent /\ (new.aborted <=> https_slots[s].aborted)
       /\ (new.started <=> https_slots[s].started)
       /\ Handing(https_slots[s]) => Handing(new)
  BY <1>1, <1>7 DEF PreBody, OnWire, Handing
<1> QED BY <1>1, <1>2, <1>4, <1>8, <1>16, <1>17, AfterSlot, MoveStep

(* kOSTLSEventFailed in the handshake, kOSTLSEventClosed before the body.  *)
LEMMA RetrySteps ==
    ASSUME CoreIInv, HttpsInv, NetInv, NEW s \in Slots, PollHandshakeFails(s) \/ PollClosedEarly(s)
    PROVE  StepOK
<1>1. /\ Polling(s, PreBody)
      /\ IF https_slots[s].retries < HTTPS_MAX_RETRIES THEN Retry(s) ELSE hctx_fail(s, FALSE)
  BY DEF PollHandshakeFails, PollClosedEarly, Polling, PreBody, OnWire
<1>2. At(s) /\ InUse(s) BY <1>1 DEF Polling, PreBody, OnWire, InUse
<1> QED BY <1>1, <1>2, RetryKeeps, FailKeeps

-----------------------------------------------------------------------------
(* The polls that write and read.                                          *)

(* The slot goes on with its connection, of which it may have read.        *)
LEMMA GoesOn ==
    ASSUME HttpsInv, NetInv, NEW s \in Slots, At(s), InUse(s), NEW new, SlotOK(new),
           new.parent = https_slots[s].parent, new.aborted <=> https_slots[s].aborted,
           new.started <=> https_slots[s].started, new.conn = https_slots[s].conn,
           Handing(https_slots[s]) => Handing(new),
           NEW next \in Slots \cup {NoSlot}, SlotBecomes(s, new, next),
           ostls' \in [Conns -> Conn], https_pool' = https_pool,
           \A e \in Conns : ostls'[e].open = ostls[e].open,
           \A e \in Conns : e # new.conn => ostls'[e].wire = ostls[e].wire,
           AnswerOK(new), WireOK(new, ostls'[new.conn].wire)
    PROVE  StepOK
<1>1. https_slots' = [https_slots EXCEPT ![s] = new] /\ disk' = disk /\ callback' = callback
  BY DEF SlotBecomes
<1>2. https_slots'[s] = new /\ \A r \in Slots : r # s => https_slots'[r] = https_slots[r]
  BY <1>1 DEF HttpsInv, SlotsTyped
<1>3. ConnOf(s)' = ConnOf(s) /\ ConnOf(s) = new.conn
  BY <1>2 DEF ConnOf, InUse, SlotOK
<1>4. UNCHANGED <<https_pool, disk>> /\ \A r \in Slots : r # s /\ r # callback' => r # callback
  BY <1>1
<1>5. \A e \in Conns : e # ConnOf(s) => ostls'[e].wire = ostls[e].wire
  BY <1>3
<1>6. NetInv' BY <1>2, <1>3, <1>4, <1>5, NetSame
<1> QED BY <1>6, MoveStep

LEMMA HandshakeKeeps ==
    ASSUME HttpsInv, NetInv, NEW s \in Slots, PollHandshake(s)
    PROVE  StepOK
<1> DEFINE c == https_slots[s]
           new == [c EXCEPT !.state = "SEND_REQ", !.stale = FALSE]
<1>1. /\ At(s) /\ c.state = "TLSING" /\ UNCHANGED <<ostls, https_pool>> /\ SlotBecomes(s, new, s)
  BY DEF PollHandshake, Polling, netVars
<1>2. InUse(s) /\ s # callback BY <1>1, HttpsSlotAssumption DEF InUse, At, Slots
<1>3. SlotOK(c) /\ c \in Slot BY <1>2, SlotOwner DEF SlotOK
<1>4. AnswerOK(c) /\ WireOK(c, ostls[c.conn].wire)
  BY <1>1, <1>2 DEF NetInv, WiresOK, Wired, OnWire
<1>5. new \in Slot BY <1>3 DEF Slot
<1>6. /\ new.state = "SEND_REQ" /\ new.parent = c.parent /\ new.conn = c.conn
      /\ new.corrupt = c.corrupt /\ new.retries = c.retries /\ new.sent = c.sent
      /\ new.hdr_buf = c.hdr_buf /\ new.body = c.body
      /\ new.started = c.started /\ new.aborted = c.aborted
  BY <1>3 DEF Slot
<1> HIDE DEF new
<1>7. SlotOK(new)
  <2>1. new.sent <= new.retries /\ ~new.corrupt BY <1>1, <1>3, <1>6 DEF SlotOK, Slot
  <2>2. new.conn # NoConn /\ new.started BY <1>1, <1>3, <1>6 DEF SlotOK, OnWire
  <2> QED BY <1>5, <1>6, <2>1, <2>2 DEF SlotOK, Slot
<1>8. AnswerOK(new) BY <1>4, <1>6 DEF AnswerOK
<1>9. WireOK(new, ostls'[new.conn].wire) BY <1>1, <1>4, <1>6 DEF WireOK
<1>10. /\ new.parent = https_slots[s].parent /\ (new.aborted <=> https_slots[s].aborted)
       /\ (new.started <=> https_slots[s].started) /\ new.conn = https_slots[s].conn
       /\ Handing(https_slots[s]) => Handing(new)
  BY <1>1, <1>6 DEF Handing
<1>11. ostls' \in [Conns -> Conn] /\ \A e \in Conns : ostls'[e].open = ostls[e].open /\ ostls'[e].wire = ostls[e].wire
  BY <1>1 DEF NetInv, NetTyped
<1> QED BY <1>1, <1>2, <1>7, <1>8, <1>9, <1>10, <1>11, GoesOn

LEMMA QuietKeeps ==
    ASSUME HttpsInv, NetInv, NEW s \in Slots, PollQuiet(s)
    PROVE  StepOK
<1> DEFINE c == https_slots[s]
<1>1. /\ At(s) /\ c.state \in OnWire /\ UNCHANGED <<ostls, https_pool>> /\ SlotBecomes(s, c, After(s))
  BY DEF PollQuiet, Polling, netVars
<1>2. InUse(s) /\ s # callback BY <1>1, HttpsSlotAssumption DEF InUse, At, Slots, OnWire
<1>3. SlotOK(c) BY <1>2, SlotOwner
<1>4. AnswerOK(c) /\ WireOK(c, ostls'[c.conn].wire)
  BY <1>1, <1>2 DEF NetInv, WiresOK, Wired
<1>5. ostls' \in [Conns -> Conn] /\ \A e \in Conns : ostls'[e].open = ostls[e].open /\ ostls'[e].wire = ostls[e].wire
  BY <1>1 DEF NetInv, NetTyped
<1> QED BY <1>1, <1>2, <1>3, <1>4, <1>5, AfterSlot, GoesOn

(* What the server sends is the answer, from its first unit to its last.   *)
LEMMA ResponsePart ==
    ASSUME NEW f \in Fetches, NEW shape \in Shape
    PROVE  Response(f, shape) \in Seq(Unit) /\ Part(Response(f, shape), f, shape, 0)
<1> DEFINE unit(part) == [req |-> f, part |-> part, shape |-> shape]
           len == shape.len
           A == <<unit("head"), unit("blank")>>
           B == [n \in 1..len |-> unit("data")]
           C == IF shape.framing = "chunked" THEN <<unit("end")>> ELSE <<>>
           k == IF shape.framing = "chunked" THEN 1 ELSE 0
           w == Response(f, shape)
<1>1. w = (A \o B) \o C BY DEF Response
<1>2. \A part \in {"head", "blank", "data", "end"} : unit(part) \in Unit
  BY DEF Unit
<1>3. len \in Nat /\ k \in {0, 1} BY DEF Shape
<1>4. A \in Seq(Unit) /\ Len(A) = 2 /\ A[1] = unit("head") /\ A[2] = unit("blank")
  BY <1>2
<1>5. B \in Seq(Unit) /\ Len(B) = len /\ \A i \in 1..len : B[i] = unit("data")
  <2> DEFINE d == unit("data")
  <2>1. d \in Unit BY <1>2
  <2> HIDE DEF d
  <2>2. [n \in 1..len |-> d] \in Seq(Unit) /\ Len([n \in 1..len |-> d]) = len
    BY <1>3, <2>1
  <2> QED BY <2>2 DEF d
<1>6. C \in Seq(Unit) /\ Len(C) = k /\ \A i \in 1..k : C[i] = unit("end")
  BY <1>2
<1> HIDE DEF A, B, C, unit, len, k, w
<1>7. /\ A \o B \in Seq(Unit) /\ Len(A \o B) = 2 + len
      /\ \A i \in 1..2 : (A \o B)[i] = A[i]
      /\ \A i \in 1..len : (A \o B)[2 + i] = B[i]
  <2>1. A \in Seq(Unit) /\ B \in Seq(Unit) BY <1>4, <1>5
  <2>2. /\ A \o B \in Seq(Unit) /\ Len(A \o B) = Len(A) + Len(B)
        /\ \A i \in 1..Len(A) : (A \o B)[i] = A[i]
        /\ \A i \in 1..Len(B) : (A \o B)[Len(A) + i] = B[i]
    BY <2>1, JoinElements
  <2> QED BY <2>2, <1>4, <1>5
<1> DEFINE D == A \o B
<1> HIDE DEF D
<1>8. /\ D \in Seq(Unit) /\ Len(D) = 2 + len
      /\ \A i \in 1..2 : D[i] = A[i]
      /\ \A i \in 1..len : D[2 + i] = B[i]
      /\ w = D \o C
  BY <1>1, <1>7 DEF D
<1>9. /\ w \in Seq(Unit) /\ Len(w) = 2 + len + k
      /\ \A i \in 1..2 + len : w[i] = D[i]
      /\ \A i \in 1..k : w[2 + len + i] = C[i]
  <2>1. D \in Seq(Unit) /\ C \in Seq(Unit) BY <1>6, <1>8
  <2>2. /\ D \o C \in Seq(Unit) /\ Len(D \o C) = Len(D) + Len(C)
        /\ \A i \in 1..Len(D) : (D \o C)[i] = D[i]
        /\ \A i \in 1..Len(C) : (D \o C)[Len(D) + i] = C[i]
    BY <2>1, JoinElements
  <2> QED BY <2>2, <1>6, <1>8
<1>10. DOMAIN w = 1..2 + len + k BY <1>9, LenProperties
<1>11. ASSUME NEW j \in 1..2 + len + k PROVE w[j] = UnitAt(f, shape, j)
  <2>1. CASE j = 1
    <3>1. w[j] = unit("head") BY <2>1, <1>3, <1>4, <1>8, <1>9
    <3> QED BY <2>1, <3>1 DEF UnitAt, unit
  <2>2. CASE j = 2
    <3>1. w[j] = unit("blank") BY <2>2, <1>3, <1>4, <1>8, <1>9
    <3> QED BY <2>2, <3>1 DEF UnitAt, unit
  <2>3. CASE j > 2 /\ j <= 2 + len
    <3>1. j - 2 \in 1..len /\ 2 + (j - 2) = j /\ j \in 1..2 + len BY <2>3, <1>3
    <3>2. w[j] = D[j] /\ D[j] = B[j - 2] BY <3>1, <1>8, <1>9
    <3>3. w[j] = unit("data") BY <3>1, <3>2, <1>5
    <3>4. j # 1 /\ j # 2 /\ j > 2 /\ j <= shape.len + 2 BY <2>3, <1>3 DEF len
    <3> QED BY <3>3, <3>4 DEF UnitAt, unit
  <2>4. CASE j > 2 + len
    <3>1. k = 1 /\ j = 2 + len + 1 BY <2>4, <1>3
    <3>2. w[j] = unit("end") BY <3>1, <1>3, <1>6, <1>9
    <3>3. j # 1 /\ j # 2 /\ ~(j > 2 /\ j <= shape.len + 2) BY <2>4, <1>3 DEF len
    <3> QED BY <3>2, <3>3 DEF UnitAt, unit
  <2> QED BY <2>1, <2>2, <2>3, <2>4, <1>3
<1>12. Units(shape) = 2 + len + k BY <1>3 DEF Units, len, k
<1>13. Part(w, f, shape, 0)
  <2>1. 0 + Len(w) <= Units(shape) BY <1>3, <1>9, <1>12
  <2>2. \A j \in DOMAIN w : 0 + j = j BY <1>3, <1>10
  <2> QED BY <1>10, <1>11, <2>1, <2>2 DEF Part
<1> QED BY <1>9, <1>13 DEF w

LEMMA WriteKeeps ==
    ASSUME HttpsInv, NetInv, NEW s \in Slots, NEW shape \in Shapes, PollWrite(s, shape)
    PROVE  StepOK
<1> DEFINE c == https_slots[s]
           e == c.conn
           o == ostls[e]
           k == c.sent + 1
           new == [c EXCEPT !.state = "HEADERS", !.stale = FALSE, !.sent = k]
           w == o.wire \o Response(c.parent, shape)
           cl == shape.close \/ shape.framing = "plain"
           d == IF o.closed THEN o ELSE [o EXCEPT !.wire = w, !.closed = cl]
<1>1. At(s) /\ c.state = "SEND_REQ" /\ https_pool' = https_pool
  BY DEF PollWrite, Polling
<1>2. InUse(s) /\ s # callback BY <1>1, HttpsSlotAssumption DEF InUse, At, Slots
<1>3. SlotOK(c) /\ c \in Slot /\ c.parent \in Fetches BY <1>2, SlotOwner DEF SlotOK
<1>4. e \in Conns BY <1>1, <1>3 DEF SlotOK, OnWire, Slot
<1>5. ostls \in [Conns -> Conn] /\ o \in Conn BY <1>4 DEF NetInv, NetTyped
<1>6. ostls' = [ostls EXCEPT ![e] = d]
  <2>1. CASE o.closed BY <1>5, <2>1 DEF PollWrite
  <2>2. CASE ~o.closed
    <3>1. ostls' = [ostls EXCEPT ![e].wire = ostls[e].wire \o Response(c.parent, shape),
                                 ![e].closed = shape.close \/ shape.framing = "plain"]
      BY <2>2 DEF PollWrite
    <3> QED BY <1>4, <1>5, <2>2, <3>1
  <2> QED BY <2>1, <2>2
<1>7. SlotBecomes(s, new, s) BY DEF PollWrite
<1>8. o.wire = <<>> /\ c.hdr_buf = <<>> /\ c.body = <<>> /\ AnswerOK(c)
  BY <1>1, <1>2 DEF NetInv, WiresOK, Wired, OnWire, WireOK
<1>9. shape \in Shape BY HttpsShapeAssumption
<1>10. w \in Seq(Unit) /\ Part(w, c.parent, shape, 0)
  <2>1. Response(c.parent, shape) \in Seq(Unit) /\ Part(Response(c.parent, shape), c.parent, shape, 0)
    BY <1>3, <1>9, ResponsePart
  <2>2. w = Response(c.parent, shape) BY <1>8, <2>1
  <2> QED BY <2>1, <2>2
<1>11. cl \in BOOLEAN BY <1>9 DEF Shape
<1> HIDE DEF w, cl
<1>12. d \in Conn /\ d.open = o.open /\ (d.wire = <<>> \/ d.wire = w)
  BY <1>5, <1>8, <1>10, <1>11 DEF Conn
<1> HIDE DEF d
<1>13. /\ ostls' \in [Conns -> Conn] /\ ostls'[e] = d
       /\ \A x \in Conns : x # e => ostls'[x] = ostls[x]
  BY <1>4, <1>5, <1>6, <1>12
<1>14. \A x \in Conns : ostls'[x].open = ostls[x].open /\ (x # e => ostls'[x].wire = ostls[x].wire)
  BY <1>12, <1>13
<1>15. k \in Nat BY <1>3 DEF Slot
<1> HIDE DEF k
<1>16. new \in Slot BY <1>3, <1>15 DEF Slot
<1>17. /\ new.state = "HEADERS" /\ new.parent = c.parent /\ new.conn = e
       /\ new.corrupt = c.corrupt /\ new.retries = c.retries /\ new.sent = k
       /\ new.hdr_buf = c.hdr_buf /\ new.body = c.body
       /\ new.started = c.started /\ new.aborted = c.aborted
  BY <1>3, <1>15 DEF Slot
<1> HIDE DEF new
<1>18. SlotOK(new)
  <2>1. c.sent <= c.retries /\ ~c.corrupt BY <1>1, <1>3 DEF SlotOK, Slot
  <2>2. new.sent <= new.retries + 1 /\ ~new.corrupt BY <1>3, <1>17, <2>1 DEF Slot, k
  <2>3. new.conn # NoConn /\ new.started BY <1>1, <1>3, <1>17 DEF SlotOK, OnWire
  <2> QED BY <1>16, <1>17, <2>2, <2>3 DEF SlotOK, Slot
<1>19. AnswerOK(new) BY <1>8, <1>17 DEF AnswerOK
<1>20. WireOK(new, ostls'[new.conn].wire)
  <2>1. Part(<<>>, c.parent, shape, 0) BY <1>9 DEF Part, Units, Shape
  <2>2. Part(d.wire, c.parent, shape, 0) BY <1>10, <1>12, <2>1
  <2> QED BY <1>8, <1>13, <1>17, <2>1, <2>2 DEF WireOK
<1>21. /\ new.parent = https_slots[s].parent /\ (new.aborted <=> https_slots[s].aborted)
       /\ (new.started <=> https_slots[s].started) /\ new.conn = https_slots[s].conn
       /\ Handing(https_slots[s]) => Handing(new)
  BY <1>1, <1>17 DEF Handing
<1>22. \A x \in Conns : x # new.conn => ostls'[x].wire = ostls[x].wire BY <1>14, <1>17
<1> QED BY <1>1, <1>2, <1>7, <1>13, <1>14, <1>18, <1>19, <1>20, <1>21, <1>22, GoesOn

(* Two parts of an answer that follow each other.                          *)
LEMMA PartJoin ==
    ASSUME NEW a \in Seq(Unit), NEW b \in Seq(Unit), NEW f, NEW shape, shape \in Shape, NEW p \in Nat,
           Part(a, f, shape, p), Part(b, f, shape, p + Len(a))
    PROVE  /\ a \o b \in Seq(Unit) /\ Len(a \o b) = Len(a) + Len(b)
           /\ Part(a \o b, f, shape, p)
<1> DEFINE w == a \o b
           m == Len(a)
           n == Len(b)
<1>1. m \in Nat /\ n \in Nat /\ DOMAIN a = 1..m /\ DOMAIN b = 1..n BY LenProperties
<1>2. /\ w \in Seq(Unit) /\ Len(w) = m + n
      /\ \A i \in 1..m : w[i] = a[i]
      /\ \A i \in 1..n : w[m + i] = b[i]
  BY JoinElements
<1>3. DOMAIN w = 1..m + n BY <1>2, LenProperties
<1>4. Units(shape) \in Nat BY DEF Units, Shape
<1>5. /\ \A j \in 1..m : a[j] = UnitAt(f, shape, p + j)
      /\ \A j \in 1..n : b[j] = UnitAt(f, shape, p + m + j)
      /\ p + m + n <= Units(shape)
  BY <1>1 DEF Part
<1> HIDE DEF w, m, n
<1>6. ASSUME NEW j \in 1..m + n PROVE w[j] = UnitAt(f, shape, p + j)
  <2>1. CASE j <= m
    <3>1. j \in 1..m BY <2>1, <1>1
    <3> QED BY <3>1, <1>2, <1>5
  <2>2. CASE j > m
    <3>1. j - m \in 1..n /\ m + (j - m) = j /\ p + m + (j - m) = p + j BY <2>2, <1>1
    <3> QED BY <3>1, <1>2, <1>5
  <2> QED BY <2>1, <2>2, <1>1
<1>7. p + Len(w) <= Units(shape) BY <1>1, <1>2, <1>4, <1>5
<1>8. Part(w, f, shape, p) BY <1>3, <1>6, <1>7 DEF Part
<1> QED BY <1>2, <1>8 DEF w, m, n

LEMMA UnitParts ==
    ASSUME NEW f, NEW shape, shape \in Shape, NEW n \in Nat
    PROVE  /\ UnitAt(f, shape, n).req = f /\ UnitAt(f, shape, n).shape = shape
           /\ UnitAt(f, shape, n).part = "blank" <=> n = 2
           /\ n > 2 /\ n <= shape.len + 2 => UnitAt(f, shape, n).part = "data"
           /\ n > shape.len + 2 => UnitAt(f, shape, n).part = "end"
<1>1. shape.len \in Nat BY DEF Shape
<1> QED BY <1>1 DEF UnitAt

(* In the answer to f, units follow the body of slot record d, and w them. *)
Follow(d, f, units, w) ==
    /\ d.body \in Seq(Unit) /\ d.shape \in Shape /\ units \in Seq(Unit) /\ w \in Seq(Unit)
    /\ d.chunked => d.shape.framing = "chunked" /\ Len(d.body) <= d.shape.len
    /\ Part(d.body, f, d.shape, 2)
    /\ Part(units, f, d.shape, 2 + Len(d.body))
    /\ Part(w, f, d.shape, 2 + Len(d.body) + Len(units))

(* b is what of the answer's body is delivered once units are, and nothing *)
(* beyond it: where feed_body returns 1 the body is complete and the wire  *)
(* is empty.                                                               *)
Extends(d, f, units, w, b) ==
    /\ b \in Seq(Unit)
    /\ Part(b, f, d.shape, 2)
    /\ (d.chunked /\ Has("end", units)) \/ (d.shape.framing = "length" /\ Len(b) >= d.shape.len) =>
          /\ w = <<>>
          /\ Len(b) = d.shape.len
          /\ \A i \in DOMAIN b : b[i].part = "data"
    /\ ~(d.chunked /\ Has("end", units)) =>
          /\ Part(w, f, d.shape, 2 + Len(b))
          /\ d.chunked => Len(b) <= d.shape.len

LEMMA Delivered ==
    ASSUME NEW d, NEW f, NEW units, NEW w, Follow(d, f, units, w)
    PROVE  Extends(d, f, units, w, d.body \o ToDeliver(d, units))
<1> DEFINE b == d.body \o ToDeliver(d, units)
<1> HIDE DEF b
<1> SUFFICES Extends(d, f, units, w, b)
  BY DEF b
<1> USE DEF Follow
<1> DEFINE m == Len(d.body)
           n == Len(units)
           len == d.shape.len
           lw == Len(w)
           k == IF d.shape.framing = "chunked" THEN 1 ELSE 0
           end == d.chunked /\ Has("end", units)
<1>1. /\ m \in Nat /\ n \in Nat /\ lw \in Nat /\ len \in Nat
      /\ DOMAIN units = 1..n /\ DOMAIN d.body = 1..m /\ DOMAIN w = 1..Len(w)
  BY LenProperties DEF Shape
<1>2. Units(d.shape) = len + 2 + k /\ k \in {0, 1} BY DEF Units
<1>3. 2 + m + n + lw <= len + 2 + k BY <1>2 DEF Part
<1>4. \A j \in 1..n : units[j] = UnitAt(f, d.shape, 2 + m + j) BY <1>1 DEF Part
<1> HIDE DEF m, n, len, lw, k
<1>5. \A j \in 1..n : units[j].part = "end" <=> m + j > len
  <2> SUFFICES ASSUME NEW j \in 1..n PROVE units[j].part = "end" <=> m + j > len
    OBVIOUS
  <2>1. 2 + m + j \in Nat /\ 2 + m + j > 2 /\ (2 + m + j > len + 2 <=> m + j > len)
    BY <1>1
  <2>2. 2 + m + j > len + 2 \/ 2 + m + j <= len + 2 BY <1>1
  <2> QED BY <1>4, <2>1, <2>2, UnitParts DEF len
<1>6. ASSUME NEW x \in Seq(Unit), NEW p \in Nat, p <= n, Len(x) = p,
             Part(x, f, d.shape, 2 + m), ToDeliver(d, units) = x
      PROVE  b \in Seq(Unit) /\ Len(b) = m + p /\ Part(b, f, d.shape, 2)
  <2>1. 2 \in Nat /\ Part(x, f, d.shape, 2 + Len(d.body)) BY <1>6 DEF m
  <2>2. /\ d.body \o x \in Seq(Unit) /\ Len(d.body \o x) = Len(d.body) + Len(x)
        /\ Part(d.body \o x, f, d.shape, 2)
    BY <1>6, <2>1, PartJoin
  <2> QED BY <1>6, <2>2 DEF m, b
<1>7. ASSUME b \in Seq(Unit), Len(b) <= len, Part(b, f, d.shape, 2)
      PROVE  \A i \in DOMAIN b : b[i].part = "data"
  <2>1. Len(b) \in Nat /\ DOMAIN b = 1..Len(b) BY <1>7, LenProperties
  <2> SUFFICES ASSUME NEW i \in 1..Len(b) PROVE b[i].part = "data"
    BY <2>1
  <2>2. b[i] = UnitAt(f, d.shape, 2 + i) BY <1>7, <2>1 DEF Part
  <2>3. 2 + i \in Nat /\ 2 + i > 2 /\ 2 + i <= len + 2 BY <1>1, <1>7, <2>1
  <2> QED BY <2>2, <2>3, UnitParts DEF len
<1>8. lw = 0 => w = <<>> BY EmptySeq DEF lw
<1>9. CASE end
  <2>1. PICK j \in 1..n : units[j].part = "end" BY <1>1, <1>9 DEF Has
  <2>2. m + j = len + 1 /\ j = n /\ lw = 0 BY <2>1, <1>1, <1>2, <1>3, <1>5
  <2>3. \A i \in 1..n : units[i].part = "end" => i = j
    BY <2>2, <1>1, <1>2, <1>3, <1>5
  <2>4. j \in DOMAIN units /\ units[j].part = "end" /\ \A i \in 1..(j - 1) : units[i].part # "end"
    BY <2>1, <2>3, <1>1
  <2>5. FirstOf("end", units) = j
    <3>1. \A i \in DOMAIN units :
             units[i].part = "end" /\ (\A h \in 1..(i - 1) : units[h].part # "end") => i = j
      BY <2>3, <1>1
    <3> QED BY <2>4, <3>1 DEF FirstOf
  <2> DEFINE x == SubSeq(units, 1, j - 1)
  <2>6. ToDeliver(d, units) = x BY <1>9, <2>5 DEF ToDeliver
  <2>7. j - 1 \in 0..Len(units) /\ 2 + m \in Nat BY <1>1 DEF n
  <2>8. x \in Seq(Unit) /\ Len(x) = j - 1 /\ Part(x, f, d.shape, 2 + m)
    <3>1. Part(units, f, d.shape, 2 + m) BY DEF m
    <3> QED BY <2>7, <3>1, PartCut
  <2> HIDE DEF x
  <2>9. j - 1 \in Nat /\ j - 1 <= n BY <1>1
  <2>10. b \in Seq(Unit) /\ Len(b) = m + (j - 1) /\ Part(b, f, d.shape, 2)
    BY <2>6, <2>8, <2>9, <1>6
  <2>11. Len(b) = len BY <2>2, <2>10, <1>1
  <2>12. Len(b) <= len BY <2>11, <1>1
  <2> QED BY <1>7, <1>8, <1>9, <2>2, <2>10, <2>11, <2>12 DEF len, Extends
<1>10. CASE ~end
  <2>0. d.shape.framing = "length" => k = 0 BY DEF k
  <2>1. d.shape.framing = "length" => m + n <= len BY <1>1, <1>3, <2>0
  <2>2. ToDeliver(d, units) = units
    <3>1. ~(d.shape.framing = "length" /\ m + n > len) BY <1>1, <2>1
    <3> QED BY <1>10, <3>1 DEF ToDeliver, m, n, len
  <2>3. b \in Seq(Unit) /\ Len(b) = m + n /\ Part(b, f, d.shape, 2)
    <3>1. n \in Nat /\ n <= n /\ Len(units) = n /\ Part(units, f, d.shape, 2 + m) /\ ToDeliver(d, units) = units
      BY <2>2, <1>1 DEF m, n
    <3> QED BY <3>1, <1>6
  <2>4. Part(w, f, d.shape, 2 + Len(b))
    <3>1. 2 + Len(b) = 2 + m + n BY <2>3, <1>1
    <3> QED BY <3>1 DEF m, n
  <2>5. ASSUME d.chunked PROVE Len(b) <= len
    <3>1. CASE n = 0 BY <3>1, <2>3, <2>5, <1>1 DEF m, len
    <3>2. CASE n # 0
      <4>1. n \in 1..n BY <3>2, <1>1
      <4>2. units[n].part # "end" BY <4>1, <2>5, <1>1, <1>10 DEF Has
      <4> QED BY <4>1, <4>2, <2>3, <1>1, <1>5
    <3> QED BY <3>1, <3>2
  <2>6. ASSUME d.shape.framing = "length", Len(b) >= len
        PROVE  w = <<>> /\ Len(b) = len /\ \A i \in DOMAIN b : b[i].part = "data"
    <3>1. Len(b) = len /\ lw = 0 BY <2>3, <2>6, <1>1, <1>3, <2>0
    <3>2. Len(b) <= len BY <3>1, <1>1
    <3> QED BY <3>1, <3>2, <2>3, <1>7, <1>8
  <2> QED BY <1>10, <2>3, <2>4, <2>5, <2>6 DEF len, Extends
<1> QED BY <1>9, <1>10

(* feed_body, and hctx_finish when it returns 1.  c is the slot after the  *)
(* header was parsed, or as it was, net what is left of the connections.   *)
LEMMA FeedKeeps ==
    ASSUME CoreIInv, HttpsInv, NetInv, NEW s \in Slots, At(s), InUse(s),
           NEW c, SlotOK(c), c.state \in {"HEADERS", "BODY", "UNHEARD"}, c.conn # NoConn,
           c.parent = https_slots[s].parent, c.conn = https_slots[s].conn,
           c.aborted <=> https_slots[s].aborted, c.started <=> https_slots[s].started,
           c.shape \in Shapes, AnswerOK(c),
           c.chunked => c.shape.framing = "chunked" /\ Len(c.body) <= c.shape.len,
           NEW units \in Seq(Unit), NEW net \in [Conns -> Conn],
           \A e \in Conns : e # c.conn => net[e] = ostls[e],
           net[c.conn].open = ostls[c.conn].open,
           Part(c.body, c.parent, c.shape, 2), Part(units, c.parent, c.shape, 2 + Len(c.body)),
           Part(net[c.conn].wire, c.parent, c.shape, 2 + Len(c.body) + Len(units)),
           FeedBody(s, c, units, net)
    PROVE  StepOK
<1> DEFINE f == c.parent
           w == net[c.conn].wire
<1>1. c \in Slot /\ c.conn \in Conns /\ c.shape \in Shape
  BY HttpsShapeAssumption DEF SlotOK, Slot, OnWire
<1>2. PICK ch \in IF c.shape.framing = "chunked" /\ c.body = <<>> /\ ~c.chunked /\ units # <<>>
                  THEN BOOLEAN ELSE {c.chunked} :
          LET d == [c EXCEPT !.state = "BODY", !.chunked = ch]
              fed == [d EXCEPT !.body = @ \o ToDeliver(d, units)]
          IN  IF units # <<>> /\ BodyComplete(fed, units)
              THEN \E unseen \in BOOLEAN : hctx_finish(s, fed, net, unseen)
              ELSE /\ SlotBecomes(s, fed, After(s))
                   /\ ostls' = net
                   /\ UNCHANGED https_pool
  BY DEF FeedBody
<1>3. ch \in BOOLEAN /\ (ch => c.shape.framing = "chunked" /\ Len(c.body) <= c.shape.len)
  <2>1. c.chunked \in BOOLEAN /\ c.shape.len \in Nat BY <1>1 DEF Slot, Shape
  <2>2. CASE c.shape.framing = "chunked" /\ c.body = <<>> /\ ~c.chunked /\ units # <<>>
    BY <2>1, <2>2, <1>2
  <2>3. CASE ~(c.shape.framing = "chunked" /\ c.body = <<>> /\ ~c.chunked /\ units # <<>>)
    BY <2>1, <2>3, <1>2
  <2> QED BY <2>2, <2>3
<1> DEFINE d == [c EXCEPT !.state = "BODY", !.chunked = ch]
           b == d.body \o ToDeliver(d, units)
           fed == [d EXCEPT !.body = b]
<1>4. IF units # <<>> /\ BodyComplete(fed, units)
      THEN \E unseen \in BOOLEAN : hctx_finish(s, fed, net, unseen)
      ELSE /\ SlotBecomes(s, fed, After(s))
           /\ ostls' = net
           /\ UNCHANGED https_pool
  BY <1>2
<1>5. d \in Slot BY <1>1, <1>3 DEF Slot
<1>6. /\ d.state = "BODY" /\ d.chunked = ch /\ d.parent = c.parent /\ d.conn = c.conn
      /\ d.corrupt = c.corrupt /\ d.retries = c.retries /\ d.sent = c.sent
      /\ d.hdr_buf = c.hdr_buf /\ d.body = c.body /\ d.shape = c.shape
      /\ d.started = c.started /\ d.aborted = c.aborted
  BY <1>1, <1>3 DEF Slot
<1> HIDE DEF d
<1>7. w \in Seq(Unit) BY <1>1 DEF Conn
<1>8. Follow(d, f, units, w)
  BY <1>1, <1>3, <1>5, <1>6, <1>7 DEF Slot, Follow
<1> HIDE DEF w, f
<1>9. Extends(d, f, units, w, b) BY <1>8, Delivered
<1> HIDE DEF b
<1>10. /\ b \in Seq(Unit)
       /\ Part(b, f, d.shape, 2)
       /\ (d.chunked /\ Has("end", units)) \/ (d.shape.framing = "length" /\ Len(b) >= d.shape.len) =>
             /\ w = <<>>
             /\ Len(b) = d.shape.len
             /\ \A i \in DOMAIN b : b[i].part = "data"
       /\ ~(d.chunked /\ Has("end", units)) =>
             /\ Part(w, f, d.shape, 2 + Len(b))
             /\ d.chunked => Len(b) <= d.shape.len
  BY <1>9 DEF Extends
<1>11. fed \in Slot BY <1>5, <1>10 DEF Slot
<1>12. /\ fed.state = "BODY" /\ fed.chunked = ch /\ fed.parent = c.parent /\ fed.conn = c.conn
       /\ fed.corrupt = c.corrupt /\ fed.retries = c.retries /\ fed.sent = c.sent
       /\ fed.hdr_buf = c.hdr_buf /\ fed.body = b /\ fed.shape = c.shape
       /\ fed.started = c.started /\ fed.aborted = c.aborted
  BY <1>5, <1>6, <1>10 DEF Slot
<1> HIDE DEF fed
<1>13. CASE units # <<>> /\ BodyComplete(fed, units)
  <2>1. PICK unseen \in BOOLEAN : hctx_finish(s, fed, net, unseen) BY <1>4, <1>13
  <2>2. (d.chunked /\ Has("end", units)) \/ (d.shape.framing = "length" /\ Len(b) >= d.shape.len)
    BY <1>6, <1>12, <1>13 DEF BodyComplete
  <2>3. /\ w = <<>> /\ Len(b) = c.shape.len /\ \A i \in DOMAIN b : b[i].part = "data"
    BY <1>6, <1>10, <2>2
  <2>4. Worth(fed) = "whole" BY <1>12, <2>3 DEF Worth
  <2>5. /\ fed.parent = https_slots[s].parent /\ fed.conn = https_slots[s].conn
        /\ \A e \in Conns : e # fed.conn => net[e] = ostls[e]
        /\ fed.conn # NoConn => net[fed.conn].open = ostls[fed.conn].open
        /\ Poolable(fed) => net[fed.conn].wire = <<>>
        /\ fed.cache_eligible /\ fed.body # <<>> => Worth(fed) \in {"whole", "unknown"}
    BY <1>12, <2>3, <2>4 DEF w
  <2> QED BY <2>1, <2>5, FinishKeeps
<1>14. CASE ~(units # <<>> /\ BodyComplete(fed, units))
  <2>1. SlotBecomes(s, fed, After(s)) /\ ostls' = net /\ https_pool' = https_pool BY <1>4, <1>14
  <2>2. ~(d.chunked /\ Has("end", units))
    <3>1. d.chunked /\ Has("end", units) => units # <<>> BY DEF Has
    <3> QED BY <3>1, <1>6, <1>12, <1>14 DEF BodyComplete
  <2>3. SlotOK(fed)
    <3>1. fed.sent <= fed.retries + 1 /\ ~fed.corrupt BY <1>1, <1>12 DEF SlotOK, Slot
    <3>2. fed.conn # NoConn /\ fed.started BY <1>12 DEF SlotOK, OnWire
    <3> QED BY <1>11, <1>12, <3>1, <3>2 DEF SlotOK, Slot
  <2>4. AnswerOK(fed)
    <3> SUFFICES ASSUME NEW i \in DOMAIN b PROVE b[i].req = f
      BY <1>12 DEF AnswerOK, f
    <3>1. b[i] = UnitAt(f, d.shape, 2 + i) BY <1>10 DEF Part
    <3>2. i \in 1..Len(b) /\ Len(b) \in Nat BY <1>10, LenProperties
    <3>3. 2 + i \in Nat BY <3>2
    <3> QED BY <1>1, <1>6, <3>1, <3>3, UnitParts
  <2>5. WireOK(fed, ostls'[fed.conn].wire)
    <3>1. ostls'[fed.conn].wire = w BY <1>12, <2>1 DEF w
    <3>2. /\ fed.shape \in Shapes /\ Part(fed.body, fed.parent, fed.shape, 2)
          /\ Part(w, fed.parent, fed.shape, 2 + Len(fed.body))
      BY <1>6, <1>10, <1>12, <2>2 DEF f
    <3>3. fed.chunked => fed.shape.framing = "chunked" /\ Len(fed.body) <= fed.shape.len
      BY <1>3, <1>6, <1>10, <1>12, <2>2
    <3> QED BY <1>12, <3>1, <3>2, <3>3 DEF WireOK
  <2>6. /\ fed.parent = https_slots[s].parent /\ (fed.aborted <=> https_slots[s].aborted)
        /\ (fed.started <=> https_slots[s].started) /\ fed.conn = https_slots[s].conn
        /\ Handing(https_slots[s]) => Handing(fed)
        /\ ostls' \in [Conns -> Conn]
        /\ \A e \in Conns : e # fed.conn => ostls'[e].wire = ostls[e].wire
    BY <1>12, <2>1 DEF Handing
  <2>7. \A e \in Conns : ostls'[e].open = ostls[e].open BY <2>1, <1>1
  <2> QED BY <2>1, <2>3, <2>4, <2>5, <2>6, <2>7, AfterSlot, GoesOn
<1> QED BY <1>13, <1>14

(* units, and then w, go on with the answer slot record c has a part of.   *)
Owes(c, units, w) ==
    /\ c.shape \in Shapes
    /\ Part(c.body, c.parent, c.shape, 2)
    /\ Part(units, c.parent, c.shape, 2 + Len(c.body))
    /\ Part(w, c.parent, c.shape, 2 + Len(c.body) + Len(units))
    /\ c.chunked => c.shape.framing = "chunked" /\ Len(c.body) <= c.shape.len

(* The slots, where llcache aborts the fetch of the slot being polled.      *)
LEMMA UnheardSlot ==
    ASSUME CoreIInv, HttpsInv, NEW s \in Slots, At(s), InUse(s), NEW d, SlotOK(d),
           d.state = "UNHEARD", d.aborted = TRUE, d.parent = https_slots[s].parent,
           d.started => https_slots[s].started,
           https_slots' = [https_slots EXCEPT ![s] = d],
           UNCHANGED <<fetcher_handle, cursor, callback>>, FetchAbort(https_slots[s].parent)
    PROVE  HttpsInv'
<1> DEFINE f == https_slots[s].parent
<1>1. /\ fetch' = [fetch EXCEPT ![f].last = "finished"]
      /\ UNCHANGED <<told, caller, poller>>
      /\ \A g \in Fetches : g # f => client'[g] = client[g]
  BY DEF FetchAbort, loopVars, CoreIInv, CoreTypeOK
<1>2. caller = "no" /\ poller # "no" /\ cursor = s /\ callback = NoSlot BY DEF At
<1>3. s # callback BY <1>2, HttpsSlotAssumption DEF Slots
<1>4. told[f] = 0 /\ (https_slots[s].started => fetch[f].active)
  BY <1>3 DEF HttpsInv, HeardInv, StartedActive
<1>5. \A g \in Fetches : fetch'[g].life = fetch[g].life /\ fetch'[g].active = fetch[g].active
  BY <1>1 DEF CoreIInv, CoreTypeOK
<1>6. f \in Fetches BY SlotOwner
<1>7. /\ \A g \in Fetches : fetch'[g].life = fetch[g].life
      /\ \A g \in Fetches : g # f => /\ fetch'[g].active = fetch[g].active
                                     /\ told'[g] = told[g]
                                     /\ client'[g] = client[g]
      /\ d.started => fetch'[f].active
      /\ s # callback' => told'[f] = 0 /\ (~d.aborted => client'[f] = "waiting")
      /\ s = callback' /\ d.redirected => client'[f] = "ended" \/ d.state = "UNHEARD"
  BY <1>1, <1>4, <1>5, <1>6
<1>8. /\ \A r \in Slots : r # s => (r = callback' <=> r = callback)
      /\ callback' # NoSlot => callback' = s \/ callback' = callback
      /\ callback' # NoSlot => poller' # "no" /\ cursor' = callback' /\ caller' \in {"no", "start"}
      /\ cursor' \in Slots \cup {NoSlot} /\ callback' \in Slots \cup {NoSlot}
      /\ fetcher_handle' = fetcher_handle
  BY <1>2
<1>9. Change(s, d, f) BY <1>7, <1>8 DEF Change
<1> HIDE DEF f
<1> QED BY <1>9, Changed

(* llcache aborts the fetch from inside a callback of this poll.  c is the *)
(* slot as the poll has it, net what is left of the connections.           *)
LEMMA UnheardKeeps ==
    ASSUME CoreIInv, HttpsInv, NetInv, NEW s \in Slots, At(s), InUse(s),
           NEW c, SlotOK(c), c.state \in {"CACHEHIT", "HEADERS", "BODY"},
           c.parent = https_slots[s].parent, c.conn = https_slots[s].conn,
           c.started <=> https_slots[s].started, AnswerOK(c),
           NEW units \in Seq(Unit), NEW net \in [Conns -> Conn],
           \A e \in Conns : e # c.conn => net[e].wire = ostls[e].wire,
           \A e \in Conns : net[e].open = ostls[e].open,
           c.conn # NoConn => Owes(c, units, net[c.conn].wire),
           Unheard(s, c, units), ostls' = net
    PROVE  StepOK
<1> DEFINE f == https_slots[s].parent
           d == [c EXCEPT !.state = "UNHEARD", !.aborted = TRUE, !.unfed = units]
<1>1. /\ https_slots' = [https_slots EXCEPT ![s] = d]
      /\ UNCHANGED <<fetcher_handle, https_pool, disk, cursor, callback>>
      /\ FetchAbort(f)
  BY DEF Unheard
<1>4. f \in Fetches BY SlotOwner
<1>8. c \in Slot BY DEF SlotOK
<1>9. d \in Slot BY <1>8 DEF Slot
<1>10. /\ d.state = "UNHEARD" /\ d.aborted = TRUE /\ d.unfed = units
       /\ d.parent = c.parent /\ d.conn = c.conn /\ d.started = c.started
       /\ d.corrupt = c.corrupt /\ d.retries = c.retries /\ d.sent = c.sent
       /\ d.hdr_buf = c.hdr_buf /\ d.body = c.body /\ d.shape = c.shape /\ d.chunked = c.chunked
  BY <1>8 DEF Slot
<1> HIDE DEF d
<1>11. SlotOK(d)
  <2>1. d.sent <= d.retries + 1 BY <1>8, <1>10 DEF SlotOK, Slot
  <2>2. d.conn # NoConn => d.started BY <1>10 DEF SlotOK
  <2>3. d.conn = NoConn => d.body = <<>> BY <1>10 DEF SlotOK, OnWire
  <2>4. ~d.corrupt BY <1>10 DEF SlotOK
  <2> QED BY <1>9, <1>10, <2>1, <2>2, <2>3, <2>4 DEF SlotOK, OnWire
<1>12. HttpsInv' BY <1>1, <1>10, <1>11, UnheardSlot
<1>13. https_slots'[s] = d /\ \A r \in Slots : r # s => https_slots'[r] = https_slots[r]
  BY <1>1 DEF HttpsInv, SlotsTyped
<1>14. AnswerOK(d) BY <1>10 DEF AnswerOK
<1>15. d.conn # NoConn => WireOK(d, ostls'[d.conn].wire)
  BY <1>10 DEF WireOK, Owes
<1>16. NetInv'
  <2>1. ConnOf(s)' = ConnOf(s) /\ ConnOf(s) = c.conn
    BY <1>10, <1>13 DEF ConnOf, InUse
  <2>2. InUse(s)' => /\ AnswerOK(https_slots'[s])
                     /\ s # callback' /\ Wired(https_slots'[s]) =>
                           WireOK(https_slots'[s], ostls'[https_slots'[s].conn].wire)
    BY <1>10, <1>13, <1>14, <1>15 DEF Wired, OnWire
  <2>3. /\ ostls' \in [Conns -> Conn] /\ UNCHANGED <<https_pool, disk>>
        /\ \A e \in Conns : ostls'[e].open = ostls[e].open
        /\ \A e \in Conns : e # ConnOf(s) => ostls'[e].wire = ostls[e].wire
        /\ \A r \in Slots : r # s /\ r # callback' => r # callback
    BY <1>1, <2>1
  <2> QED BY <1>13, <2>1, <2>2, <2>3, NetSame
<1>17. CoreNext BY <1>1, <1>4 DEF CoreNext
<1>18. Forward BY <1>10, <1>13, ForwardSlot
<1> QED BY <1>12, <1>16, <1>17, <1>18 DEF StepOK

LEMMA CacheHitUnheardKeeps ==
    ASSUME CoreIInv, HttpsInv, NetInv, NEW s \in Slots, PollCacheHitUnheard(s)
    PROVE  StepOK
<1> DEFINE c == https_slots[s]
<1>1. At(s) /\ c.state = "CACHEHIT" /\ Unheard(s, c, <<>>) /\ ostls' = ostls
  BY DEF PollCacheHitUnheard, Polling
<1>2. InUse(s) BY <1>1 DEF InUse
<1>3. SlotOK(c) /\ c.conn = NoConn
  BY <1>1, <1>2, SlotOwner DEF SlotOK
<1>4. AnswerOK(c) /\ ostls \in [Conns -> Conn]
  BY <1>2 DEF NetInv, NetTyped, WiresOK
<1>5. <<>> \in Seq(Unit) OBVIOUS
<1> QED BY <1>1, <1>2, <1>3, <1>4, <1>5, UnheardKeeps

(* The poll goes on after llcache gave up.                                 *)
LEMMA ReadOnKeeps ==
    ASSUME CoreIInv, HttpsInv, NetInv, NEW s \in Slots, ReadOn(s)
    PROVE  StepOK
<1> DEFINE c == https_slots[s]
           d == [c EXCEPT !.unfed = <<>>]
<1>1. /\ At(s) /\ c.state = "UNHEARD"
      /\ \/ c.conn = NoConn /\ hctx_finish(s, c, ostls, FALSE)
         \/ c.conn # NoConn /\ c.redirected /\ Notify(s, d) /\ UNCHANGED netVars
         \/ c.conn # NoConn /\ FeedBody(s, d, c.unfed, ostls)
  BY DEF ReadOn
<1>2. InUse(s) /\ s # callback BY <1>1, HttpsSlotAssumption DEF InUse, At, Slots
<1>3. SlotOK(c) /\ c \in Slot BY <1>2, SlotOwner DEF SlotOK
<1>4. ostls \in [Conns -> Conn] BY DEF NetInv, NetTyped
<1>5. AnswerOK(c) BY <1>2 DEF NetInv, WiresOK
<1>6. d \in Slot
  <2>1. <<>> \in Seq(Unit) OBVIOUS
  <2> QED BY <1>3, <2>1 DEF Slot
<1>7. /\ d.state = "UNHEARD" /\ d.parent = c.parent /\ d.conn = c.conn /\ d.started = c.started
      /\ d.aborted = c.aborted /\ d.corrupt = c.corrupt /\ d.retries = c.retries /\ d.sent = c.sent
      /\ d.hdr_buf = c.hdr_buf /\ d.body = c.body /\ d.shape = c.shape /\ d.chunked = c.chunked
  BY <1>1, <1>3 DEF Slot
<1> HIDE DEF d
<1>8. SlotOK(d) BY <1>1, <1>3, <1>6, <1>7 DEF SlotOK
<1>9. AnswerOK(d) BY <1>5, <1>7 DEF AnswerOK
<1>10. CASE c.conn = NoConn /\ hctx_finish(s, c, ostls, FALSE)
  <2>1. c.body = <<>> BY <1>1, <1>3, <1>10 DEF SlotOK
  <2>2. ~Poolable(c) BY <1>10 DEF Poolable
  <2> QED BY <1>1, <1>2, <1>4, <1>10, <2>1, <2>2, FinishKeeps
<1>11. CASE c.conn # NoConn /\ Notify(s, d) /\ UNCHANGED netVars
  <2>1. /\ d.parent = https_slots[s].parent /\ (d.started <=> https_slots[s].started)
        /\ d.redirected => ~https_slots[s].aborted \/ d.state = "UNHEARD"
    BY <1>7
  <2>2. /\ HttpsInv' /\ CoreNext /\ callback' = s
        /\ https_slots'[s].state = d.state /\ https_slots'[s].conn = d.conn
        /\ AnswerOK(https_slots'[s])
        /\ \A r \in Slots : r # s => https_slots'[r] = https_slots[r]
    BY <1>1, <1>2, <1>8, <1>9, <1>11, <2>1, ReportedKeeps
  <2>3. InUse(s)' /\ https_slots'[s].conn = https_slots[s].conn BY <1>7, <2>2 DEF InUse
  <2>4. UNCHANGED <<ostls, https_pool, disk>> BY <1>11 DEF Notify, netVars
  <2>5. NetInv' BY <1>1, <1>2, <1>4, <2>2, <2>3, <2>4, ReportNet
  <2>6. Forward BY <1>7, <2>2, ForwardSlot
  <2> QED BY <2>2, <2>5, <2>6 DEF StepOK
<1>12. CASE c.conn # NoConn /\ FeedBody(s, d, c.unfed, ostls)
  <2>1. WireOK(c, ostls[c.conn].wire) BY <1>1, <1>2, <1>12 DEF NetInv, WiresOK, Wired
  <2>2. /\ c.shape \in Shapes /\ Part(c.body, c.parent, c.shape, 2)
        /\ Part(c.unfed, c.parent, c.shape, 2 + Len(c.body))
        /\ Part(ostls[c.conn].wire, c.parent, c.shape, 2 + Len(c.body) + Len(c.unfed))
        /\ c.chunked => c.shape.framing = "chunked" /\ Len(c.body) <= c.shape.len
    BY <1>1, <2>1 DEF WireOK
  <2>3. c.unfed \in Seq(Unit) BY <1>3 DEF Slot
  <2>4. /\ d.state \in {"HEADERS", "BODY", "UNHEARD"} /\ d.conn # NoConn
        /\ d.parent = https_slots[s].parent /\ d.conn = https_slots[s].conn
        /\ (d.aborted <=> https_slots[s].aborted) /\ (d.started <=> https_slots[s].started)
        /\ d.shape \in Shapes
    BY <1>7, <1>12, <2>2
  <2>5. d.chunked => d.shape.framing = "chunked" /\ Len(d.body) <= d.shape.len
    BY <1>7, <2>2
  <2>6. /\ Part(d.body, d.parent, d.shape, 2) /\ Part(c.unfed, d.parent, d.shape, 2 + Len(d.body))
        /\ Part(ostls[d.conn].wire, d.parent, d.shape, 2 + Len(d.body) + Len(c.unfed))
    BY <1>7, <2>2
  <2> QED BY <1>1, <1>2, <1>4, <1>8, <1>9, <1>12, <2>3, <2>4, <2>5, <2>6, FeedKeeps
<1> QED BY <1>1, <1>10, <1>11, <1>12

(* What reading n units of a slot's connection leaves.                     *)
LEMMA ReadNet ==
    ASSUME NetInv, NEW e \in Conns, NEW n \in 0..Len(ostls[e].wire)
    PROVE  /\ ReadFrom(e, n) \in [Conns -> Conn]
           /\ ReadFrom(e, n)[e].wire = SubSeq(ostls[e].wire, n + 1, Len(ostls[e].wire))
           /\ ReadFrom(e, n)[e].open = ostls[e].open
           /\ \A x \in Conns : x # e => ReadFrom(e, n)[x] = ostls[x]
<1> DEFINE w == ostls[e].wire
           r == SubSeq(w, n + 1, Len(w))
<1>1. ostls \in [Conns -> Conn] /\ ostls[e] \in Conn /\ w \in Seq(Unit) BY DEF NetInv, NetTyped, Conn
<1>2. r \in Seq(Unit) BY <1>1, CutElements
<1>3. ReadFrom(e, n) = [ostls EXCEPT ![e].wire = r] BY DEF ReadFrom
<1> HIDE DEF r
<1>4. ReadFrom(e, n) = [ostls EXCEPT ![e] = [ostls[e] EXCEPT !.wire = r]] BY <1>3
<1> DEFINE d == [ostls[e] EXCEPT !.wire = r]
<1>5. d \in Conn /\ d.wire = r /\ d.open = ostls[e].open BY <1>1, <1>2 DEF Conn
<1> HIDE DEF d
<1>6. ReadFrom(e, n) = [ostls EXCEPT ![e] = d] BY <1>4 DEF d
<1> QED BY <1>1, <1>5, <1>6 DEF r

LEMMA BodyKeeps ==
    ASSUME CoreIInv, HttpsInv, NetInv, NEW s \in Slots, NEW n, PollBody(s, n) \/ PollBodyUnheard(s, n)
    PROVE  StepOK
<1> DEFINE c == https_slots[s]
           e == c.conn
           w == ostls[e].wire
           d == [c EXCEPT !.stale = FALSE]
           units == SubSeq(w, 1, n)
           net == ReadFrom(e, n)
<1>1. /\ At(s) /\ c.state = "BODY" /\ n \in 1..Len(w)
      /\ FeedBody(s, d, units, net) \/ (Unheard(s, d, units) /\ ostls' = net)
  BY DEF PollBody, PollBodyUnheard, Polling
<1>2. InUse(s) /\ s # callback BY <1>1, HttpsSlotAssumption DEF InUse, At, Slots
<1>3. SlotOK(c) /\ c \in Slot BY <1>2, SlotOwner DEF SlotOK
<1>4. e \in Conns BY <1>1, <1>3 DEF SlotOK, OnWire, Slot
<1>5. AnswerOK(c) /\ WireOK(c, w) BY <1>1, <1>2 DEF NetInv, WiresOK, Wired, OnWire
<1>6. w \in Seq(Unit) /\ Len(w) \in Nat BY <1>4, LenProperties DEF NetInv, NetTyped, Conn
<1>7. n \in 0..Len(w) BY <1>1, <1>6
<1>8. /\ net \in [Conns -> Conn] /\ net[e].wire = SubSeq(w, n + 1, Len(w))
      /\ net[e].open = ostls[e].open
      /\ \A x \in Conns : x # e => net[x] = ostls[x]
  BY <1>4, <1>7, ReadNet
<1>9. /\ c.shape \in Shapes /\ Part(c.body, c.parent, c.shape, 2)
      /\ Part(w, c.parent, c.shape, 2 + Len(c.body))
  BY <1>1, <1>5 DEF WireOK
<1>10. c.chunked => c.shape.framing = "chunked" /\ Len(c.body) <= c.shape.len
  BY <1>1, <1>5 DEF WireOK
<1>11. d \in Slot BY <1>3 DEF Slot
<1>12. /\ d.state = c.state /\ d.chunked = c.chunked /\ d.parent = c.parent /\ d.conn = e
       /\ d.corrupt = c.corrupt /\ d.retries = c.retries /\ d.sent = c.sent
       /\ d.hdr_buf = c.hdr_buf /\ d.body = c.body /\ d.shape = c.shape
       /\ d.started = c.started /\ d.aborted = c.aborted
  BY <1>3 DEF Slot
<1> HIDE DEF d, net
<1>13. SlotOK(d) BY <1>3, <1>11, <1>12 DEF SlotOK
<1>14. AnswerOK(d) BY <1>5, <1>12 DEF AnswerOK
<1>15. c.shape \in Shape /\ 2 + Len(c.body) \in Nat
  BY <1>3, <1>9, HttpsShapeAssumption, LenProperties DEF Slot
<1>16. /\ units \in Seq(Unit) /\ Len(units) = n
       /\ Part(units, c.parent, c.shape, 2 + Len(c.body))
       /\ Part(net[e].wire, c.parent, c.shape, 2 + Len(c.body) + n)
  <2> DEFINE p == 2 + Len(c.body)
             v == ostls[c.conn].wire
  <2>1. p \in Nat /\ v \in Seq(Unit) /\ n \in 0..Len(v) /\ Part(v, c.parent, c.shape, p)
    BY <1>6, <1>7, <1>9, <1>15
  <2>2. units = SubSeq(v, 1, n) /\ net[e].wire = SubSeq(v, n + 1, Len(v)) BY <1>8
  <2> HIDE DEF p, v, units
  <2>3. /\ units \in Seq(Unit) /\ Len(units) = n
        /\ Part(units, c.parent, c.shape, p) /\ Part(net[e].wire, c.parent, c.shape, p + n)
    BY <1>15, <2>1, <2>2, PartCut
  <2> QED BY <2>3 DEF p
<1> HIDE DEF units
<1>17. /\ d.state = "BODY" /\ d.parent = https_slots[s].parent
       /\ d.conn = https_slots[s].conn /\ d.conn # NoConn /\ d.shape \in Shapes
       /\ (d.aborted <=> https_slots[s].aborted) /\ (d.started <=> https_slots[s].started)
  BY <1>1, <1>4, <1>9, <1>12, HttpsNoneAssumption
<1>18. d.chunked => d.shape.framing = "chunked" /\ Len(d.body) <= d.shape.len
  BY <1>10, <1>12
<1>19. /\ Part(d.body, d.parent, d.shape, 2) /\ Part(units, d.parent, d.shape, 2 + Len(d.body))
       /\ Part(net[d.conn].wire, d.parent, d.shape, 2 + Len(d.body) + Len(units))
       /\ \A x \in Conns : x # d.conn => net[x] = ostls[x]
       /\ net[d.conn].open = ostls[d.conn].open
  BY <1>8, <1>9, <1>12, <1>16
<1>20. CASE FeedBody(s, d, units, net)
  BY <1>1, <1>2, <1>8, <1>13, <1>14, <1>16, <1>17, <1>18, <1>19, <1>20, FeedKeeps, ZenonT(60)
<1>21. CASE Unheard(s, d, units) /\ ostls' = net
  <2>1. Owes(d, units, net[d.conn].wire) BY <1>17, <1>18, <1>19 DEF Owes
  <2>2. /\ \A x \in Conns : x # d.conn => net[x].wire = ostls[x].wire
        /\ \A x \in Conns : net[x].open = ostls[x].open
    BY <1>19
  <2> QED BY <1>1, <1>2, <1>8, <1>13, <1>14, <1>16, <1>17, <1>21, <2>1, <2>2, UnheardKeeps
<1> QED BY <1>1, <1>20, <1>21

(* The header buffer once n more units of the wire are in it.              *)
LEMMA HeaderRead ==
    ASSUME NEW c, SlotOK(c), c.state = "HEADERS", NEW w \in Seq(Unit), WireOK(c, w),
           NEW n \in 0..Len(w), NEW buf, buf = c.hdr_buf \o SubSeq(w, 1, n),
           NEW rest, rest = SubSeq(w, n + 1, Len(w))
    PROVE  /\ c.body = <<>>
           /\ buf \in Seq(Unit) /\ rest \in Seq(Unit) /\ Len(buf) \in Nat
           /\ \E shape \in Shapes : /\ Part(buf, c.parent, shape, 0)
                                    /\ Part(rest, c.parent, shape, Len(buf))
<1> DEFINE a == c.hdr_buf
           f == c.parent
           u == SubSeq(w, 1, n)
           m == Len(a)
<1>1. a \in Seq(Unit) /\ m \in Nat BY LenProperties DEF SlotOK, Slot
<1>2. c.body = <<>> /\ \E shape \in Shapes : Part(a, f, shape, 0) /\ Part(w, f, shape, m)
  BY DEF WireOK
<1>3. PICK shape \in Shapes : Part(a, f, shape, 0) /\ Part(w, f, shape, m) BY <1>2
<1>4. shape \in Shape BY HttpsShapeAssumption
<1> HIDE DEF m
<1>5. /\ u \in Seq(Unit) /\ Len(u) = n /\ rest \in Seq(Unit)
      /\ Part(u, f, shape, m) /\ Part(rest, f, shape, m + n)
  BY <1>1, <1>3, <1>4, PartCut
<1> HIDE DEF u
<1>6. buf = a \o u BY DEF u
<1>7. Part(u, f, shape, 0 + Len(a))
  <2>1. 0 + Len(a) = m BY <1>1 DEF m
  <2> QED BY <1>5, <2>1
<1>8. /\ a \o u \in Seq(Unit) /\ Len(a \o u) = Len(a) + Len(u) /\ Part(a \o u, f, shape, 0)
  BY <1>1, <1>3, <1>4, <1>5, <1>7, PartJoin
<1>9. buf \in Seq(Unit) /\ Len(buf) = m + n /\ Part(buf, f, shape, 0)
  BY <1>5, <1>6, <1>8 DEF m
<1>10. Len(buf) \in Nat BY <1>9, LenProperties
<1>11. Part(rest, f, shape, Len(buf)) BY <1>5, <1>9
<1> QED BY <1>2, <1>5, <1>9, <1>10, <1>11

(* The header ends with the second unit of the answer.                     *)
LEMMA HeaderEnd ==
    ASSUME NEW buf \in Seq(Unit), NEW f, NEW shape \in Shape, Part(buf, f, shape, 0), Has("blank", buf)
    PROVE  FirstOf("blank", buf) = 2 /\ 2 \in 0..Len(buf) /\ buf[2].shape = shape
<1>1. Len(buf) \in Nat /\ DOMAIN buf = 1..Len(buf) BY LenProperties
<1>2. \A j \in 1..Len(buf) : buf[j] = UnitAt(f, shape, j)
  <2>1. \A j \in 1..Len(buf) : buf[j] = UnitAt(f, shape, 0 + j) BY <1>1 DEF Part
  <2>2. \A j \in 1..Len(buf) : 0 + j = j BY <1>1
  <2> QED BY <2>1, <2>2
<1>3. \A j \in 1..Len(buf) : (buf[j].part = "blank" <=> j = 2) /\ buf[j].shape = shape
  BY <1>1, <1>2, UnitParts
<1>4. 2 \in 1..Len(buf) BY <1>1, <1>3 DEF Has
<1>5. /\ 2 \in DOMAIN buf /\ buf[2].part = "blank" /\ \A i \in 1..(2 - 1) : buf[i].part # "blank"
  BY <1>1, <1>3, <1>4
<1>6. \A j \in DOMAIN buf :
         buf[j].part = "blank" /\ (\A i \in 1..(j - 1) : buf[i].part # "blank") => j = 2
  BY <1>1, <1>3
<1>7. FirstOf("blank", buf) = 2 BY <1>5, <1>6 DEF FirstOf
<1> QED BY <1>1, <1>3, <1>4, <1>7

(* parse_headers.                                                          *)
LEMMA ParsedSlot ==
    ASSUME NEW g, SlotOK(g), g.state = "HEADERS", g.body = <<>>, NEW eligible \in BOOLEAN,
           NEW shape \in Shapes, Part(g.hdr_buf, g.parent, shape, 0), Has("blank", g.hdr_buf),
           NEW d, d = Parsed(g, eligible)
    PROVE  /\ SlotOK(d) /\ AnswerOK(d) /\ d.state = "HEADERS" /\ d.shape = shape /\ d.body = <<>>
           /\ d.parent = g.parent /\ d.conn = g.conn
           /\ (d.started <=> g.started) /\ (d.aborted <=> g.aborted)
           /\ (d.redirected <=> shape.framing = "redirect")
           /\ d.chunked => shape.framing = "chunked"
<1> DEFINE buf == g.hdr_buf
           hdr == SubSeq(buf, 1, 2)
           ch == shape.framing = "chunked" /\ shape.marked
           ka == g.keep_alive_ok /\ ~shape.close
           re == shape.framing = "redirect"
           el == eligible /\ g.parent \notin Posts
<1>1. g \in Slot /\ buf \in Seq(Unit) /\ shape \in Shape
  BY HttpsShapeAssumption DEF SlotOK, Slot
<1>2. FirstOf("blank", buf) = 2 /\ 2 \in 0..Len(buf) /\ buf[2].shape = shape
  BY <1>1, HeaderEnd
<1>3. d = [g EXCEPT !.hdr_buf = hdr, !.shape = shape, !.chunked = ch, !.keep_alive_ok = ka,
                    !.redirected = re, !.cache_eligible = el]
  BY <1>2 DEF Parsed
<1>4. hdr \in Seq(Unit) /\ Part(hdr, g.parent, shape, 0)
  BY <1>1, <1>2, PartCut
<1>5. ch \in BOOLEAN /\ ka \in BOOLEAN /\ re \in BOOLEAN /\ el \in BOOLEAN
  BY <1>1 DEF Slot, Shape
<1>6. (re <=> shape.framing = "redirect") /\ (ch => shape.framing = "chunked") OBVIOUS
<1> HIDE DEF hdr, ch, ka, re, el
<1> DEFINE x == [g EXCEPT !.hdr_buf = hdr, !.shape = shape, !.chunked = ch]
<1>7. x \in Slot BY <1>1, <1>4, <1>5 DEF Slot
<1>8. /\ x.state = g.state /\ x.parent = g.parent /\ x.conn = g.conn /\ x.shape = shape
      /\ x.hdr_buf = hdr /\ x.body = g.body /\ x.started = g.started /\ x.aborted = g.aborted
      /\ x.chunked = ch /\ x.corrupt = g.corrupt /\ x.retries = g.retries /\ x.sent = g.sent
  BY <1>1, <1>4, <1>5 DEF Slot
<1>9. d = [x EXCEPT !.keep_alive_ok = ka, !.redirected = re, !.cache_eligible = el]
  BY <1>3
<1> HIDE DEF x
<1>10. d \in Slot BY <1>5, <1>7, <1>9 DEF Slot
<1>11. /\ d.state = g.state /\ d.parent = g.parent /\ d.conn = g.conn /\ d.shape = shape
       /\ d.hdr_buf = hdr /\ d.body = g.body /\ d.started = g.started /\ d.aborted = g.aborted
       /\ d.chunked = ch /\ d.corrupt = g.corrupt /\ d.retries = g.retries /\ d.sent = g.sent
       /\ d.redirected = re
  BY <1>5, <1>7, <1>8, <1>9 DEF Slot
<1>12. SlotOK(d)
  <2>1. d.sent <= d.retries + 1 /\ ~d.corrupt BY <1>1, <1>11 DEF SlotOK, Slot
  <2>2. d.conn # NoConn /\ d.started BY <1>11 DEF SlotOK, OnWire
  <2> QED BY <1>10, <1>11, <2>1, <2>2 DEF SlotOK, Slot
<1>13. AnswerOK(d)
  <2>1. ASSUME NEW i \in DOMAIN hdr PROVE hdr[i].req = g.parent
    <3>1. hdr[i] = UnitAt(g.parent, shape, 0 + i) BY <1>4 DEF Part
    <3>2. i \in 1..Len(hdr) /\ Len(hdr) \in Nat BY <1>4, LenProperties
    <3>3. 0 + i \in Nat BY <3>2
    <3> QED BY <1>1, <3>1, <3>3, UnitParts
  <2> QED BY <1>11, <2>1 DEF AnswerOK
<1> QED BY <1>6, <1>11, <1>12, <1>13

LEMMA HeadersKeeps ==
    ASSUME CoreIInv, HttpsInv, NetInv, NEW s \in Slots, NEW n, NEW eligible \in BOOLEAN,
           PollHeaders(s, n, eligible)
    PROVE  StepOK
<1> DEFINE c == https_slots[s]
           e == c.conn
           w == ostls[e].wire
           buf == c.hdr_buf \o SubSeq(w, 1, n)
           rest == SubSeq(w, n + 1, Len(w))
           got == [c EXCEPT !.hdr_buf = buf, !.stale = FALSE]
           net == ReadFrom(e, n)
           parsed == Parsed(got, eligible)
           units == SubSeq(buf, FirstOf("blank", buf) + 1, Len(buf))
<1>1. At(s) /\ c.state = "HEADERS" /\ ~c.aborted /\ n \in 1..Len(w)
  BY DEF PollHeaders, Polling
<1>2. \/ hctx_fail(s, FALSE)
      \/ /\ SlotBecomes(s, got, After(s)) /\ ostls' = net /\ https_pool' = https_pool
      \/ /\ Has("blank", buf) /\ parsed.redirected
         /\ Notify(s, parsed) /\ ostls' = net /\ https_pool' = https_pool
      \/ /\ Has("blank", buf)
         /\ FeedBody(s, parsed, units, net) \/ (Unheard(s, parsed, units) /\ ostls' = net)
  BY DEF PollHeaders
<1>3. InUse(s) /\ s # callback BY <1>1, HttpsSlotAssumption DEF InUse, At, Slots
<1>4. SlotOK(c) /\ c \in Slot BY <1>3, SlotOwner DEF SlotOK
<1>5. e \in Conns BY <1>1, <1>4 DEF SlotOK, OnWire, Slot
<1>6. AnswerOK(c) /\ WireOK(c, w) BY <1>1, <1>3 DEF NetInv, WiresOK, Wired, OnWire
<1>7. w \in Seq(Unit) /\ Len(w) \in Nat BY <1>5, LenProperties DEF NetInv, NetTyped, Conn
<1>8. n \in 0..Len(w) BY <1>1, <1>7
<1>9. /\ net \in [Conns -> Conn] /\ net[e].wire = rest
      /\ net[e].open = ostls[e].open
      /\ \A x \in Conns : x # e => net[x] = ostls[x]
  BY <1>5, <1>8, ReadNet
<1> HIDE DEF net, buf, rest
<1>10. /\ c.body = <<>>
       /\ buf \in Seq(Unit) /\ rest \in Seq(Unit) /\ Len(buf) \in Nat
       /\ \E shape \in Shapes : /\ Part(buf, c.parent, shape, 0)
                                /\ Part(rest, c.parent, shape, Len(buf))
  BY <1>1, <1>4, <1>6, <1>7, <1>8, HeaderRead DEF buf, rest
<1>11. PICK shape \in Shapes : Part(buf, c.parent, shape, 0) /\ Part(rest, c.parent, shape, Len(buf))
  BY <1>10
<1>12. got \in Slot BY <1>4, <1>10 DEF Slot
<1>13. /\ got.state = c.state /\ got.parent = c.parent /\ got.conn = c.conn
       /\ got.corrupt = c.corrupt /\ got.retries = c.retries /\ got.sent = c.sent
       /\ got.hdr_buf = buf /\ got.body = c.body /\ got.started = c.started /\ got.aborted = c.aborted
  BY <1>4, <1>10 DEF Slot
<1> HIDE DEF got
<1>14. SlotOK(got) BY <1>1, <1>4, <1>12, <1>13 DEF SlotOK
<1>15. shape \in Shape BY HttpsShapeAssumption
<1>16. CASE hctx_fail(s, FALSE)
  BY <1>1, <1>3, <1>16, FailKeeps
<1>17. CASE SlotBecomes(s, got, After(s)) /\ ostls' = net /\ https_pool' = https_pool
  <2>1. AnswerOK(got)
    <3>1. ASSUME NEW i \in DOMAIN buf PROVE buf[i].req = c.parent
      <4>1. buf[i] = UnitAt(c.parent, shape, 0 + i) BY <1>11 DEF Part
      <4>2. i \in 1..Len(buf) BY <1>10, LenProperties
      <4>3. 0 + i \in Nat BY <1>10, <4>2
      <4> QED BY <1>15, <4>1, <4>3, UnitParts
    <3> QED BY <1>10, <1>13, <3>1 DEF AnswerOK
  <2>2. WireOK(got, ostls'[got.conn].wire)
    BY <1>1, <1>9, <1>10, <1>11, <1>13, <1>17 DEF WireOK
  <2>3. /\ got.parent = https_slots[s].parent /\ (got.aborted <=> https_slots[s].aborted)
        /\ (got.started <=> https_slots[s].started) /\ got.conn = https_slots[s].conn
        /\ Handing(https_slots[s]) => Handing(got)
    BY <1>1, <1>13 DEF Handing
  <2>4. /\ ostls' \in [Conns -> Conn]
        /\ \A x \in Conns : ostls'[x].open = ostls[x].open
        /\ \A x \in Conns : x # got.conn => ostls'[x].wire = ostls[x].wire
    BY <1>9, <1>13, <1>17
  <2> QED BY <1>1, <1>3, <1>14, <1>17, <2>1, <2>2, <2>3, <2>4, AfterSlot, GoesOn
<1>18. ASSUME Has("blank", buf)
       PROVE  /\ SlotOK(parsed) /\ AnswerOK(parsed) /\ parsed.state = "HEADERS" /\ parsed.shape = shape
              /\ parsed.body = <<>> /\ parsed.parent = c.parent /\ parsed.conn = e
              /\ (parsed.started <=> c.started) /\ (parsed.aborted <=> c.aborted)
              /\ parsed.chunked => shape.framing = "chunked"
  <2>1. got.state = "HEADERS" /\ got.body = <<>> /\ Part(got.hdr_buf, got.parent, shape, 0) /\ Has("blank", got.hdr_buf)
    BY <1>1, <1>10, <1>11, <1>13, <1>18
  <2> HIDE DEF parsed
  <2>2. parsed = Parsed(got, eligible) BY DEF parsed
  <2>3. /\ SlotOK(parsed) /\ AnswerOK(parsed) /\ parsed.state = "HEADERS" /\ parsed.shape = shape
        /\ parsed.body = <<>> /\ parsed.parent = got.parent /\ parsed.conn = got.conn
        /\ (parsed.started <=> got.started) /\ (parsed.aborted <=> got.aborted)
        /\ parsed.chunked => shape.framing = "chunked"
    BY <1>14, <2>1, <2>2, ParsedSlot
  <2> QED BY <1>13, <2>3
<1> HIDE DEF parsed
<1>19. CASE Has("blank", buf) /\ Notify(s, parsed) /\ ostls' = net /\ https_pool' = https_pool
  <2>1. /\ SlotOK(parsed) /\ parsed.parent = https_slots[s].parent
        /\ (parsed.started <=> https_slots[s].started)
        /\ parsed.redirected => ~https_slots[s].aborted
    BY <1>1, <1>18, <1>19
  <2>2. /\ HttpsInv' /\ CoreNext /\ callback' = s
        /\ https_slots'[s].state = parsed.state /\ https_slots'[s].conn = parsed.conn
        /\ AnswerOK(parsed) => AnswerOK(https_slots'[s])
        /\ \A r \in Slots : r # s => https_slots'[r] = https_slots[r]
    BY <1>1, <1>3, <1>19, <2>1, ReportedKeeps
  <2>3. /\ InUse(s)' /\ https_slots'[s].conn = https_slots[s].conn /\ AnswerOK(https_slots'[s])
    BY <1>18, <1>19, <2>2 DEF InUse
  <2>4. UNCHANGED <<https_pool, disk>> BY <1>19 DEF Notify
  <2>5. /\ ostls' \in [Conns -> Conn]
        /\ \A x \in Conns : ostls'[x].open = ostls[x].open
        /\ \A x \in Conns : x # https_slots[s].conn => ostls'[x].wire = ostls[x].wire
    BY <1>9, <1>19
  <2>6. NetInv' BY <1>1, <1>3, <2>2, <2>3, <2>4, <2>5, ReportNet
  <2>7. Forward BY <1>1, <2>2, ForwardSlot DEF Handing
  <2> QED BY <2>2, <2>6, <2>7 DEF StepOK
<1>20. CASE /\ Has("blank", buf)
            /\ FeedBody(s, parsed, units, net) \/ (Unheard(s, parsed, units) /\ ostls' = net)
  <2>1. FirstOf("blank", buf) = 2 /\ 2 \in 0..Len(buf)
    BY <1>10, <1>11, <1>15, <1>20, HeaderEnd
  <2>2. units = SubSeq(buf, 2 + 1, Len(buf)) BY <2>1
  <2>3. /\ units \in Seq(Unit) /\ Len(units) = Len(buf) - 2 /\ Part(units, c.parent, shape, 0 + 2)
    <3> DEFINE p == 0
               k == 2
    <3>1. p \in Nat /\ k \in 0..Len(buf) /\ Part(buf, c.parent, shape, p) BY <1>11, <2>1
    <3>2. units = SubSeq(buf, k + 1, Len(buf)) BY <2>2
    <3> HIDE DEF p, k, units
    <3>3. /\ units \in Seq(Unit) /\ Len(units) = Len(buf) - k /\ Part(units, c.parent, shape, p + k)
      BY <1>10, <1>15, <3>1, <3>2, PartCut
    <3> QED BY <3>3 DEF p, k
  <2> HIDE DEF units
  <2>4. Part(<<>>, c.parent, shape, 2) BY <1>15 DEF Part, Units, Shape
  <2>5. /\ Len(parsed.body) = 0 /\ parsed.parent = c.parent /\ parsed.shape = shape
    BY <1>18, <1>20
  <2>6. 2 + Len(parsed.body) = 0 + 2 /\ 2 + Len(parsed.body) + Len(units) = Len(buf)
    BY <1>10, <2>3, <2>5
  <2>7. /\ Part(parsed.body, parsed.parent, parsed.shape, 2)
        /\ Part(units, parsed.parent, parsed.shape, 2 + Len(parsed.body))
        /\ Part(net[parsed.conn].wire, parsed.parent, parsed.shape, 2 + Len(parsed.body) + Len(units))
    BY <1>9, <1>11, <1>18, <1>20, <2>3, <2>4, <2>6
  <2>8. parsed.chunked => parsed.shape.framing = "chunked" /\ Len(parsed.body) <= parsed.shape.len
    BY <1>15, <1>18, <1>20 DEF Shape
  <2>9. /\ SlotOK(parsed) /\ AnswerOK(parsed) /\ parsed.state = "HEADERS" /\ parsed.conn # NoConn
        /\ parsed.parent = https_slots[s].parent /\ parsed.conn = https_slots[s].conn
        /\ (parsed.aborted <=> https_slots[s].aborted) /\ (parsed.started <=> https_slots[s].started)
        /\ parsed.shape \in Shapes
        /\ \A x \in Conns : x # parsed.conn => net[x] = ostls[x]
        /\ net[parsed.conn].open = ostls[parsed.conn].open
    BY <1>5, <1>9, <1>18, <1>20, HttpsNoneAssumption
  <2>10. CASE FeedBody(s, parsed, units, net)
    BY <1>1, <1>3, <1>9, <2>3, <2>7, <2>8, <2>9, <2>10, FeedKeeps, ZenonT(60)
  <2>11. CASE Unheard(s, parsed, units) /\ ostls' = net
    <3>1. Owes(parsed, units, net[parsed.conn].wire) BY <2>7, <2>8, <2>9 DEF Owes
    <3>2. /\ \A x \in Conns : x # parsed.conn => net[x].wire = ostls[x].wire
          /\ \A x \in Conns : net[x].open = ostls[x].open
      BY <2>9
    <3> QED BY <1>1, <1>3, <1>9, <2>3, <2>9, <2>11, <3>1, <3>2, UnheardKeeps
  <2> QED BY <1>20, <2>10, <2>11
<1> QED BY <1>2, <1>16, <1>17, <1>19, <1>20

(* A cut body is handed on: what was read is not cached, and the           *)
(* connection goes with it.                                                *)
LEMMA SalvageKeeps ==
    ASSUME CoreIInv, HttpsInv, NetInv, NEW s \in Slots, At(s), InUse(s),
           NEW unseen, hctx_finish(s, Salvaged(https_slots[s]), ostls, unseen)
    PROVE  StepOK
<1> DEFINE c == https_slots[s]
           d == Salvaged(c)
<1>1. c \in Slot BY SlotOwner DEF SlotOK
<1>2. d.parent = c.parent /\ d.conn = c.conn /\ d.cache_eligible = FALSE /\ d.keep_alive_ok = FALSE
  BY <1>1 DEF Slot, Salvaged
<1>3. hctx_finish(s, d, ostls, unseen) OBVIOUS
<1> HIDE DEF d
<1>4. ~Poolable(d) /\ ostls \in [Conns -> Conn]
  BY <1>2 DEF Poolable, NetInv, NetTyped
<1>5. /\ \A e \in Conns : e # d.conn => ostls[e] = ostls[e]
      /\ d.conn # NoConn => ostls[d.conn].open = ostls[d.conn].open
      /\ Poolable(d) => ostls[d.conn].wire = <<>>
      /\ d.cache_eligible /\ d.body # <<>> => Worth(d) \in {"whole", "unknown"}
  BY <1>2, <1>4
<1> QED BY <1>2, <1>3, <1>4, <1>5, FinishKeeps

LEMMA ClosedInBodyKeeps ==
    ASSUME CoreIInv, HttpsInv, NetInv, NEW s \in Slots, PollClosedInBody(s)
    PROVE  StepOK
<1> DEFINE c == https_slots[s]
           byClose == c.shape.framing # "length" /\ ~c.chunked
<1>1. /\ At(s) /\ c.state = "BODY" /\ ostls[c.conn].wire = <<>>
      /\ \/ byClose /\ hctx_finish(s, c, ostls, FALSE)
         \/ hctx_finish(s, Salvaged(c), ostls, FALSE)
         \/ hctx_fail(s, FALSE)
  BY DEF PollClosedInBody, Polling
<1>2. InUse(s) BY <1>1 DEF InUse
<1>3. CASE hctx_fail(s, FALSE) BY <1>1, <1>2, <1>3, FailKeeps
<1>4. CASE hctx_finish(s, Salvaged(c), ostls, FALSE) BY <1>1, <1>2, <1>4, SalvageKeeps
<1>5. CASE byClose /\ hctx_finish(s, c, ostls, FALSE)
  <2>1. Worth(c) \in {"whole", "unknown"} BY <1>5 DEF Worth
  <2>2. ostls \in [Conns -> Conn] BY DEF NetInv, NetTyped
  <2> HIDE DEF byClose
  <2> QED BY <1>1, <1>2, <1>5, <2>1, <2>2, FinishKeeps
<1> QED BY <1>1, <1>3, <1>4, <1>5

LEMMA TimeoutKeeps ==
    ASSUME CoreIInv, HttpsInv, NetInv, NEW s \in Slots, PollTimeout(s)
    PROVE  StepOK
<1>1. /\ At(s) /\ InUse(s)
      /\ \/ \E unseen \in BOOLEAN : hctx_finish(s, Salvaged(https_slots[s]), ostls, unseen)
         \/ hctx_fail(s, FALSE)
  BY DEF PollTimeout, Polling, OnWire, InUse
<1> QED BY <1>1, SalvageKeeps, FailKeeps

-----------------------------------------------------------------------------
(* The theorems.                                                           *)

LEMMA HttpsInitInv == Init => HttpsInv /\ NetInv
<1> SUFFICES ASSUME Init PROVE HttpsInv /\ NetInv
  OBVIOUS
<1>1. /\ https_slots = [s \in Slots |-> Idle] /\ \A s \in Slots : https_slots[s] = Idle
      /\ fetcher_handle = [f \in Fetches |-> NoSlot] /\ cursor = NoSlot /\ callback = NoSlot
      /\ \A f \in Fetches : fetch[f].life = "none"
  BY DEF Init, CoreInit
<1>2. \A s \in Slots : ~InUse(s) /\ ConnOf(s) = NoConn
  BY <1>1 DEF InUse, ConnOf, Idle
<1>3. HttpsInv
  <2>1. SlotsTyped BY <1>1 DEF SlotsTyped
  <2>2. SlotsServeDispatched BY <1>1, <1>2 DEF SlotsServeDispatched
  <2> QED BY <1>1, <1>2, <2>1, <2>2 DEF HttpsInv, SlotsOK, StartedActive, HeardInv, CallbackInv
<1>4. https_pool = <<>> \/ \E e \in Conns : https_pool = <<e>>
  BY DEF Init
<1>5. /\ https_pool \in Seq(Conns) /\ Distinct(https_pool) /\ Len(https_pool) <= HTTPS_POOL_SIZE
      /\ \A e \in Conns : Holds(https_pool, e) <=> https_pool = <<e>>
  <2>1. CASE https_pool = <<>> BY <2>1, HttpsPoolAssumption DEF Distinct, Holds
  <2>2. CASE \E e \in Conns : https_pool = <<e>> BY <2>2, HttpsPoolAssumption DEF Distinct, Holds
  <2> QED BY <1>4, <2>1, <2>2
<1>6. ASSUME NEW e \in Conns
      PROVE  /\ ostls[e] \in Conn /\ ostls[e].wire = <<>>
             /\ ostls[e].open <=> https_pool = <<e>>
  <2>1. /\ ClosedConn \in Conn /\ ClosedConn.wire = <<>> /\ ClosedConn.open = FALSE
    BY DEF ClosedConn, Conn
  <2> DEFINE d == [ClosedConn EXCEPT !.open = TRUE, !.key = Elsewhere]
  <2>2. d \in Conn /\ d.wire = <<>> /\ d.open = TRUE BY <2>1 DEF Conn
  <2>3. ostls[e] = IF https_pool = <<e>> THEN d ELSE ClosedConn BY DEF Init
  <2> HIDE DEF d
  <2> QED BY <2>1, <2>2, <2>3
<1>7. NetTyped
  <2>1. ostls = [e \in Conns |-> ostls[e]] BY DEF Init
  <2>2. disk \in [Urls -> {"none", "whole", "unknown", "part"}] BY DEF Init
  <2> QED BY <1>5, <1>6, <2>1, <2>2 DEF NetTyped
<1>8. Owned BY <1>2, <1>5, <1>6, HttpsNoneAssumption DEF Owned
<1>9. PoolClean BY <1>5, <1>6 DEF PoolClean
<1>10. WiresOK BY <1>2 DEF WiresOK
<1>11. SalvageNeverCached BY DEF Init, SalvageNeverCached
<1> QED BY <1>3, <1>7, <1>8, <1>9, <1>10, <1>11 DEF NetInv

(* Every step of the fetcher keeps the invariant and is a step of fetch.c. *)
LEMMA HttpsStep == IInv /\ [Next]_vars => StepOK
<1> SUFFICES ASSUME CoreIInv, HttpsInv, NetInv, [Next]_vars PROVE StepOK
  BY DEF IInv
<1>1. ASSUME NEW i \in DOMAIN queue_ring, HttpsDispatch(i) PROVE StepOK
  BY <1>1, DispatchKeeps DEF HttpsDispatch, CoreNext, StepOK
<1>2. ASSUME NEW s \in Slots, PollStep(s) PROVE StepOK
  <2>1. CASE \E i \in DOMAIN https_pool : PoolDiscard(s, i) \/ PollReuse(s, i)
    BY <2>1, DiscardKeeps, ReuseKeeps
  <2>2. CASE \E e \in Conns : PollConnect(s, e) BY <2>2, ConnectKeeps
  <2>3. CASE \E shape \in Shapes : PollWrite(s, shape) BY <2>3, WriteKeeps
  <2>4. CASE \E n \in 1..HDR_BUF_MAX + 1, eligible \in BOOLEAN : PollHeaders(s, n, eligible)
    BY <2>4, HeadersKeeps
  <2>5. CASE \E n \in 1..HDR_BUF_MAX + 1 : PollBody(s, n) \/ PollBodyUnheard(s, n)
    BY <2>5, BodyKeeps
  <2>6. CASE PollSkip(s) \/ PollAborted(s) \/ PollCacheHit(s) \/ PollOpenFails(s) \/ PollBroken(s)
    BY <2>6, SkipKeeps, FailSteps, CacheHitKeeps
  <2>7. CASE PollHandshakeFails(s) \/ PollHandshake(s) \/ PollQuiet(s) \/ PollClosedEarly(s)
    BY <2>7, RetrySteps, HandshakeKeeps, QuietKeeps
  <2>8. CASE PollClosedInBody(s) \/ PollTimeout(s) \/ Release(s)
    BY <2>8, ClosedInBodyKeeps, TimeoutKeeps, ReleaseStep
  <2>9. CASE PollCacheHitUnheard(s) \/ ReadOn(s)
    BY <2>9, CacheHitUnheardKeeps, ReadOnKeeps
  <2> QED BY <1>2, <2>1, <2>2, <2>3, <2>4, <2>5, <2>6, <2>7, <2>8, <2>9 DEF PollStep
<1>3. CASE \/ HttpsDispatchReturns \/ HttpsPump \/ HttpsFetcherPoll \/ HttpsPollsDone
           \/ \E f \in Fetches : HttpsRefuse(f)
  <2>1. https_slots' = https_slots
    BY <1>3 DEF HttpsDispatchReturns, HttpsPump, HttpsFetcherPoll, HttpsPollsDone, HttpsRefuse, httpsVars
  <2>2. Forward BY <2>1 DEF Forward
  <2> QED BY <1>3, <2>2, LoopKeeps DEF StepOK
<1>4. CASE LoopStep
  BY <1>1, <1>2, <1>3, <1>4 DEF LoopStep
<1>5. CASE ClientStep
  <2>1. ASSUME NEW f \in Fetches, HttpsAbort(f) PROVE StepOK
    BY <2>1, AbortKeeps DEF HttpsAbort, CoreNext, StepOK
  <2>2. ASSUME NEW f \in Fetches, NEW hit \in BOOLEAN, HttpsStart(f, hit) PROVE StepOK
    <3>1. Forward
      <4>1. PICK s \in Slots, new \in Slot : ~InUse(s) /\ https_slots' = [https_slots EXCEPT ![s] = new]
        BY <2>2, SetupSlot
      <4>2. \A r \in Slots : r # s => https_slots'[r] = https_slots[r]
        BY <4>1 DEF HttpsInv, SlotsTyped
      <4> QED BY <4>1, <4>2 DEF Forward
    <3>2. CoreNext BY <2>2 DEF HttpsStart, CoreNext
    <3> QED BY <2>2, <3>1, <3>2, StartKeeps, StartNet DEF StepOK
  <2> QED BY <1>3, <1>5, <2>1, <2>2 DEF ClientStep
<1>6. CASE OutsideStep
  <2>1. ASSUME NEW e \in Conns, NEW n \in 0..Len(ostls[e].wire), PeerClose(e, n) PROVE StepOK
    <3>1. Forward BY <2>1 DEF PeerClose, Forward
    <3> QED BY <2>1, <3>1, PeerCloseKeeps DEF StepOK
  <2>2. ASSUME NEW s \in Slots, TimePasses(s) PROVE StepOK
    BY <2>2, TimeKeeps DEF StepOK
  <2> QED BY <1>6, <2>1, <2>2 DEF OutsideStep
<1>7. CASE UNCHANGED vars
  <2>1. /\ UNCHANGED coreVars /\ UNCHANGED <<https_slots, fetcher_handle, callback>>
        /\ UNCHANGED <<https_slots, netVars, disk, callback>> /\ cursor' = cursor /\ callback' = callback
    BY <1>7 DEF vars, httpsVars
  <2>2. /\ UNCHANGED <<fetch, told, client, caller, poller>>
        /\ cursor' \in Slots \cup {NoSlot}
        /\ callback' # NoSlot => poller' # "no" /\ cursor' = callback' /\ caller' \in {"no", "start"}
    BY <2>1, CoreStays
  <2>3. HttpsInv' BY <2>1, <2>2, StaysKeeps
  <2>4. NetInv' BY <2>1, NetUntouched
  <2>5. Forward BY <2>1 DEF Forward
  <2> QED BY <2>1, <2>3, <2>4, <2>5 DEF StepOK
<1> QED BY <1>4, <1>5, <1>6, <1>7 DEF Next

(* The invariants of fetch.c and of the fetcher hold together.             *)
THEOREM HttpsSpecInv == Spec => []IInv
<1>1. Init => IInv
  BY CoreInitIInv, HttpsInitInv DEF Init, IInv
<1>2. IInv /\ [Next]_vars => IInv'
  BY HttpsStep, CoreStepIInv DEF IInv, StepOK
<1> QED BY <1>1, <1>2, PTL DEF Spec

(* macos9_https_fetcher.c implements what fetch.c expects of a fetcher:    *)
(* every step is one FetchCore.tla allows.                                 *)
THEOREM HttpsImplementsFetchCore == Spec => ImplementsFetchCore
<1>1. Init => CoreInit
  BY DEF Init
<1>2. IInv /\ [Next]_vars => [CoreNext]_coreVars
  BY HttpsStep DEF StepOK
<1> QED BY <1>1, <1>2, HttpsSpecInv, PTL DEF Spec, ImplementsFetchCore, CoreSpec

(* What is proved of fetch.c holds of it with this fetcher.                *)
THEOREM HttpsKeepsFetchCore ==
    Spec => [](RingsAgree /\ CapsRespected /\ PollChainAlive /\ OneEnding) /\ HostOrder
  BY HttpsImplementsFetchCore, CoreSpecRings, CoreSpecCaps, CoreSpecPollChain, CoreSpecOneEnding,
     CoreSpecHostOrder, PTL DEF ImplementsFetchCore

(* Slots and fetches agree, and only a fetch that fetch.c has dispatched   *)
(* holds a connection (fixes232a).                                         *)
THEOREM HttpsSlotsServe == Spec => []SlotsServeDispatched
<1>1. IInv => SlotsServeDispatched BY DEF IInv, HttpsInv
<1> QED BY <1>1, HttpsSpecInv, PTL

(* Every open connection has exactly one owner, a slot or a pool entry,    *)
(* the pool keeps to its size, and no request is sent too often.           *)
THEOREM HttpsConnsSound == Spec => []ConnsSound
<1>1. IInv => ConnsSound
  <2> SUFFICES ASSUME IInv PROVE ConnsSound
    OBVIOUS
  <2>1. HttpsTypeOK
    BY DEF IInv, CoreIInv, HttpsInv, NetInv, SlotsTyped, NetTyped, HttpsTypeOK, Conn
  <2>2. RequestsBounded
    <3> SUFFICES ASSUME NEW s \in Slots, InUse(s) PROVE https_slots[s].sent <= 1 + HTTPS_MAX_RETRIES
      BY DEF RequestsBounded
    <3>1. SlotOK(https_slots[s]) BY SlotOwner DEF IInv
    <3> QED BY <3>1, HttpsRetryAssumption DEF SlotOK, Slot
  <2>3. ASSUME NEW e \in Conns
        PROVE  Cardinality({s \in Slots : InUse(s) /\ https_slots[s].conn = e})
                  + Cardinality({i \in DOMAIN https_pool : https_pool[i] = e})
               = IF ostls[e].open THEN 1 ELSE 0
    <3> DEFINE holders == {s \in Slots : InUse(s) /\ https_slots[s].conn = e}
               entries == {i \in DOMAIN https_pool : https_pool[i] = e}
    <3>1. \A s \in Slots : s \in holders <=> ConnOf(s) = e
      BY HttpsNoneAssumption DEF ConnOf
    <3>2. /\ Distinct(https_pool)
          /\ ostls[e].open <=> Holds(https_pool, e) \/ \E s \in Slots : ConnOf(s) = e
          /\ \A s \in Slots : ConnOf(s) = e => ~Holds(https_pool, e)
          /\ \A r, s \in Slots : ConnOf(s) = e /\ ConnOf(r) = e => r = s
      BY HttpsNoneAssumption DEF IInv, NetInv, Owned
    <3>3. entries = {} <=> ~Holds(https_pool, e) BY DEF Holds
    <3>4. \A i, j \in entries : i = j BY <3>2 DEF Distinct
    <3>5. Cardinality({}) = 0 BY FS_EmptySet
    <3>6. \A x : Cardinality({x}) = 1 BY FS_Singleton
    <3>7. Cardinality(holders) = IF holders = {} THEN 0 ELSE 1
      <4>1. CASE holders = {} BY <4>1, <3>5
      <4>2. CASE holders # {}
        <5>1. PICK s \in holders : TRUE BY <4>2
        <5>2. holders = {s} BY <3>1, <3>2
        <5> QED BY <4>2, <5>2, <3>6
      <4> QED BY <4>1, <4>2
    <3>8. Cardinality(entries) = IF entries = {} THEN 0 ELSE 1
      <4>1. CASE entries = {} BY <4>1, <3>5
      <4>2. CASE entries # {}
        <5>1. PICK i \in entries : TRUE BY <4>2
        <5>2. entries = {i} BY <3>4
        <5> QED BY <4>2, <5>2, <3>6
      <4> QED BY <4>1, <4>2
    <3>9. holders = {} <=> ~\E s \in Slots : ConnOf(s) = e BY <3>1
    <3> HIDE DEF holders, entries
    <3>10. Cardinality(holders) + Cardinality(entries) = IF ostls[e].open THEN 1 ELSE 0
      BY <3>2, <3>3, <3>7, <3>8, <3>9
    <3> QED BY <3>10 DEF holders, entries
  <2>4. ConnsOwned BY <2>3 DEF ConnsOwned, IInv, NetInv, PoolClean
  <2> QED BY <2>1, <2>2, <2>4 DEF ConnsSound
<1> QED BY <1>1, HttpsSpecInv, PTL

(* Header and body handed on answer the fetch's own request, over pooled   *)
(* connections too, and a cut body is never cached (fixes243).             *)
THEOREM HttpsAnswersSound == Spec => []AnswersSound
<1>1. IInv => AnswersSound
  BY DEF IInv, NetInv, WiresOK, AnswerOK, AnswersSound, OwnAnswer
<1> QED BY <1>1, HttpsSpecInv, PTL

(* A redirect is only sent to a client that still waits (fixes314), but    *)
(* for the server's own in the read in which llcache ran out of memory.    *)
THEOREM HttpsRedirectHeard == Spec => []RedirectHeard
<1>1. IInv => RedirectHeard
  BY DEF IInv, HttpsInv, SlotsTyped, HeardInv, CallbackInv, RedirectHeard
<1> QED BY <1>1, HttpsSpecInv, PTL

(* A fetch whose header llcache has heard is never tried again.            *)
THEOREM HttpsNothingRepeated == Spec => NothingRepeated
<1>1. IInv /\ [Next]_vars => [Forward]_vars
  BY HttpsStep DEF StepOK
<1>2. NothingRepeated <=> [][Forward]_vars
  BY DEF NothingRepeated, Forward
<1> QED BY <1>1, <1>2, HttpsSpecInv, PTL DEF Spec

=============================================================================
