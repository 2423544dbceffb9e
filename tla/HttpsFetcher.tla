---------------------------- MODULE HttpsFetcher ----------------------------
(***************************************************************************)
(* frontends/macos9/macos9_https_fetcher.c on top of content/fetch.c: the  *)
(* https scheme's fetch slots, their poll loop with its retries and its    *)
(* salvage of cut bodies, the keep-alive pool of TLS connections, and the  *)
(* server on the other end.                                                *)
(*                                                                         *)
(* One hctx_poll of one slot is one step, or a run of steps while cursor   *)
(* stays at the slot: the handshake, the write and the read of one poll.   *)
(* As in HttpFetcher.tla, FETCH_ERROR and FETCH_REDIRECT let the client    *)
(* run (callback # NoSlot) before the fetch is released.                   *)
(*                                                                         *)
(* Abstractions: a response is its first header unit, the unit that ends   *)
(* the header, body units and, if chunked, an end unit, each tagged with   *)
(* the request it answers; reads cut the stream anywhere between units.    *)
(* The OSTLS library is external: an open connection may break, and a      *)
(* closed one is noticed, at any poll.  The 240-tick no-progress timeout   *)
(* is the flag `stale', the pool's TTL may have run out at any take.       *)
(* Whether the host is on the dead-host list, and whether http was already *)
(* tried for it, are left open (SchemeFallback.tla has the tables).        *)
(***************************************************************************)
EXTENDS FetchCore

CONSTANTS
    MAX_HTTPS_F,        \* fetch slots
    HTTPS_POOL_SIZE,    \* capacity of https_pool
    HTTPS_MAX_RETRIES,  \* attempts beyond the first
    HDR_BUF_MAX,        \* units the header buffer holds
    SALVAGE_MIN,        \* body units from which a cut body is delivered (512 bytes)
    Conns,              \* OSTLS connections
    UrlOf,              \* the URL of each fetch
    Posts,              \* the fetches that carry a POST body
    Shapes,             \* what responses look like: [framing, len, close, marked]
    ClientErrors,       \* llcache may run out of memory on a header or on data
    Elsewhere,          \* a host none of the fetches goes to
    NoSlot, NoConn, NoShape

ASSUME HttpsSlotAssumption == MAX_HTTPS_F \in Nat \ {0} /\ NoSlot = 0
ASSUME HttpsPoolAssumption == HTTPS_POOL_SIZE \in Nat \ {0}
ASSUME HttpsNoneAssumption == NoConn \notin Conns /\ NoShape \notin Shapes
ASSUME HttpsRetryAssumption == HTTPS_MAX_RETRIES \in Nat

VARIABLES
    https_slots,     \* the slot array
    fetcher_handle,  \* the slot each fetch was given by setup
    ostls,           \* the connections: [open, key, wire, closed]
    https_pool,      \* pooled connections, oldest first
    disk,            \* per URL, what the disk cache holds
    cursor,          \* the slot macos9_https_poll is at
    callback         \* the slot whose FETCH_ERROR or FETCH_REDIRECT is being heard

netVars == <<ostls, https_pool>>
httpsVars == <<https_slots, fetcher_handle, netVars, disk, cursor, callback>>
vars == <<coreVars, httpsVars>>

Slots == 1..MAX_HTTPS_F
Urls == {UrlOf[f] : f \in Fetches}

(* marked: a chunked response carries a Transfer-Encoding header that the  *)
(* header scan finds.                                                      *)
Shape == [framing : {"length", "chunked", "plain", "redirect"}, len : Nat,
          close : BOOLEAN, marked : BOOLEAN]
ASSUME HttpsShapeAssumption == Shapes \subseteq Shape

Unit == [req : Fetches, part : {"head", "blank", "data", "end"}, shape : Shape]

Slot == [state : {"IDLE", "QUEUED", "CACHEHIT", "TLSING", "SEND_REQ", "HEADERS", "BODY", "UNHEARD", "FAIL"},
         parent : Fetches,
         aborted : BOOLEAN,
         started : BOOLEAN,
         conn : Conns \cup {NoConn},
         retries : 0..HTTPS_MAX_RETRIES,
         sent : Nat,                    \* how often the request went out
         keep_alive_ok : BOOLEAN,
         hdr_buf : Seq(Unit),
         shape : Shape \cup {NoShape},  \* what the parsed header said
         chunked : BOOLEAN,             \* the chunk decoder is in use
         body : Seq(Unit),              \* sent as FETCH_DATA, and captured
         cache_eligible : BOOLEAN,
         redirected : BOOLEAN,          \* the finishing message is FETCH_REDIRECT
         corrupt : BOOLEAN,             \* feed_body failed the fetch itself
         unfed : Seq(Unit),             \* in "UNHEARD": read, and still to be fed
         stale : BOOLEAN]               \* more than NO_PROGRESS_TICKS without progress

(* The slot as setup leaves it for fetch f.                                *)
Fresh(f) ==
    [state |-> "QUEUED", parent |-> f, aborted |-> FALSE, started |-> FALSE, conn |-> NoConn,
     retries |-> 0, sent |-> 0, keep_alive_ok |-> f \notin Posts, hdr_buf |-> <<>>, shape |-> NoShape,
     chunked |-> FALSE, body |-> <<>>, cache_eligible |-> FALSE, redirected |-> FALSE,
     corrupt |-> FALSE, unfed |-> <<>>, stale |-> FALSE]

(* An idle slot: its fields are not read before setup clears them.         *)
Idle == [state |-> "IDLE"]

InUse(s) == https_slots[s].state # "IDLE"

ClosedConn == [open |-> FALSE, key |-> NoConn, wire |-> <<>>, closed |-> FALSE]

HttpsTypeOK ==
    /\ CoreTypeOK
    /\ https_slots \in [Slots -> Slot \cup {Idle}]
    /\ fetcher_handle \in [Fetches -> Slots \cup {NoSlot}]
    /\ ostls \in [Conns -> [open : BOOLEAN, key : {HostOf[f] : f \in Fetches} \cup {Elsewhere, NoConn},
                            wire : Seq(Unit), closed : BOOLEAN]]
    /\ https_pool \in Seq(Conns)
    /\ disk \in [Urls -> {"none", "whole", "unknown", "part"}]
    /\ cursor \in Slots \cup {NoSlot}
    /\ callback \in Slots \cup {NoSlot}

(* The disk cache may hold bodies of an earlier session, the pool a        *)
(* connection that earlier fetches left.                                   *)
Init ==
    /\ CoreInit
    /\ https_slots = [s \in Slots |-> Idle]
    /\ fetcher_handle = [f \in Fetches |-> NoSlot]
    /\ https_pool \in {<<>>} \cup {<<e>> : e \in Conns}
    /\ ostls = [e \in Conns |->
          IF https_pool = <<e>> THEN [ClosedConn EXCEPT !.open = TRUE, !.key = Elsewhere]
          ELSE ClosedConn]
    /\ disk \in [Urls -> {"none", "whole"}]
    /\ cursor = NoSlot
    /\ callback = NoSlot

-----------------------------------------------------------------------------
(* The client's side.                                                      *)

ClientTurn == caller = "no" /\ (poller = "no" \/ callback # NoSlot)

FirstIdle(s) == ~InUse(s) /\ \A r \in 1..(s - 1) : InUse(r)

(* macos9_https_setup accepts, called by fetch_start.  hit: the disk cache *)
(* has a fresh body, and the network will not be touched.                  *)
HttpsStart(f, hit) ==
    /\ ClientTurn
    /\ FetchStart(f)
    /\ hit => f \notin Posts /\ disk[UrlOf[f]] # "none"
    /\ \E s \in Slots :
          /\ FirstIdle(s)
          /\ https_slots' = [https_slots EXCEPT ![s] =
                IF hit THEN [Fresh(f) EXCEPT !.state = "CACHEHIT", !.keep_alive_ok = FALSE]
                       ELSE Fresh(f)]
          /\ fetcher_handle' = [fetcher_handle EXCEPT ![f] = s]
    /\ UNCHANGED <<netVars, disk, cursor, callback>>

(* macos9_https_setup returns NULL: no free slot, or no memory for the     *)
(* POST body.                                                              *)
HttpsRefuse(f) ==
    /\ ClientTurn
    /\ f \in Posts \/ \A s \in Slots : InUse(s)
    /\ FetchRefused(f)
    /\ UNCHANGED httpsVars

macos9_https_abort(s) == [https_slots EXCEPT ![s].aborted = TRUE]

HttpsAbort(f) ==
    /\ ClientTurn
    /\ FetchAbort(f)
    /\ https_slots' = macos9_https_abort(fetcher_handle[f])
    /\ UNCHANGED <<fetcher_handle, netVars, disk, cursor, callback>>

-----------------------------------------------------------------------------
(* Dispatch and the poll loop.                                             *)

macos9_https_start(s) == [https_slots EXCEPT ![s].started = TRUE, ![s].stale = FALSE]

HttpsDispatch(i) ==
    /\ DispatchJob(i)
    /\ https_slots' = macos9_https_start(fetcher_handle[queue_ring[i]])
    /\ UNCHANGED <<fetcher_handle, netVars, disk, cursor, callback>>

HttpsDispatchReturns ==
    /\ DispatchReturns
    /\ cursor' = IF caller # "start" /\ poller' # "no" THEN 1 ELSE cursor
    /\ UNCHANGED <<https_slots, fetcher_handle, netVars, disk, callback>>

HttpsPump == FetchPump /\ UNCHANGED httpsVars
HttpsFetcherPoll == FetcherPoll /\ UNCHANGED httpsVars
HttpsPollsDone == PollsDone /\ cursor = NoSlot /\ UNCHANGED httpsVars

(* macos9_https_poll is at slot s.                                         *)
At(s) == caller = "no" /\ poller # "no" /\ cursor = s /\ callback = NoSlot

After(s) == IF s = MAX_HTTPS_F THEN NoSlot ELSE s + 1

(* hctx_poll goes past the abort check.                                    *)
Polling(s, states) ==
    At(s) /\ https_slots[s].state \in states /\ ~https_slots[s].aborted

OnWire == {"TLSING", "SEND_REQ", "HEADERS", "BODY"}

(* The slot changes, its fetch does not end; next: where the loop goes on. *)
SlotBecomes(s, new, next) ==
    /\ https_slots' = [https_slots EXCEPT ![s] = new]
    /\ cursor' = next
    /\ UNCHANGED <<coreVars, fetcher_handle, disk, callback>>

(* Mutant: the slot's state is left alone, so the next poll reports again. *)
NotifyUnmarked(s, new) ==
    /\ SendFinishing(new.parent)
    /\ cursor' = After(s)
    /\ UNCHANGED <<ringVars, loopVars, https_slots, fetcher_handle, disk, callback>>

(* A finishing message whose callback may re-enter.  llcache answers a     *)
(* redirect with fetch_abort.                                              *)
Notify(s, new) ==
    /\ SendFinishing(new.parent)
    /\ https_slots' = [https_slots EXCEPT ![s] = [new EXCEPT !.aborted = @ \/ new.redirected]]
    /\ callback' = s
    /\ UNCHANGED <<ringVars, loopVars, fetcher_handle, disk, cursor>>

(* Mutant: an aborted fetch may still fall back to http. *)
MayFallBackAborted(s) == {TRUE, FALSE}

(* Whether hctx_fail sends the client to http: not after an abort          *)
(* (fixes314); else it depends on whether http was tried already.          *)
MayFallBack(s) == IF https_slots[s].aborted THEN {FALSE} ELSE {TRUE, FALSE}

(* hctx_fail, up to the callback: FETCH_REDIRECT to http, or FETCH_ERROR.  *)
hctx_fail(s, corrupt) ==
    \E fallback \in MayFallBack(s) :
        /\ Notify(s, [https_slots[s] EXCEPT !.state = "FAIL", !.redirected = fallback,
                                            !.corrupt = corrupt])
        /\ UNCHANGED netVars

PollSkip(s) ==
    /\ At(s)
    /\ \/ ~InUse(s)
       \/ Polling(s, {"QUEUED"}) /\ ~https_slots[s].started
    /\ cursor' = After(s)
    /\ UNCHANGED <<coreVars, https_slots, fetcher_handle, netVars, disk, callback>>

PollAborted(s) ==
    /\ At(s) /\ InUse(s) /\ https_slots[s].aborted /\ https_slots[s].state # "UNHEARD"
    /\ hctx_fail(s, FALSE)

-----------------------------------------------------------------------------
(* Releasing a slot.                                                       *)

(* Mutant: keep_alive_ok is not asked. *)
PoolableAlways(c) == c.conn # NoConn /\ ~c.aborted

(* The connection of slot record c may serve another fetch.                *)
Poolable(c) == c.conn # NoConn /\ c.keep_alive_ok /\ ~c.aborted

(* Mutant: a full pool is not made room in. *)
ReturnedUnevicted(e) == Append(https_pool, e)

(* https_pool_return: a full pool gives up its oldest entry.               *)
Returned(e) ==
    Append(IF Len(https_pool) >= HTTPS_POOL_SIZE THEN Tail(https_pool) ELSE https_pool, e)

Evicted == IF Len(https_pool) >= HTTPS_POOL_SIZE THEN {Head(https_pool)} ELSE {}

(* OSTLS_Close and OSTLS_Dispose of some connections of net.               *)
Disposed(net, es) == [e \in Conns |-> IF e \in es THEN ClosedConn ELSE net[e]]

(* The connection of slot record c is pooled or closed.  A close that the  *)
(* library has not noticed (unseen) leaves its state Open.                 *)
PutAway(c, net, unseen) ==
    IF Poolable(c) /\ (~net[c.conn].closed \/ unseen)
    THEN https_pool' = Returned(c.conn) /\ ostls' = Disposed(net, Evicted)
    ELSE UNCHANGED https_pool /\ ostls' = Disposed(net, {c.conn})

(* hctx_clear, and the fetch letting go of the slot.                       *)
hctx_clear(s) ==
    /\ https_slots' = [https_slots EXCEPT ![s] = Idle]
    /\ fetcher_handle' = [fetcher_handle EXCEPT ![https_slots[s].parent] = NoSlot]
    /\ cursor' = After(s)

(* What a body of slot record c is worth in the disk cache.  A body that   *)
(* only the close ends cannot be told from a cut one.                      *)
Worth(c) ==
    LET whole == Len(c.body) = c.shape.len /\ \A i \in DOMAIN c.body : c.body[i].part = "data"
    IN  CASE whole -> "whole"
          [] ~whole /\ c.shape.framing # "length" /\ ~c.chunked -> "unknown"
          [] OTHER -> "part"

Stored(c) ==
    IF c.cache_eligible /\ c.body # <<>>
    THEN [disk EXCEPT ![UrlOf[c.parent]] = Worth(c)]
    ELSE disk

(* hctx_finish on slot record c, the connections being net.                *)
hctx_finish(s, c, net, unseen) ==
    /\ FinishAndFree(c.parent)
    /\ disk' = Stored(c)
    /\ PutAway(c, net, unseen)
    /\ hctx_clear(s)
    /\ UNCHANGED <<loopVars, callback>>

(* A FETCH_HEADER or FETCH_DATA for which llcache runs out of memory: it   *)
(* aborts the fetch from inside the callback and forgets it.  The poll     *)
(* goes on with slot record c and the units it still has to feed (ReadOn). *)
Unheard(s, c, units) ==
    /\ ClientErrors /\ FetchAbort(c.parent)
    /\ https_slots' = [https_slots EXCEPT ![s] =
          [c EXCEPT !.state = "UNHEARD", !.aborted = TRUE, !.unfed = units]]
    /\ UNCHANGED <<fetcher_handle, https_pool, disk, cursor, callback>>

(* The callback of a FETCH_ERROR or FETCH_REDIRECT has returned.           *)
Release(s) ==
    /\ caller = "no" /\ callback = s /\ ~https_slots[s].corrupt
    /\ RemoveAndFree(https_slots[s].parent)
    /\ ostls' = Disposed(ostls, {https_slots[s].conn})
    /\ hctx_clear(s)
    /\ callback' = NoSlot
    /\ UNCHANGED <<loopVars, https_pool, disk>>

-----------------------------------------------------------------------------
(* HS_CACHEHIT and HS_QUEUED.                                              *)

(* A cached body is served whether or not the fetch was dispatched yet.    *)
PollCacheHit(s) ==
    /\ Polling(s, {"CACHEHIT"})
    /\ hctx_finish(s, https_slots[s], ostls, FALSE)

PollCacheHitUnheard(s) ==
    /\ Polling(s, {"CACHEHIT"})
    /\ Unheard(s, https_slots[s], <<>>)
    /\ UNCHANGED ostls

(* Mutant: the slot does not wait for ops.start (before fixes232a). *)
OpeningEarly(s) == Polling(s, {"QUEUED"})

Opening(s) == Polling(s, {"QUEUED"}) /\ https_slots[s].started

Key(s) == HostOf[https_slots[s].parent]

(* The pooled connection https_pool_take looks at: the topmost of the key. *)
TopOfKey(s, i) ==
    /\ i \in DOMAIN https_pool
    /\ ostls[https_pool[i]].key = Key(s)
    /\ \A j \in DOMAIN https_pool : j > i => ostls[https_pool[j]].key # Key(s)

Compact(i) == SubSeq([https_pool EXCEPT ![i] = https_pool[Len(https_pool)]], 1, Len(https_pool) - 1)

(* https_pool_take drops an entry that is too old or whose close is seen.  *)
PoolDiscard(s, i) ==
    /\ Opening(s) /\ TopOfKey(s, i)
    /\ https_pool' = Compact(i)
    /\ ostls' = Disposed(ostls, {https_pool[i]})
    /\ UNCHANGED <<coreVars, https_slots, fetcher_handle, disk, cursor, callback>>

PollReuse(s, i) ==
    /\ Opening(s) /\ TopOfKey(s, i)
    /\ https_pool' = Compact(i)
    /\ SlotBecomes(s, [https_slots[s] EXCEPT !.state = "SEND_REQ", !.conn = https_pool[i],
                                             !.stale = FALSE], After(s))
    /\ UNCHANGED ostls

NonePooled(s) == \A i \in DOMAIN https_pool : ~TopOfKey(s, i)

(* OSTLS_New and OSTLS_Start.                                              *)
PollConnect(s, e) ==
    /\ Opening(s) /\ NonePooled(s)
    /\ ~ostls[e].open
    /\ ostls' = [ostls EXCEPT ![e] = [ClosedConn EXCEPT !.open = TRUE, !.key = Key(s)]]
    /\ SlotBecomes(s, [https_slots[s] EXCEPT !.state = "TLSING", !.conn = e, !.stale = FALSE],
                   After(s))
    /\ UNCHANGED https_pool

(* The host is on the dead-host list, or OSTLS_New or OSTLS_Start fails.   *)
PollOpenFails(s) == Opening(s) /\ hctx_fail(s, FALSE)

-----------------------------------------------------------------------------
(* A slot with a connection.                                               *)

(* OSTLS_Pump, OSTLS_Write or OSTLS_Read fails, the transport fails once   *)
(* the handshake is done, or memory runs out.                              *)
PollBroken(s) == Polling(s, OnWire) /\ hctx_fail(s, FALSE)

(* retries++ and hctx_reset_for_retry.                                     *)
ResetForRetry(c) ==
    [c EXCEPT !.state = "QUEUED", !.conn = NoConn, !.hdr_buf = <<>>, !.shape = NoShape,
              !.chunked = FALSE, !.body = <<>>, !.cache_eligible = FALSE, !.stale = FALSE,
              !.retries = @ + 1]

Retry(s) ==
    /\ ostls' = Disposed(ostls, {https_slots[s].conn})
    /\ SlotBecomes(s, ResetForRetry(https_slots[s]), After(s))
    /\ UNCHANGED https_pool

(* kOSTLSEventFailed during the handshake.                                 *)
PollHandshakeFails(s) ==
    /\ Polling(s, {"TLSING"})
    /\ IF https_slots[s].retries < HTTPS_MAX_RETRIES THEN Retry(s) ELSE hctx_fail(s, FALSE)

(* The handshake is done; the same poll goes on to write.                  *)
PollHandshake(s) ==
    /\ Polling(s, {"TLSING"})
    /\ ~ostls[https_slots[s].conn].closed
    /\ SlotBecomes(s, [https_slots[s] EXCEPT !.state = "SEND_REQ", !.stale = FALSE], s)
    /\ UNCHANGED netVars

(* What the server answers request f with.                                 *)
Response(f, shape) ==
    LET unit(part) == [req |-> f, part |-> part, shape |-> shape]
    IN  <<unit("head"), unit("blank")>> \o [n \in 1..shape.len |-> unit("data")]
           \o (IF shape.framing = "chunked" THEN <<unit("end")>> ELSE <<>>)

(* The request, and the POST body, are written; the same poll goes on to   *)
(* read.  A peer that has closed never answers.                            *)
PollWrite(s, shape) ==
    LET c == https_slots[s] IN
    /\ Polling(s, {"SEND_REQ"})
    /\ ostls' = IF ostls[c.conn].closed THEN ostls
                ELSE [ostls EXCEPT ![c.conn].wire = @ \o Response(c.parent, shape),
                                   ![c.conn].closed = shape.close \/ shape.framing = "plain"]
    /\ SlotBecomes(s, [c EXCEPT !.state = "HEADERS", !.stale = FALSE, !.sent = @ + 1], s)
    /\ UNCHANGED https_pool

(* Mutant: the timeout does not cover the body. *)
ExpiredBeforeBody(c) == c.stale /\ c.state # "BODY"

Expired(c) == c.stale

(* Nothing happened in this poll, and the timeout has not run out.         *)
PollQuiet(s) ==
    /\ Polling(s, OnWire) /\ ~Expired(https_slots[s])
    /\ SlotBecomes(s, https_slots[s], After(s))
    /\ UNCHANGED netVars

Has(part, units) == \E j \in DOMAIN units : units[j].part = part

FirstOf(part, units) ==
    CHOOSE j \in DOMAIN units :
        units[j].part = part /\ \A i \in 1..(j - 1) : units[i].part # part

(* feed_body: how much of these units goes out as FETCH_DATA.              *)
ToDeliver(c, units) ==
    CASE c.chunked /\ Has("end", units) -> SubSeq(units, 1, FirstOf("end", units) - 1)
      [] c.shape.framing = "length" /\ Len(c.body) + Len(units) > c.shape.len ->
            SubSeq(units, 1, c.shape.len - Len(c.body))
      [] OTHER -> units

(* Mutant: a body of known length counts as complete one unit early. *)
BodyCompleteEarly(c, units) ==
    \/ c.chunked /\ Has("end", units)
    \/ c.shape.framing = "length" /\ Len(c.body) + 1 >= c.shape.len

(* feed_body returns 1; c is the slot after the units were delivered.      *)
BodyComplete(c, units) ==
    \/ c.chunked /\ Has("end", units)
    \/ c.shape.framing = "length" /\ Len(c.body) >= c.shape.len

(* feed_body on slot record c, then hctx_finish if it returns 1.  The      *)
(* sniffer (fixes320) recognises unmarked chunks if the first bytes hold a *)
(* whole size line.                                                        *)
FeedBody(s, c, units, net) ==
    \E chunked \in IF c.shape.framing = "chunked" /\ c.body = <<>> /\ ~c.chunked /\ units # <<>>
                   THEN BOOLEAN ELSE {c.chunked} :
        LET d == [c EXCEPT !.state = "BODY", !.chunked = chunked]
            fed == [d EXCEPT !.body = @ \o ToDeliver(d, units)]
        IN  IF units # <<>> /\ BodyComplete(fed, units)
            THEN \E unseen \in BOOLEAN : hctx_finish(s, fed, net, unseen)
            ELSE /\ SlotBecomes(s, fed, After(s))
                 /\ ostls' = net
                 /\ UNCHANGED https_pool

(* The connections once n units of connection e are read.                  *)
ReadFrom(e, n) == [ostls EXCEPT ![e].wire = SubSeq(@, n + 1, Len(@))]

(* parse_headers on slot record c, which holds the whole header.           *)
Parsed(c, eligible) ==
    LET end == FirstOf("blank", c.hdr_buf)
        shape == c.hdr_buf[end].shape
    IN  [c EXCEPT !.hdr_buf = SubSeq(@, 1, end),
                  !.shape = shape,
                  !.chunked = shape.framing = "chunked" /\ shape.marked,
                  !.keep_alive_ok = @ /\ ~shape.close,
                  !.redirected = shape.framing = "redirect",
                  !.cache_eligible = eligible /\ c.parent \notin Posts]

(* The first n units of the wire arrive in HS_HEADERS.                     *)
PollHeaders(s, n, eligible) ==
    LET c == https_slots[s]
        buf == c.hdr_buf \o SubSeq(ostls[c.conn].wire, 1, n)
        got == [c EXCEPT !.hdr_buf = buf, !.stale = FALSE]
        net == ReadFrom(c.conn, n)
        parsed == Parsed(got, eligible)
        units == SubSeq(buf, FirstOf("blank", buf) + 1, Len(buf))
    IN  /\ Polling(s, {"HEADERS"})
        /\ n \in 1..Len(ostls[c.conn].wire)
        /\ \/ Len(buf) > HDR_BUF_MAX /\ hctx_fail(s, FALSE)
           \/ /\ Len(buf) <= HDR_BUF_MAX /\ ~Has("blank", buf)
              /\ SlotBecomes(s, got, After(s))
              /\ ostls' = net
              /\ UNCHANGED https_pool
           \/ /\ Len(buf) <= HDR_BUF_MAX /\ Has("blank", buf) /\ parsed.redirected
              /\ Notify(s, parsed)
              /\ ostls' = net
              /\ UNCHANGED https_pool
           \/ /\ Len(buf) <= HDR_BUF_MAX /\ Has("blank", buf)
              /\ Unheard(s, parsed, units)
              /\ ostls' = net
           \/ /\ Len(buf) <= HDR_BUF_MAX /\ Has("blank", buf) /\ ~parsed.redirected
              /\ FeedBody(s, parsed, units, net)

(* The first n units of the wire arrive in HS_BODY.                        *)
PollBody(s, n) ==
    LET c == https_slots[s] IN
    /\ Polling(s, {"BODY"})
    /\ n \in 1..Len(ostls[c.conn].wire)
    /\ FeedBody(s, [c EXCEPT !.stale = FALSE], SubSeq(ostls[c.conn].wire, 1, n),
                ReadFrom(c.conn, n))

PollBodyUnheard(s, n) ==
    LET c == https_slots[s]
        units == SubSeq(ostls[c.conn].wire, 1, n)
    IN  /\ Polling(s, {"BODY"})
        /\ n \in 1..Len(ostls[c.conn].wire)
        /\ ToDeliver(c, units) # <<>>
        /\ Unheard(s, [c EXCEPT !.stale = FALSE], units)
        /\ ostls' = ReadFrom(c.conn, n)

(* The read, or the cache hit, that llcache gave up in goes on: what was   *)
(* read is still fed to it, and a redirect still sent.                     *)
ReadOn(s) ==
    LET c == https_slots[s]
        fed == [c EXCEPT !.unfed = <<>>]
    IN  /\ At(s) /\ c.state = "UNHEARD"
        /\ \/ c.conn = NoConn /\ hctx_finish(s, c, ostls, FALSE)
           \/ c.conn # NoConn /\ c.redirected /\ Notify(s, fed) /\ UNCHANGED netVars
           \/ c.conn # NoConn /\ ~c.redirected /\ FeedBody(s, fed, c.unfed, ostls)

(* A cut body is handed on but neither cached nor its connection kept.     *)
Salvaged(c) == [c EXCEPT !.cache_eligible = FALSE, !.keep_alive_ok = FALSE]

Salvageable(c) == c.state = "BODY" /\ Len(c.body) >= SALVAGE_MIN

(* kOSTLSEventClosed, nothing left to read.                                *)
PollClosedInBody(s) ==
    LET c == https_slots[s] IN
    /\ Polling(s, {"BODY"})
    /\ ostls[c.conn].closed /\ ostls[c.conn].wire = <<>>
    /\ CASE c.shape.framing # "length" /\ ~c.chunked -> hctx_finish(s, c, ostls, FALSE)
         [] ~(c.shape.framing # "length" /\ ~c.chunked) /\ Salvageable(c) ->
               hctx_finish(s, Salvaged(c), ostls, FALSE)
         [] OTHER -> hctx_fail(s, FALSE)

(* Mutant: the retry covers a close in the body too. *)
PreBodyOrBody == OnWire

PreBody == OnWire \ {"BODY"}

(* kOSTLSEventClosed before the header is complete, whatever part of it    *)
(* was read: retried, the request sent again.                              *)
PollClosedEarly(s) ==
    LET c == https_slots[s] IN
    /\ Polling(s, PreBody)
    /\ ostls[c.conn].closed
    /\ c.state = "HEADERS" =>
          \A j \in DOMAIN ostls[c.conn].wire : j = 1 => ostls[c.conn].wire[j].part # "blank"
    /\ IF c.retries < HTTPS_MAX_RETRIES THEN Retry(s) ELSE hctx_fail(s, FALSE)

(* The no-progress timeout, checked last.                                  *)
PollTimeout(s) ==
    LET c == https_slots[s] IN
    /\ Polling(s, OnWire) /\ Expired(c)
    /\ IF Salvageable(c)
       THEN \E unseen \in BOOLEAN : hctx_finish(s, Salvaged(c), ostls, unseen)
       ELSE hctx_fail(s, FALSE)

-----------------------------------------------------------------------------
(* A chunk the decoder rejects.  feed_body calls hctx_fail, which releases *)
(* slot and fetch, and returns 1: the caller calls hctx_finish on the slot *)
(* whose state is HS_IDLE by then.                                         *)
PollBadChunk(s) ==
    /\ Polling(s, {"BODY"})
    /\ https_slots[s].chunked
    /\ hctx_fail(s, TRUE)

ReleaseTwice(s) ==
    LET f == https_slots[s].parent IN
    /\ caller = "no" /\ callback = s /\ https_slots[s].corrupt
    /\ fetch_remove_from_queues(f)
    /\ fetch' = [fetch EXCEPT ![f] = [life |-> "freed", active |-> FALSE, last |-> "finished"]]
    /\ told' = [told EXCEPT ![f] = @ + 1]
    /\ ostls' = Disposed(ostls, {https_slots[s].conn})
    /\ hctx_clear(s)
    /\ callback' = NoSlot
    /\ UNCHANGED <<client, loopVars, https_pool, disk>>

-----------------------------------------------------------------------------
(* The world outside.                                                      *)

PeerClose(e, n) ==
    /\ ostls[e].open /\ ~ostls[e].closed
    /\ n \in 0..Len(ostls[e].wire)
    /\ ostls' = [ostls EXCEPT ![e].closed = TRUE, ![e].wire = SubSeq(@, 1, n)]
    /\ UNCHANGED <<coreVars, https_slots, fetcher_handle, https_pool, disk, cursor, callback>>

TimePasses(s) ==
    /\ https_slots[s].state \in OnWire /\ ~https_slots[s].stale
    /\ https_slots' = [https_slots EXCEPT ![s].stale = TRUE]
    /\ UNCHANGED <<coreVars, fetcher_handle, netVars, disk, cursor, callback>>

PollStep(s) ==
    \/ PollSkip(s)
    \/ PollAborted(s)
    \/ PollCacheHit(s)
    \/ PollCacheHitUnheard(s)
    \/ \E i \in DOMAIN https_pool : PoolDiscard(s, i) \/ PollReuse(s, i)
    \/ \E e \in Conns : PollConnect(s, e)
    \/ PollOpenFails(s)
    \/ PollBroken(s)
    \/ PollHandshakeFails(s)
    \/ PollHandshake(s)
    \/ \E shape \in Shapes : PollWrite(s, shape)
    \/ PollQuiet(s)
    \/ \E n \in 1..HDR_BUF_MAX + 1, eligible \in BOOLEAN : PollHeaders(s, n, eligible)
    \/ \E n \in 1..HDR_BUF_MAX + 1 : PollBody(s, n) \/ PollBodyUnheard(s, n)
    \/ ReadOn(s)
    \/ PollClosedInBody(s)
    \/ PollClosedEarly(s)
    \/ PollTimeout(s)
    \/ Release(s)

LoopStep ==
    \/ \E i \in DOMAIN queue_ring : HttpsDispatch(i)
    \/ HttpsDispatchReturns
    \/ HttpsPump
    \/ HttpsFetcherPoll
    \/ HttpsPollsDone
    \/ \E s \in Slots : PollStep(s)

ClientStep ==
    \E f \in Fetches :
        \/ \E hit \in BOOLEAN : HttpsStart(f, hit)
        \/ HttpsRefuse(f)
        \/ HttpsAbort(f)

OutsideStep ==
    \/ \E e \in Conns : \E n \in 0..Len(ostls[e].wire) : PeerClose(e, n)
    \/ \E s \in Slots : TimePasses(s)

Next == LoopStep \/ ClientStep \/ OutsideStep

Spec == Init /\ [][Next]_vars

(* As in HttpFetcher.tla: the event loop turns and TickCount advances.     *)
FairSpec ==
    /\ Spec
    /\ WF_vars(LoopStep)
    /\ \A s \in Slots : WF_vars(TimePasses(s))

(* With servers that send chunks the decoder rejects.                      *)
BadChunkNext == Next \/ \E s \in Slots : PollBadChunk(s) \/ ReleaseTwice(s)

BadChunkSpec == Init /\ [][BadChunkNext]_vars

-----------------------------------------------------------------------------
(* Properties.                                                             *)

(* fetch.c and the fetcher agree: a live fetch has one slot, which names   *)
(* it as its parent; a slot in use has a live fetch; and only a fetch that *)
(* fetch.c has dispatched holds a connection, so that the per-host cap is  *)
(* a cap on connections (fixes232a).                                       *)
SlotsServeDispatched ==
    /\ \A f \in Fetches :
          /\ fetch[f].life = "live" <=> fetcher_handle[f] # NoSlot
          /\ fetcher_handle[f] # NoSlot =>
                /\ InUse(fetcher_handle[f])
                /\ https_slots[fetcher_handle[f]].parent = f
    /\ \A s \in Slots : InUse(s) =>
          /\ fetcher_handle[https_slots[s].parent] = s
          /\ https_slots[s].conn # NoConn => fetch[https_slots[s].parent].active

(* Every open connection is held by exactly one slot or one pool entry, a  *)
(* closed one by none, and the pool keeps to its size, whatever is         *)
(* retried, salvaged, evicted, aborted or redirected.                      *)
ConnsOwned ==
    /\ Len(https_pool) <= HTTPS_POOL_SIZE
    /\ \A e \in Conns :
          LET holders == {s \in Slots : InUse(s) /\ https_slots[s].conn = e}
              entries == {i \in DOMAIN https_pool : https_pool[i] = e}
          IN  Cardinality(holders) + Cardinality(entries) = IF ostls[e].open THEN 1 ELSE 0

(* Header and body handed on answer the fetch's own request, over pooled   *)
(* connections too: no connection is pooled with an answer still to come.  *)
OwnAnswer ==
    \A s \in Slots : InUse(s) =>
        /\ \A i \in DOMAIN https_slots[s].hdr_buf :
              https_slots[s].hdr_buf[i].req = https_slots[s].parent
        /\ \A i \in DOMAIN https_slots[s].body :
              https_slots[s].body[i].req = https_slots[s].parent

(* What is stored in the disk cache is a whole body, unless nothing but    *)
(* the close of the connection could have told: a cut body is salvaged for *)
(* the page and not cached (fixes243).                                     *)
SalvageNeverCached == \A u \in Urls : disk[u] # "part"

(* A redirect is only sent to a client that still waits for the fetch:     *)
(* llcache would abort a fetch it has already forgotten (fixes314).  The   *)
(* exception is the server's own redirect in the very read in which        *)
(* llcache ran out of memory: parse_headers does not look at c->aborted.   *)
RedirectHeard ==
    callback # NoSlot /\ https_slots[callback].redirected =>
        \/ client[https_slots[callback].parent] = "ended"
        \/ https_slots[callback].state = "UNHEARD"

(* One fetch sends its request, and a POST its body, at most once per      *)
(* attempt, and makes at most HTTPS_MAX_RETRIES attempts beyond the first. *)
RequestsBounded == \A s \in Slots : InUse(s) => https_slots[s].sent <= 1 + HTTPS_MAX_RETRIES

(* Connections and requests are accounted for: no leak, no connection with *)
(* two owners, no request too many.                                        *)
ConnsSound == HttpsTypeOK /\ ConnsOwned /\ RequestsBounded

(* What is handed on and what is kept is the answer that was asked for.    *)
AnswersSound == OwnAnswer /\ SalvageNeverCached

(* A fetch whose header llcache has heard is not tried again: nothing it   *)
(* was told is told twice.                                                 *)
NothingRepeated ==
    [][\A s \in Slots :
          /\ InUse(s) /\ https_slots[s].state \in {"BODY", "UNHEARD"}
          /\ https_slots'[s].state # "IDLE"
          => https_slots'[s].state \in {"BODY", "UNHEARD", "FAIL"}]_vars

(* Each step of this fetcher is one FetchCore allows: it ends only fetches *)
(* it was given, while it is polled, and reports each of them once.        *)
ImplementsFetchCore == CoreSpec
=============================================================================
