---------------------------- MODULE HttpFetcher ----------------------------
(***************************************************************************)
(* frontends/macos9/macos9_http_fetcher.c on top of content/fetch.c: the   *)
(* http scheme's fetch slots, their poll loop, the keep-alive endpoint     *)
(* pool and the disk-cache hand-over, with the server on the other end.    *)
(*                                                                         *)
(* macos9_http_poll walks the slots in order.  One step here is one        *)
(* mfs_poll_one of one slot, or the tail of the loop body that reports a   *)
(* DONE or FAIL slot.  FETCH_ERROR and FETCH_REDIRECT reach llcache's       *)
(* users synchronously, so between them and the release of the fetch the   *)
(* client may start and abort fetches (callback # NoSlot).  FETCH_HEADER,   *)
(* FETCH_DATA and FETCH_FINISHED do not; there the client can only fail,   *)
(* which aborts this fetch.                                                *)
(*                                                                         *)
(* Abstractions: a response is a header unit, body units and, if chunked,  *)
(* an end unit, each tagged with the request it answers (ChunkDecoder.tla  *)
(* has the bytes).  OTRcv takes any prefix of what the server has sent.    *)
(* The 240-tick no-progress timeout is the flag `stale'.  The disk cache   *)
(* may miss at any time (macsurf_http_skip_next_cache, a file error:       *)
(* DiskCache.tla).  Whether https was already tried for the host is left open.     *)
(* The proxy branch is dead code (use_proxy is pinned to 0).               *)
(***************************************************************************)
EXTENDS FetchCore

CONSTANTS
    MAX_F,          \* fetch slots
    POOL_SIZE,      \* capacity of ep_pool
    Endpoints,      \* Open Transport endpoints
    UrlOf,          \* the URL of each fetch
    Posts,          \* the fetches that carry a POST body
    Images,         \* the fetches macos9_classify_url calls images
    MAX_IMG_F,      \* active slots from which image fetches are refused
    MAX_GLOBAL_F,   \* the same, for slots of all classes
    CacheMax,       \* MACSURF_CACHE_MAX_BYTES, in body units
    Shapes,         \* what responses look like: [framing, len, close]
    OTErrors,       \* OTRcv may fail other than by a disconnect
    ClientErrors,   \* llcache may run out of memory on a header or on data
    NoSlot, NoEp, NoFetch, NoBody, NoShape

ASSUME SlotAssumption == MAX_F \in Nat \ {0} /\ NoSlot = 0
ASSUME PoolAssumption == POOL_SIZE \in Nat
ASSUME NoneAssumption == NoEp \notin Endpoints /\ NoFetch \notin Fetches

VARIABLES
    f_slots,         \* the slot array
    fetcher_handle,  \* the slot each fetch was given by setup
    ot,              \* the endpoints: [open, key, wire, closed]
    ep_pool,         \* pooled endpoints, oldest first
    disk,            \* per URL, the body in the disk cache: [data]
    cursor,          \* the slot macos9_http_poll is at
    callback         \* the slot whose FETCH_ERROR or FETCH_REDIRECT is being heard

httpVars == <<f_slots, fetcher_handle, ot, ep_pool, disk, cursor, callback>>
vars == <<coreVars, httpVars>>

Slots == 1..MAX_F
Urls == {UrlOf[f] : f \in Fetches}
Shape == [framing : {"length", "chunked", "plain", "redirect"}, len : Nat, close : BOOLEAN]

ASSUME ShapeAssumption == Shapes \subseteq Shape /\ NoShape \notin Shapes

Unit == [req : Fetches, part : {"head", "data", "end"}, shape : Shape]

Slot == [state : {"IDLE", "QUEUED", "INIT", "HEADERS", "BODY", "DONE", "FAIL", "NOTIFIED"},
         parent : Fetches \cup {NoFetch},
         aborted : BOOLEAN,
         ep : Endpoints \cup {NoEp},
         keyed : BOOLEAN,           \* pool_key is set
         keep_alive_ok : BOOLEAN,
         image : BOOLEAN,           \* rclass is MACOS9_RC_IMAGE
         answers : Fetches \cup {NoFetch},  \* whose header was parsed
         shape : Shape \cup {NoShape},      \* what it said
         data : Seq(Unit),          \* sent as FETCH_DATA, and captured
         cache_eligible : BOOLEAN,
         cache_hit_body : [data : Seq(Unit)] \cup {NoBody},
         stale : BOOLEAN]           \* more than 240 ticks without progress

TypeOK ==
    /\ CoreTypeOK
    /\ f_slots \in [Slots -> Slot]
    /\ fetcher_handle \in [Fetches -> Slots \cup {NoSlot}]
    /\ ot \in [Endpoints -> [open : BOOLEAN, key : {HostOf[f] : f \in Fetches} \cup {NoFetch},
                             wire : Seq(Unit), closed : BOOLEAN]]
    /\ ep_pool \in Seq(Endpoints)
    /\ disk \in [Urls -> [data : Seq(Unit)] \cup {NoBody}]
    /\ cursor \in Slots \cup {NoSlot}
    /\ callback \in Slots \cup {NoSlot}

(* The slot as memset leaves it.                                           *)
Blank == [state |-> "IDLE", parent |-> NoFetch, aborted |-> FALSE, ep |-> NoEp,
          keyed |-> FALSE, keep_alive_ok |-> FALSE, image |-> FALSE, answers |-> NoFetch,
          shape |-> NoShape, data |-> <<>>, cache_eligible |-> FALSE,
          cache_hit_body |-> NoBody, stale |-> FALSE]

ClosedEp == [open |-> FALSE, key |-> NoFetch, wire |-> <<>>, closed |-> FALSE]

Init ==
    /\ CoreInit
    /\ f_slots = [s \in Slots |-> Blank]
    /\ fetcher_handle = [f \in Fetches |-> NoSlot]
    /\ ot = [e \in Endpoints |-> ClosedEp]
    /\ ep_pool = <<>>
    /\ disk = [u \in Urls |-> NoBody]
    /\ cursor = NoSlot
    /\ callback = NoSlot

-----------------------------------------------------------------------------
(* The client's side.                                                      *)

(* Client code runs from the event loop, or inside a FETCH_ERROR or         *)
(* FETCH_REDIRECT callback.                                                 *)
ClientTurn == caller = "no" /\ (poller = "no" \/ callback # NoSlot)

InUse == {s \in Slots : f_slots[s].state # "IDLE"}

(* The resource governor: only image fetches are turned away.              *)
GovernorRefuses(image) ==
    /\ image
    /\ \/ Cardinality(InUse) >= MAX_GLOBAL_F
       \/ Cardinality({s \in InUse : f_slots[s].image}) >= MAX_IMG_F

(* doc: macos9_http_pending_document was set, and overrides the suffix.    *)
IsImage(f, doc) == f \in Images /\ ~doc

(* Mutant: setup takes the first slot whether it is free or not. *)
FirstSlot(s) == s = 1

(* Setup takes the first free slot.                                        *)
FirstIdle(s) ==
    /\ f_slots[s].state = "IDLE"
    /\ \A r \in 1..(s - 1) : f_slots[r].state # "IDLE"

(* macos9_http_setup accepts, called by fetch_start.                       *)
HttpStart(f, doc) ==
    /\ ClientTurn
    /\ ~GovernorRefuses(IsImage(f, doc))
    /\ FetchStart(f)
    /\ \E s \in Slots :
          /\ FirstIdle(s)
          /\ f_slots' = [f_slots EXCEPT ![s] =
                [Blank EXCEPT !.state = "QUEUED", !.parent = f,
                              !.keep_alive_ok = (f \notin Posts),
                              !.image = IsImage(f, doc)]]
          /\ fetcher_handle' = [fetcher_handle EXCEPT ![f] = s]
    /\ UNCHANGED <<ot, ep_pool, disk, cursor, callback>>

(* macos9_http_setup returns NULL: governed, no free slot, or no memory    *)
(* for the POST body.                                                      *)
HttpRefuse(f, doc) ==
    /\ ClientTurn
    /\ \/ GovernorRefuses(IsImage(f, doc))
       \/ InUse = Slots
       \/ f \in Posts
    /\ FetchRefused(f)
    /\ UNCHANGED httpVars

macos9_http_abort(s) == [f_slots EXCEPT ![s].aborted = TRUE]

HttpAbort(f) ==
    /\ ClientTurn
    /\ FetchAbort(f)
    /\ f_slots' = macos9_http_abort(fetcher_handle[f])
    /\ UNCHANGED <<fetcher_handle, ot, ep_pool, disk, cursor, callback>>

HttpDestroy(f) == ClientTurn /\ ObjectDestroy(f) /\ UNCHANGED httpVars

-----------------------------------------------------------------------------
(* Dispatch and the poll loop.                                             *)

(* macos9_http_start stamps progress_ticks.                                *)
macos9_http_start(s) ==
    IF f_slots[s].state = "QUEUED"
    THEN [f_slots EXCEPT ![s].state = "INIT", ![s].stale = FALSE]
    ELSE f_slots

HttpDispatch(i) ==
    /\ DispatchJob(i)
    /\ f_slots' = macos9_http_start(fetcher_handle[queue_ring[i]])
    /\ UNCHANGED <<fetcher_handle, ot, ep_pool, disk, cursor, callback>>

HttpDispatchReturns ==
    /\ DispatchReturns
    /\ cursor' = IF caller # "start" /\ poller' # "no" THEN 1 ELSE cursor
    /\ UNCHANGED <<f_slots, fetcher_handle, ot, ep_pool, disk, callback>>

HttpPump == FetchPump /\ UNCHANGED httpVars
HttpFetcherPoll == FetcherPoll /\ UNCHANGED httpVars
HttpPollsDone == PollsDone /\ cursor = NoSlot /\ UNCHANGED httpVars

(* macos9_http_poll is at slot s.                                          *)
At(s) == caller = "no" /\ poller # "no" /\ cursor = s /\ callback = NoSlot

After(s) == IF s = MAX_F THEN NoSlot ELSE s + 1

Waiting(s) == f_slots[s].state \in {"HEADERS", "BODY"}

(* A 3xx header has been parsed and not yet been reported.                 *)
Redirecting(s) == f_slots[s].state = "HEADERS" /\ f_slots[s].shape # NoShape

(* Mutant: the timeout covers the header phase only. *)
TimedOutInHeaders(s) == f_slots[s].state = "HEADERS" /\ f_slots[s].stale /\ ~Redirecting(s)

TimedOut(s) == Waiting(s) /\ f_slots[s].stale /\ ~Redirecting(s)

(* mfs_poll_one goes past its early returns.                               *)
Running(s) == ~f_slots[s].aborted /\ ~TimedOut(s) /\ ~Redirecting(s)

Skipped(s) ==
    \/ f_slots[s].state = "IDLE"
    \/ f_slots[s].state = "QUEUED" /\ ~f_slots[s].aborted

PollSkip(s) ==
    /\ At(s) /\ Skipped(s)
    /\ cursor' = After(s)
    /\ UNCHANGED <<coreVars, f_slots, fetcher_handle, ot, ep_pool, disk, callback>>

(* The slot changes and nothing else does.  A slot left DONE or FAIL is    *)
(* reported before the loop moves on.                                      *)
SlotBecomes(s, new) ==
    /\ f_slots' = [f_slots EXCEPT ![s] = new]
    /\ cursor' = IF new.state \in {"DONE", "FAIL"} THEN s ELSE After(s)
    /\ UNCHANGED <<fetcher_handle, disk, callback>>

PollTimeout(s) ==
    /\ At(s) /\ TimedOut(s)
    /\ SlotBecomes(s, [f_slots[s] EXCEPT !.state = "FAIL", !.keep_alive_ok = FALSE])
    /\ UNCHANGED <<coreVars, ot, ep_pool>>

PollAborted(s) ==
    /\ At(s) /\ ~TimedOut(s) /\ ~Redirecting(s) /\ ~Skipped(s)
    /\ f_slots[s].aborted
    /\ f_slots[s].state \notin {"DONE", "FAIL"}
    /\ SlotBecomes(s, [f_slots[s] EXCEPT !.state = "DONE", !.keep_alive_ok = FALSE])
    /\ UNCHANGED <<coreVars, ot, ep_pool>>

-----------------------------------------------------------------------------
(* mfs_open.                                                               *)

Key(s) == HostOf[f_slots[s].parent]

Opening(s) == At(s) /\ Running(s) /\ f_slots[s].state = "INIT"

(* The pooled endpoint ep_pool_take looks at: the topmost of this key.     *)
TopOfKey(s, i) ==
    /\ i \in DOMAIN ep_pool
    /\ ot[ep_pool[i]].key = Key(s)
    /\ \A j \in DOMAIN ep_pool : j > i => ot[ep_pool[j]].key # Key(s)

(* ep_pool[i] = ep_pool[ep_pool_count - 1]; ep_pool_count--.               *)
Compact(i) == SubSeq([ep_pool EXCEPT ![i] = ep_pool[Len(ep_pool)]], 1, Len(ep_pool) - 1)

(* OTLook sees what has arrived: bytes of the peer, or its close.          *)
MayLookBusy(e) == ot[e].wire # <<>> \/ ot[e].closed

(* A fresh body on disk: OT is never opened.                               *)
OpenCacheHit(s) ==
    LET c == f_slots[s] IN
    /\ Opening(s) /\ ~c.keyed
    /\ c.parent \notin Posts
    /\ disk[UrlOf[c.parent]] # NoBody
    /\ SlotBecomes(s, [c EXCEPT !.state = "HEADERS", !.keep_alive_ok = FALSE,
                                 !.cache_hit_body = disk[UrlOf[c.parent]]])
    /\ UNCHANGED <<coreVars, ot, ep_pool>>

(* ep_pool_take discards an endpoint on which something is pending.        *)
PoolDiscard(s, i) ==
    /\ Opening(s) /\ TopOfKey(s, i)
    /\ MayLookBusy(ep_pool[i])
    /\ ep_pool' = Compact(i)
    /\ ot' = [ot EXCEPT ![ep_pool[i]] = ClosedEp]
    /\ f_slots' = [f_slots EXCEPT ![s].keyed = TRUE]
    /\ UNCHANGED <<coreVars, fetcher_handle, disk, cursor, callback>>

(* What the server answers request f with.                                 *)
Response(f, shape) ==
    LET unit(part) == [req |-> f, part |-> part, shape |-> shape]
    IN  <<unit("head")>> \o [n \in 1..shape.len |-> unit("data")]
           \o (IF shape.framing = "chunked" THEN <<unit("end")>> ELSE <<>>)

(* The endpoint record e once request f has been sent on it.  A peer that  *)
(* has closed never answers; one that was told Connection: close, or whose *)
(* answer ends by closing, closes after it.                                *)
Answered(e, f, shape) ==
    IF e.closed THEN e
    ELSE [e EXCEPT !.wire = @ \o Response(f, shape),
                   !.closed = (shape.close \/ shape.framing = "plain" \/ f \in Posts)]

Opened(s, e) == [f_slots[s] EXCEPT !.state = "HEADERS", !.ep = e, !.keyed = TRUE]

(* A healthy idle endpoint is reused.                                      *)
OpenPooled(s, i, shape) ==
    /\ Opening(s) /\ TopOfKey(s, i)
    /\ ep_pool' = Compact(i)
    /\ ot' = [ot EXCEPT ![ep_pool[i]] = Answered(@, f_slots[s].parent, shape)]
    /\ SlotBecomes(s, Opened(s, ep_pool[i]))
    /\ UNCHANGED coreVars

NonePooled(s) == \A i \in DOMAIN ep_pool : ~TopOfKey(s, i)

OpenConnect(s, e, shape) ==
    /\ Opening(s) /\ NonePooled(s)
    /\ ~ot[e].open
    /\ ot' = [ot EXCEPT ![e] =
          Answered([ClosedEp EXCEPT !.open = TRUE, !.key = Key(s)], f_slots[s].parent, shape)]
    /\ SlotBecomes(s, Opened(s, e))
    /\ UNCHANGED <<coreVars, ep_pool>>

OpenFailed(s, keyed) ==
    [f_slots[s] EXCEPT !.state = "FAIL", !.keep_alive_ok = FALSE, !.keyed = @ \/ keyed]

(* fail_unref with a new endpoint, or before the pool was asked: whatever  *)
(* was opened is closed again.                                             *)
OpenFails(s, keyed) ==
    /\ Opening(s)
    /\ keyed => NonePooled(s)
    /\ SlotBecomes(s, OpenFailed(s, keyed))
    /\ UNCHANGED <<coreVars, ot, ep_pool>>

(* fail_unref with a pooled endpoint: OTSnd failed.                        *)
OpenPooledFails(s, i) ==
    /\ Opening(s) /\ TopOfKey(s, i)
    /\ ep_pool' = Compact(i)
    /\ ot' = [ot EXCEPT ![ep_pool[i]] = ClosedEp]
    /\ SlotBecomes(s, OpenFailed(s, TRUE))
    /\ UNCHANGED coreVars

-----------------------------------------------------------------------------
(* Receiving.                                                              *)

(* A header or data callback; failed: llcache ran out of memory and        *)
(* aborted the fetch from inside it.                                       *)
Heard(f, failed) ==
    IF failed THEN ClientErrors /\ FetchAbort(f) ELSE UNCHANGED coreVars

Receiving(s) == At(s) /\ Running(s) /\ Waiting(s)

OnWire(s) == Receiving(s) /\ f_slots[s].cache_hit_body = NoBody

(* The cache-hit fast path: header, body and done in one poll.             *)
PollCacheHit(s, failed) ==
    LET c == f_slots[s] IN
    /\ Receiving(s) /\ c.cache_hit_body # NoBody
    /\ Heard(c.parent, failed)
    /\ SlotBecomes(s, [c EXCEPT !.state = "DONE", !.data = c.cache_hit_body.data,
                                 !.aborted = failed])
    /\ UNCHANGED <<ot, ep_pool>>

PollNoData(s) ==
    /\ OnWire(s)
    /\ SlotBecomes(s, f_slots[s])
    /\ UNCHANGED <<coreVars, ot, ep_pool>>

(* n == 0, or kOTLookErr with T_ORDREL or T_DISCONNECT.                    *)
PollClosed(s) ==
    /\ OnWire(s)
    /\ ot[f_slots[s].ep].wire = <<>> /\ ot[f_slots[s].ep].closed
    /\ SlotBecomes(s, [f_slots[s] EXCEPT !.state = "DONE", !.keep_alive_ok = FALSE])
    /\ UNCHANGED <<coreVars, ot, ep_pool>>

(* Any other OTRcv error, or no memory for h_buf.                          *)
PollOTError(s) ==
    /\ OTErrors /\ OnWire(s)
    /\ SlotBecomes(s, [f_slots[s] EXCEPT !.state = "FAIL"])
    /\ UNCHANGED <<coreVars, ot, ep_pool>>

FirstOf(part, units, j) ==
    /\ units[j].part = part
    /\ \A i \in 1..(j - 1) : units[i].part # part

Has(part, units) == \E j \in DOMAIN units : units[j].part = part

(* How many of these raw units go out as FETCH_DATA, `have' being sent.    *)
ToDeliver(shape, have, units) ==
    CASE shape.framing = "length" ->
            SubSeq(units, 1, IF have + Len(units) > shape.len THEN shape.len - have ELSE Len(units))
      [] shape.framing = "chunked" /\ Has("end", units) ->
            SubSeq(units, 1, (CHOOSE j \in DOMAIN units : FirstOf("end", units, j)) - 1)
      [] OTHER -> units

(* Mutant: a framed body counts as complete one unit early. *)
BodyCompleteEarly(shape, have, units) ==
    \/ shape.framing = "length" /\ have + 1 >= shape.len
    \/ shape.framing = "chunked" /\ Has("end", units)

BodyComplete(shape, have, units) ==
    \/ shape.framing = "length" /\ have >= shape.len
    \/ shape.framing = "chunked" /\ Has("end", units)

(* The slot after raw body units; a body without units is not looked at.   *)
Fed(c, units) ==
    LET all == c.data \o ToDeliver(c.shape, Len(c.data), units)
    IN  [c EXCEPT !.state = IF units # <<>> /\ BodyComplete(c.shape, Len(all), units)
                            THEN "DONE" ELSE "BODY",
                  !.data = all]

(* mfs_parse_headers, up to the body that came with the header.            *)
Parsed(c, head, eligible) ==
    [c EXCEPT !.answers = head.req, !.shape = head.shape,
              !.keep_alive_ok = @ /\ ~head.shape.close /\ head.shape.framing # "plain",
              !.cache_eligible = eligible /\ c.parent \notin Posts]

(* OTRcv returns the first units of the wire in MFS_HEADERS.               *)
PollHeaders(s, eligible, failed) ==
    LET c == [f_slots[s] EXCEPT !.stale = FALSE]
        wire == ot[c.ep].wire
    IN  /\ OnWire(s) /\ c.state = "HEADERS"
        /\ UNCHANGED ep_pool
        /\ \E n \in 1..Len(wire) :
              LET units == SubSeq(wire, 1, n)
                  j == CHOOSE k \in DOMAIN units : FirstOf("head", units, k)
                  p == [Parsed(c, units[j], eligible) EXCEPT !.aborted = failed]
              IN  /\ ot' = [ot EXCEPT ![c.ep].wire = SubSeq(wire, n + 1, Len(wire))]
                  /\ \/ /\ ~Has("head", units) /\ ~failed
                        /\ SlotBecomes(s, c)
                        /\ UNCHANGED coreVars
                     \/ /\ Has("head", units) /\ p.shape.framing # "redirect"
                        /\ SlotBecomes(s, Fed(p, SubSeq(units, j + 1, n)))
                        /\ Heard(c.parent, failed)
                     \/ /\ Has("head", units) /\ p.shape.framing = "redirect"
                        /\ f_slots' = [f_slots EXCEPT ![s] = p]
                        /\ Heard(c.parent, failed)
                        /\ UNCHANGED <<fetcher_handle, disk, cursor, callback>>

(* OTRcv returns the first units of the wire in MFS_BODY.                  *)
PollBody(s, failed) ==
    LET c == [f_slots[s] EXCEPT !.stale = FALSE]
        wire == ot[c.ep].wire
    IN  /\ OnWire(s) /\ c.state = "BODY"
        /\ \E n \in 1..Len(wire) :
              LET units == SubSeq(wire, 1, n)
              IN  /\ failed => ToDeliver(c.shape, Len(c.data), units) # <<>>
                  /\ ot' = [ot EXCEPT ![c.ep].wire = SubSeq(wire, n + 1, Len(wire))]
                  /\ SlotBecomes(s, [Fed(c, units) EXCEPT !.aborted = failed])
        /\ Heard(c.parent, failed)
        /\ UNCHANGED ep_pool

-----------------------------------------------------------------------------
(* Reporting and releasing.                                                *)

(* Mutant: mfs_close pools every endpoint it is given. *)
PoolableAlways(c) == c.ep # NoEp /\ c.keyed

(* The endpoint of slot record c may serve another fetch.                  *)
Poolable(c) == c.ep # NoEp /\ c.keep_alive_ok /\ ~c.aborted /\ c.keyed

(* Mutant: the DONE path pools the endpoint and leaves c->ep set, so that  *)
(* mfs_close puts it away again.                                           *)
PutAwayTwice(c) ==
    \/ /\ Poolable(c) /\ Len(ep_pool) + 1 < POOL_SIZE
       /\ ep_pool' = ep_pool \o <<c.ep, c.ep>>
       /\ UNCHANGED ot
    \/ /\ Poolable(c) /\ Len(ep_pool) + 1 = POOL_SIZE
       /\ ep_pool' = Append(ep_pool, c.ep)
       /\ ot' = [ot EXCEPT ![c.ep] = ClosedEp]
    \/ /\ c.ep # NoEp /\ ~(Poolable(c) /\ Len(ep_pool) < POOL_SIZE)
       /\ ot' = [ot EXCEPT ![c.ep] = ClosedEp]
       /\ UNCHANGED ep_pool
    \/ c.ep = NoEp /\ UNCHANGED <<ot, ep_pool>>

(* ep_pool_return and mfs_close, for the slot record c: into the pool with *)
(* what has arrived drained, or closed.                                    *)
PutAway(c) ==
    \/ /\ Poolable(c) /\ Len(ep_pool) < POOL_SIZE
       /\ ep_pool' = Append(ep_pool, c.ep)
       /\ \E n \in 0..Len(ot[c.ep].wire) :
             ot' = [ot EXCEPT ![c.ep].wire = SubSeq(@, n + 1, Len(@))]
    \/ /\ c.ep # NoEp /\ ~(Poolable(c) /\ Len(ep_pool) < POOL_SIZE)
       /\ ot' = [ot EXCEPT ![c.ep] = ClosedEp]
       /\ UNCHANGED ep_pool
    \/ c.ep = NoEp /\ UNCHANGED <<ot, ep_pool>>

(* cache_capture holds what was sent as data unless it outgrew the cache's *)
(* limit; it is stored when the slot is done.                              *)
Stored(c) ==
    IF c.cache_eligible /\ c.cache_hit_body = NoBody /\ Len(c.data) \in 1..CacheMax
    THEN [disk EXCEPT ![UrlOf[c.parent]] = [data |-> c.data]]
    ELSE disk

(* macos9_http_free, all but the endpoint.  The fields of an idle slot are *)
(* not read before setup clears them.                                      *)
FreeSlot(s) ==
    /\ f_slots' = [f_slots EXCEPT ![s] = Blank]
    /\ fetcher_handle' = [fetcher_handle EXCEPT ![f_slots[s].parent] = NoSlot]
    /\ cursor' = After(s)

(* A DONE slot: FETCH_FINISHED, cache store, endpoint, release.            *)
PollDone(s) ==
    LET c == f_slots[s] IN
    /\ At(s) /\ c.state = "DONE"
    /\ FinishAndFree(c.parent)
    /\ disk' = Stored(c)
    /\ PutAway(c)
    /\ FreeSlot(s)
    /\ UNCHANGED <<loopVars, callback>>

(* Mutant: the slot is left as it was, so the next poll reports it again. *)
NotifyUnmarked(s, redirect) ==
    /\ SendFinishing(f_slots[s].parent)
    /\ f_slots' = [f_slots EXCEPT ![s].aborted = @ \/ redirect]
    /\ cursor' = After(s)
    /\ UNCHANGED <<ringVars, loopVars, fetcher_handle, ot, ep_pool, disk, callback>>

(* A finishing message whose callback may re-enter.  llcache answers a     *)
(* redirect with fetch_abort.                                              *)
Notify(s, redirect) ==
    /\ SendFinishing(f_slots[s].parent)
    /\ f_slots' = [f_slots EXCEPT ![s].state = "NOTIFIED", ![s].aborted = @ \/ redirect]
    /\ callback' = s
    /\ UNCHANGED <<ringVars, loopVars, fetcher_handle, ot, ep_pool, disk, cursor>>

(* A FAIL slot: redirected to https, or FETCH_ERROR.                       *)
PollFallBack(s) ==
    /\ At(s) /\ f_slots[s].state = "FAIL"
    /\ ~f_slots[s].aborted /\ f_slots[s].keyed
    /\ Notify(s, TRUE)

PollFail(s) ==
    /\ At(s) /\ f_slots[s].state = "FAIL"
    /\ Notify(s, FALSE)

(* A 3xx header: FETCH_REDIRECT.                                           *)
PollRedirect(s) ==
    /\ At(s) /\ Redirecting(s)
    /\ Notify(s, TRUE)

(* The callback has returned: fetch_remove_from_queues, fetch_free.        *)
PollRelease(s) ==
    /\ caller = "no" /\ callback = s
    /\ RemoveAndFree(f_slots[s].parent)
    /\ PutAway(f_slots[s])
    /\ FreeSlot(s)
    /\ callback' = NoSlot
    /\ UNCHANGED <<loopVars, disk>>

-----------------------------------------------------------------------------
(* The world outside: the server closes a connection, losing what it had   *)
(* not sent; time passes without progress.                                 *)
PeerClose(e, n) ==
    /\ ot[e].open /\ ~ot[e].closed
    /\ n \in 0..Len(ot[e].wire)
    /\ ot' = [ot EXCEPT ![e].closed = TRUE, ![e].wire = SubSeq(@, 1, n)]
    /\ UNCHANGED <<coreVars, f_slots, fetcher_handle, ep_pool, disk, cursor, callback>>

TimePasses(s) ==
    /\ Waiting(s) /\ ~f_slots[s].stale
    /\ f_slots' = [f_slots EXCEPT ![s].stale = TRUE]
    /\ UNCHANGED <<coreVars, fetcher_handle, ot, ep_pool, disk, cursor, callback>>

PollStep(s) ==
    \/ PollSkip(s)
    \/ PollTimeout(s)
    \/ PollAborted(s)
    \/ OpenCacheHit(s)
    \/ \E i \in DOMAIN ep_pool :
          \/ PoolDiscard(s, i)
          \/ OpenPooledFails(s, i)
          \/ \E shape \in Shapes : OpenPooled(s, i, shape)
    \/ \E e \in Endpoints, shape \in Shapes : OpenConnect(s, e, shape)
    \/ \E keyed \in BOOLEAN : OpenFails(s, keyed)
    \/ \E failed \in BOOLEAN : PollCacheHit(s, failed)
    \/ PollNoData(s)
    \/ PollClosed(s)
    \/ PollOTError(s)
    \/ \E eligible, failed \in BOOLEAN : PollHeaders(s, eligible, failed)
    \/ \E failed \in BOOLEAN : PollBody(s, failed)
    \/ PollDone(s)
    \/ PollFallBack(s)
    \/ PollFail(s)
    \/ PollRedirect(s)
    \/ PollRelease(s)

(* What the event loop does when it is left alone.                         *)
LoopStep ==
    \/ \E i \in DOMAIN queue_ring : HttpDispatch(i)
    \/ HttpDispatchReturns
    \/ HttpPump
    \/ HttpFetcherPoll
    \/ HttpPollsDone
    \/ \E s \in Slots : PollStep(s)

ClientStep ==
    \E f \in Fetches :
        \/ \E doc \in BOOLEAN : HttpStart(f, doc) \/ HttpRefuse(f, doc)
        \/ HttpAbort(f)
        \/ HttpDestroy(f)

OutsideStep ==
    \/ \E e \in Endpoints : \E n \in 0..Len(ot[e].wire) : PeerClose(e, n)
    \/ \E s \in Slots : TimePasses(s)

Next == LoopStep \/ ClientStep \/ OutsideStep

Spec == Init /\ [][Next]_vars

(* WaitNextEvent returns after a tick at the latest, so the loop turns;    *)
(* TickCount advances.  Neither the server nor the client owes anything.   *)
FairSpec ==
    /\ Spec
    /\ WF_vars(LoopStep)
    /\ \A s \in Slots : WF_vars(TimePasses(s))

-----------------------------------------------------------------------------
(* Properties.  ImplementsFetchCore gives this fetcher the properties of   *)
(* FetchCore.tla.                                                          *)

(* fetch.c and the fetcher agree on who owns what: a live fetch has one    *)
(* slot, which names it as its parent and is past QUEUED exactly if the    *)
(* fetch is on fetch_ring; a slot in use has a live fetch.  Otherwise an   *)
(* abort or a free reaches another fetch's slot (fixes103, fixes104).      *)
SlotsAgree ==
    /\ \A f \in Fetches :
          /\ fetch[f].life = "live" <=> fetcher_handle[f] # NoSlot
          /\ fetcher_handle[f] # NoSlot =>
                f_slots[fetcher_handle[f]].parent = f
    /\ \A s \in Slots :
          f_slots[s].state # "IDLE" =>
             /\ f_slots[s].parent \in Fetches
             /\ fetcher_handle[f_slots[s].parent] = s
             /\ f_slots[s].state = "QUEUED" => ~fetch[f_slots[s].parent].active
             /\ f_slots[s].state \in {"INIT", "HEADERS", "BODY"}
                   => fetch[f_slots[s].parent].active

(* This fetcher is one of the fetchers fetch.c was written for: each of    *)
(* its steps is a step FetchCore allows, so it ends only fetches it was    *)
(* given, while it is polled, and reports each of them once.               *)
ImplementsFetchCore == CoreSpec

(* Every open endpoint is held by exactly one slot or one pool entry, a    *)
(* closed one by none, and the pool keeps to its size: nothing leaks, and  *)
(* no two fetches ever read from one connection.                           *)
EndpointsOwned ==
    /\ Len(ep_pool) <= POOL_SIZE
    /\ \A e \in Endpoints :
          LET holders == {s \in Slots : f_slots[s].ep = e}
              entries == {i \in DOMAIN ep_pool : ep_pool[i] = e}
          IN  Cardinality(holders) + Cardinality(entries) = IF ot[e].open THEN 1 ELSE 0

(* What a fetch hands on answers its own request, over reused connections  *)
(* too, and a cached body is served for the URL it was fetched from.       *)
OwnResponse ==
    /\ \A s \in Slots :
          LET c == f_slots[s] IN
          /\ c.answers \in {NoFetch, c.parent}
          /\ \A i \in DOMAIN c.data : UrlOf[c.data[i].req] = UrlOf[c.parent]
          /\ c.cache_hit_body = NoBody => \A i \in DOMAIN c.data : c.data[i].req = c.parent
    /\ \A u \in Urls : disk[u] # NoBody =>
          \A i \in DOMAIN disk[u].data : UrlOf[disk[u].data[i].req] = u

(* A slot that ends by its framing, and so keeps its connection, has sent  *)
(* the whole body and nothing but body units, and left nothing of it on    *)
(* the wire, however OTRcv cut the stream.                                 *)
FramedIsWhole ==
    \A s \in Slots :
        LET c == f_slots[s] IN
        c.state = "DONE" /\ c.keep_alive_ok /\ ~c.aborted =>
           /\ Len(c.data) = c.shape.len
           /\ \A i \in DOMAIN c.data : c.data[i].part = "data"
           /\ ot[c.ep].wire = <<>>

(* "POST responses are NEVER cached" (fixes312), nor served to a POST.     *)
PostNeverCached ==
    /\ \A u \in Urls : disk[u] # NoBody =>
          \A i \in DOMAIN disk[u].data : disk[u].data[i].req \notin Posts
    /\ \A s \in Slots : f_slots[s].parent \in Posts => f_slots[s].cache_hit_body = NoBody

(* With any Open Transport error, any failing client callback and any      *)
(* re-entrant start or abort, the state stays typed, each connection has   *)
(* one owner, and no POST touches the cache.                               *)
FaultsContained == TypeOK /\ EndpointsOwned /\ PostNeverCached
=============================================================================
