# MacSurf fetch path: TLA+ models, checks and proofs

MacSurf is a web browser for Mac OS 9: NetSurf's core, and a frontend
(`browser/netsurf/frontends/macos9`) that drives it from one cooperative event
loop.  There are no threads.  What makes the code hard is re-entrancy (a poll
loop sends a message, the client answers by starting and aborting other
fetches), connections that outlive the fetch that opened them, servers that
close at any moment, timeouts, and files that are overwritten in place.

This directory models the part of MacSurf where those meet: the timer queue, the
registry of running fetches, the HTTP and HTTPS fetchers with their keep-alive
pools, the chunked decoder, the tables by which the two fetchers fall back on
each other, the disk cache, the low-level cache that shares what is fetched, and
the timers of scripts.  TLC checks small instances of every module; TLAPS proves
the scheduler, the fetch core, both fetchers' use of it, the HTTPS fetcher's
connections and answers, the scheme fall-back, the disk cache and the script
timers correct for every value of the constants.

## 1. Inventory

| Component | State | Operations | Hard behaviour | What makes it correct |
|---|---|---|---|---|
| Scheduler, `schedule.c` | sorted list of (time, callback, p), exported `macos9_sched_active`/`_time` | `macos9_schedule`, `macos9_schedule_run` | callbacks edit the list being walked; a job re-armed with 0 ticks is due again in the same run; malloc fails after the old entry was removed | a map from jobs to due times; no due job starves; every run ends |
| Fetch core, `content/fetch.c` | `queue_ring`, `fetch_ring`, per fetch `fetch_is_active`, `last_msg` | `fetch_start`, `fetch_abort`, `fetch_pump`, `fetcher_poll`, `fetch_remove_from_queues`, `fetch_free`, `fetch_send_callback` | all of them are called from inside polls; the timer keeps itself armed | rings and flags agree, caps hold, each fetch ends exactly once, only a failed allocation stops the timer |
| HTTP fetcher, `macos9_http_fetcher.c` | slot table, endpoint pool, capture buffers | `setup`, `start`, `abort`, `poll`, `free`, `mfs_open`, `mfs_parse_headers`, `process_chunked_bytes` | abort in any state, callbacks that re-enter, reads cut anywhere, pooled connections, a timeout racing late bytes | slots, endpoints and responses never mix; every fetch ends |
| Disk cache, `macos9_disk_cache.c` | one file per URL, one global skip flag | `macos9_cache_store`, `macos9_cache_lookup`, Reload | volume full, a crash with writes not yet flushed, a flag cleared by somebody else's store | a hit is one whole stored body |
| HTTPS fetcher, `macos9_https_fetcher.c` | slots, pool of TLS connections with a time to live | as HTTP, with the TLS connection pumped from the poll: handshake, write, read | retry of a stale or early closed connection, salvage of a cut body, eviction from a full pool, abort before the poll that fails the fetch | as HTTP; nothing is told twice; retries are bounded; a cut body is not cached |
| Scheme fall-back, both fetchers, `macos9_disk_cache.c`, `window.c` | tracker of failed schemes, dead-host list and its file, list of hosts that have succeeded | mark, look up, evict, reset at a navigation, load and save | http and https send a load back and forth; fetches of one host end in any order; a crash in the save | a site that can be reached is reached; a bounce ends; a host that works is not listed as dead |
| Low-level cache, `content/llcache.c` | objects, users, cached and uncached list, the catch-up flag | retrieve, release, clone, abort, force_stream, invalidate, clean, fetch callback, catch-up | clients release, abort, retrieve and purge from inside the walk over their own list | nothing a loop is at disappears; no handle is lost; no event is missed, repeated or sent to a released handle |
| JavaScript timers, `macsurf_js_timers.c` | arena of slots, list by expiry, a stash of callbacks in each heap | setTimeout, setInterval, clear, the pump, heaps made and destroyed | callbacks set and clear timers, the running one included; a full arena drops a timer; one list for all windows | arena, list and stash agree; a timer fires only when pending and due; a due one is not starved |
| hlcache | content handles | | | not modelled |
| Event loop and windows, `main.c`, `window.c` | windows, quit flag | event dispatch, reload, URL bar | order of pump, timers and events | only what reaches the modelled parts |
| Downloads, XHR | one file per download; XHR is a stub that answers at once | | | not modelled |
| Synthetic-scheme fetchers | one context per fetch | answer in one poll | | an instance of FetchCore's "any fetcher" |
| Images, plotters, fonts, SVG, logging, vendored libraries, proxy, macLink | | | | not modelled: data transformation, I/O or third-party code |

How the parts interact: the event loop (`main.c`) calls `fetch_pump` and
`macos9_schedule_run` on every pass.  `fetch_pump`, and the timer job
`fetcher_poll`, call `fetch_dispatch_jobs` (which calls a fetcher's `start`) and
then each fetcher's `poll`.  A poll sends messages through
`fetch_send_callback` to `llcache_fetch_callback`.  FETCH_ERROR and
FETCH_REDIRECT reach the users of the object at once, and these may call
`fetch_start` and `fetch_abort`; FETCH_HEADER, FETCH_DATA and FETCH_FINISHED do not reach
them (llcache schedules a catch-up), but llcache itself can fail in them and abort the fetch.
The fetcher then calls `fetch_remove_from_queues` and `fetch_free`, which calls
the fetcher's `free`.  The fetcher asks the disk cache before it opens a
connection and hands it the captured body at the end.  A fetcher whose connection
fails marks its scheme as failed for the host and, if the other scheme was not,
sends FETCH_REDIRECT to the same URL with the other scheme, which llcache
follows like any redirect.  Independently of fetches, the event loop pumps the
script timers of the newest window's heap.

`PROJECT.json` lists every component, the hazards with their lines, and for each
definition the source lines it stands for.

## 2. Modules

| Module | Models | Built on |
|---|---|---|
| `TimerMap` | what callers expect of `gui_misc_table.schedule`: a map from jobs to due times | |
| `Scheduler` | `schedule.c` | refines `TimerMap` |
| `FetchCore` | `content/fetch.c`, llcache as its client, and *any* fetcher behind it | |
| `HttpFetcher` | `macos9_http_fetcher.c` on top of `fetch.c`, Open Transport and the server outside | extends, and refines, `FetchCore` |
| `ChunkDecoder` | `process_chunked_bytes`, byte by byte | gives `HttpFetcher` the right to treat chunks as units |
| `DiskCache` | the body files of `macos9_disk_cache.c`, write by write | gives the fetchers the right to treat the cache as a map that may miss |
| `HttpsFetcher` | `macos9_https_fetcher.c` on top of `fetch.c`, the OSTLS library and the server outside | extends, and refines, `FetchCore` |
| `SchemeFallback` | the tracker, the dead-host list with its file and the list of hosts that have succeeded, with the ends of both fetchers that use them | resolves what the two fetchers leave open; takes from them that every fetch ends |
| `LLCache` | `content/llcache.c` with clients that call back into it | the client that `FetchCore` and the fetchers abstract to four states |
| `JSTimers` | `macsurf_js_timers.c` and the pump and heaps of `macsurf_js.c` | |
| `FetchCoreProofs`, `HttpFetcherProofs`, `HttpsFetcherProofs`, `SchemeFallbackProofs`, `LLCacheProofs` | proofs, each about the module it is named after | `SeqLemmas`: facts about sequences |
| `TimerProofs` | proofs about the two timer queues, `Scheduler` and `JSTimers` | `SeqLemmas` |
| `BodyProofs` | proofs about what happens to the bytes of a body, `DiskCache` and `ChunkDecoder` | `SeqLemmas` |
| `MC*` | instances for TLC | |

### Scheduler

A callback with its parameter is a *job*.  The variables are the static
variables of `schedule.c`, the locals of `macos9_schedule_run` (`now`,
`callback`, and `pc`, where it stands) and the clock.  `Schedule`,
`ScheduleNoMem` and `Cancel` are the three outcomes of `macos9_schedule`;
`RunBegin`, `RunPop`, `CallbackReturn` and `RunEnd` are the run loop, cut where a callback can get between.
The integer division from milliseconds to ticks is kept: it is why
10 ms is "now".  `overtaken` is a history variable, for `NoOvertaking` only.
`macos9_get_next_delay` only reads, and has no caller in the frontend.

### FetchCore

A member of `Fetches` is one `struct fetch`, used once.  `caller` says who is inside
`fetch_dispatch_jobs` (`fetch_start`, the timer, or the pump), `poller` who is
inside the fetchers' `poll`; a `fetch_start` made from a callback inside a poll is
`caller = "start"` with `poller` still set.  `client` is what llcache holds for
a fetch: *waiting* (holds the pointer), *ended* (heard a finishing message),
*dropped* (aborted it), *gone* (destroyed the object).  `AnyNotify`,
`AnyFinish` and `AnyFree` are all that `fetch.c` lets a fetcher do from its poll.
Every macos9 `ops.start` returns true, so the branch of `fetch_dispatch_job`
that puts a fetch back is not there.  `armed` is *failed* after a `schedule()` that
took the old entry off the timer queue and had no memory for the new one
(`ScheduleNoMem` in `Scheduler`); `fetch.c` does not look at the result.

### HttpFetcher

A step is one `mfs_poll_one` of one slot, or the tail of the loop body of
`macos9_http_poll` that reports a DONE or FAIL slot; `cursor` is the loop variable.
Where the client can re-enter, the step is split: `Notify` sends the message
and sets `callback`, the client acts, `PollRelease` goes on.  A response is a
header unit, body units and, if chunked, an end unit, each tagged with the
request it answers; `OTRcv` returns any prefix of what the server has sent.  The
server answers with any member of `Shapes` (sized, chunked, ended by close,
redirect; with or without `Connection: close`) and may close at any time, losing what it had
not sent.  More than 240 ticks without progress is the flag `stale`.  Left
open, so that every outcome is covered: cache misses, `OTLook` being late,
how much the drain loop of `ep_pool_return` finds, whether https was tried for
the host, and whether setup was called with `macos9_http_pending_document` set.

### ChunkDecoder

The decoder's own state (`chunk_state`, `chunk_size_buf`, `chunk_remaining`, the
trailer flag), fed with well-formed bodies cut into reads in every way.
`ServerAssumption` says what well formed means: no empty chunk but the last, size
lines whose first `BUFSZ - 1` bytes `strtol` reads as the size (so no more digits
than a 32-bit `long` or the buffer takes), trailers of lines that are not empty.
Malformed size lines are outside the inputs.

### DiskCache

A file is a sequence of units (header, MIME type, body blocks) tagged with the
store that wrote them.  `macos9_cache_store` runs without returning to the
event loop, but is one step per `FSWrite` here, because the volume may fill up under any of
them (no result is looked at) and because the Mac may crash between them.  No store
flushes the volume (fixes248), so `file` is what the File Manager shows, and `past` every content a file has had since it was last
flushed (`FlushVol`: by `macos9_deadhost_save`, the debug log, or HFS itself).  `Crash` may come at any
time; `Survive` then gives each unflushed file the length of one of its contents and in each place a
unit of one of them, or what the disk block held before (`Junk`); `Restart` follows when every such file has been settled.  Junk is
not taken for a header.  `crossed`, `stores` and `ended` are history.

### HttpsFetcher

As HttpFetcher, with the states of `hctx_poll`: one poll of a slot is a run of steps
while `cursor` stays at it (handshake, write, read), cut where the server can
get between.  A header is two units, so that reads, and closes, can fall inside it.
llcache may run out of memory in any header or data callback (`ClientErrors`, `Unheard`): it aborts the fetch and
forgets it, and the poll goes on with what it has read (`ReadOn`), without a look at `c->aborted`.
`sent` counts how often the request went out; `Retry` is
`hctx_reset_for_retry`, `Salvaged` the body that is delivered although it was
cut.  Left open: whether the host is on the dead-host list and whether http was
tried (`SchemeFallback` has these tables), the pool's time to live, and when a
broken connection is noticed.  `PollBadChunk` is in the next-state relation of
`BadChunkSpec` only: after it the fetch is freed twice, and nothing beyond that
is meaningful.

### SchemeFallback

A *load* is what the page asked for: a chain of fetches of one site linked by
the redirects the fetchers make up.  One step is the end of one fetch.  The key
of a host carries the port, and the default port is the scheme's own, as in
`pool_key`; this is why the two schemes of a host on default ports do not know of each
other.  `HttpsOpens` is where an https fetch looks at the dead-host list, so
that other fetches may list the host in between.  `CrashInSave` leaves any
prefix of the file, the last key cut short (`Junk`).  `worked`, `wronged` and a load's `lost` are history.

### LLCache

A callback into a client is a state (`walk.in`) in which every operation of the
interface is enabled, on any handle, the one being called included.  `walk` is
the loop over users that is under way: the catch-up, a redirect, or an error
event; its fields are the locals of that loop.  A client may answer with an error in a catch-up (`ReturnError`); to an error or
redirect event hlcache and the contents answer NSERROR_OK, so the `break` of `llcache_send_event_to_users` is not there.  A user whose handle was released is `Gone`
and stays until the loop is past it, as `queued_for_delete` has it.  A body is
a number of chunks.  `FetchNoMemory` is the error path of
`llcache_fetch_callback`.  `got`, `total`, `late` and `missed` are history.  An object's number is not used again, so
that a stale reference cannot look valid.

### JSTimers

An id stands for its callback; the stash of a heap is a set of ids.  The clock
counts the seconds of `GetDateTime`, and may advance inside a callback.  The pump is cut at the
callback: `Fire` removes the head, `CallbackEnds` looks at the slot again, as
the code does, whatever has become of it.  `owner`, `fate` and `strayed` are history.

## 3. Runs

| Run | Question | Bounds |
|---|---|---|
| `scheduler` | does the list implement the timer map under re-entrant callbacks and failed allocations; does every run end, is every due job served? | 3 jobs, delays of 0, 1 and 2 ticks, clock to 3 |
| `fetch_core` | rings, caps, order and timer, with any fetcher | 2 fetches of one host, 1 each of two others, caps of 2 in all and 1 per host, so that both bite |
| `http` | does a fetch ever read another one's response, over a reused connection or from the cache; is a kept connection at the end of its response; does every accepted fetch end whatever the server does? | 2 fetches of one URL, dispatched one after the other, 2 slots, 2 endpoints, pool of 1, a body of 2 units with a length and a chunked one |
| `http_faults` | two fetches at once, with Open Transport errors, a failing client, a POST, redirects, governed images: do slots, endpoints and rings agree, and is every step one `fetch.c` allows? | 2 fetches, 2 slots, 2 endpoints, pool of 1, bodies of 1 unit |
| `chunk_decoder` | is exactly the body handed on, and is the end found, however the bytes are cut? | up to 2 chunks of up to 2 bytes (the second one of two), one chunk of 18, an extension longer than the buffer |
| `disk_cache` | what does a lookup find after overwrites, full volumes and crashes before the flush; when can a reload be stale? | 2 fetches of 1 URL, 3 stores, versions of 2 blocks and 1, stored in either order |
| `https` | do slots, connections and answers stay apart through retries, salvage, eviction and aborts; is a redirect ever sent to nobody, anything told twice; is every step one `fetch.c` allows? | a GET and a POST of one URL, 2 slots, 2 connections, pool of 1 with a connection to another host in it, 1 retry, a length of 2 units, an empty chunked response the scan misses, a redirect, llcache out of memory in any callback |
| `https_live` | does every accepted fetch end whatever the server does? | the same with 1 connection and bodies of 0 and 1 units |
| `scheme_fallback` | is a reachable site reached, does a bounce end, is a working host ever listed as dead? | 2 loads of 3 sites (a port in the URL, default ports, dead with HSTS), tables of 2, 1 and 1 entries, so that each evicts |
| `llcache` | what can clients do from inside a walk? | 2 handles, 2 objects of 1 URL, a body of 1 chunk, 4 calls of clients or turns of fetches |
| `js_timers` | do arena, list and stash agree under callbacks that edit them; is a due timer starved? | 2 slots, 3 timers, so that the arena overflows, 2 heaps, delays of 0 and 1 s, clock to 1 |

Why these bounds suffice for the question: the second fetch of a host is the
one that meets the first one's slot, connection, cache file or place in the queue, and a third
(with a second host) is needed only where the order in the queue matters.  A pool of one is both empty and
full.  Two units of body are enough for a read to end inside, at and after the body's end.
A version that is longer and one that is shorter, stored in either order, are the ways one file can be overwritten; the files of several URLs
are torn independently of each other, and the proof covers any number of them.
`MaxTick`, `MaxVersion`, `MaxStores`, `MaxTurns`, `MaxId`, `MaxHeaps` and `MaxTime` bound counters the code does
not; the first is reached by every run of the scheduler, and the properties that mention a tick stop one short of it.
In the tables of `scheme_fallback` a capacity of one makes every entry the oldest.  In `llcache` two objects are the least a redirect, a
snapshot or a candidate needs, and four turns reach each of them from inside a callback.

Symmetry is used for endpoints and connections, for the disk cache's fetches, for loads and for handles, and never
in a run with a liveness property.  Deadlock checking is off in `chunk_decoder`, where the decoder stops at the end
of its input, and in `llcache` and `js_timers`, where the bounds on turns and timers are reached and nothing is left to do.

### A run that shows a disagreement

`https_bad_chunk` adds servers whose chunks the decoder rejects.  `feed_body` then calls `hctx_fail`, which
reports the fetch and frees it, and returns 1, which its comment (`macos9_https_fetcher.c:1165`) says means that the body is complete;
its callers go on to `hctx_finish`, which sends FETCH_FINISHED to, and frees, the freed fetch.  TLC finds two finishing messages (`OneEnding`).

### Sentences of the repository that hold with exceptions

Each of these is in the model as the code has it, and checked in the form that holds; the exceptions are named in the properties.

- fixes248 (`macos9_disk_cache.c:224`) says that a file partly written at a crash fails the magic check at the next lookup, so that there is no
  risk of corrupted data.  A file cut short by a full volume is a miss.  After a crash it need not be: the header may be on the disk
  and a block of the body not, or be an older store's.  `ReadsBackLastStore` and `MissesUnlessTorn` hold of every file that had no unflushed write at a crash
  or has been stored since.
- fixes90 (`fetch.c:284`, `main.c:749`) says that the chain of `fetcher_poll` goes dormant when the last active fetch ends, and strands what is queued then.
  The end of a fetch does not do it, since a fetch queued later arms the timer and one queued before is dispatched by it; an allocation that fails in `schedule()` does.
  `PollChainAlive`: *armed, or lost to such an allocation*.  In that case `fetch_pump` is all that polls, and the runs
  that show that every fetch ends (`http`, `https_live`) rest on it.
- `macos9_disk_cache.h:24` says that with the flag set Reload forces a fresh fetch.  `StaleReloadWasCrossed`: except if another
  fetch's store, which clears the one global flag, ended between the Reload and its lookup.
- fixes317 says that if the other scheme also fails the error is surfaced.  `OneFallBack`: for hosts with a port in the URL, unless the
  tracker has lost the entry.  For hosts on default ports the two schemes have different keys, the load is sent back and forth
  up to llcache's redirect limit, and the host is never put on the dead-host list (`DefaultPortNeverListed`).
- `macsurf_js_timers.c:253` says that the loop's test keeps an interval of 0 ms from locking the event loop.  It compares the clock with the time the
  loop began, so once the clock advances inside a callback it never holds again, while the interval is armed again for that same time:
  `Locked` in `DueFires`.
- The same file says newly registered timers are kept alive by their stash entry.  One that is set by a callback when the arena is full, or after
  the callback has cleared itself, can get the slot of the timer that is running, and is retired with it (`LostOnly`).  All windows share
  one list, so the pump of the newest window's heap also retires the timers of other windows.

### Known divergences

What the models also show, and no property claims otherwise:

- An aborted slot of the HTTP fetcher becomes MFS_DONE and sends FETCH_FINISHED, possibly for a destroyed object, where `data.c:273` and
  `curl.c:1605` make no callback after an abort; if llcache aborts from inside a header callback (no memory), FETCH_REDIRECT follows,
  which fixes314 keeps the HTTPS fetcher's fall-back from doing because llcache then uses a NULL fetch.
- The HTTPS fetcher keeps to fixes314 in its fall-back, but not in `parse_headers` (`macos9_https_fetcher.c:1137`): if llcache runs out of memory in a FETCH_HEADER
  of a redirect, FETCH_REDIRECT is sent all the same, and `llcache_fetch_redirect` aborts a NULL fetch (`llcache.c:2366`).  This is the exception that `RedirectHeard` names
  (state *UNHEARD*): the redirect belongs to the very read in which llcache gave up.  No later poll sends one.
- The HTTP fetcher stores what came before an early close or an abort, where `macos9_disk_cache.h:9` has a body stored once the
  response is complete, and later serves it as whole.  The HTTPS fetcher does not (`SalvageNeverCached`).
- With a Content-Length of 0 the HTTP fetcher never tests for the end of the body (fixes91) and the fetch ends by the timeout.
- After an Open Transport error, or no memory for the header, the HTTP fetcher pools the endpoint in mid-response; `OwnResponse` is therefore
  checked without such errors (run `http`), and the owners of endpoints with them (`http_faults`).
- The comment of fixes317 speaks of refusing a 3xx of the server that crosses schemes; the code at `macos9_https_fetcher.c:875` looks at the fetchers' own fall-backs only.
- In llcache: an error from one client's callback ends the walk over the object, and its other users hear of the event only if something else
  schedules a catch-up; `force_stream` from inside a catch-up moves the object to the other list, and the rest of the first list misses this catch-up
  (both are `missed` in `CaughtUp`); a redirect after data moves users that hold bytes of one body to an object with another (`late` in `DoneSawAll`);
  a candidate's count is not lowered by FETCH_FINISHED without data or by `llcache_object_destroy`, so the candidate is kept for ever (`CandidatesLive` bounds it from below only).

### Fairness

MacSurf is single-threaded, and `WaitNextEvent` returns after a few ticks at the latest, so the
event loop comes round: weak fairness of the run loop's steps, of dispatch and polling.
`TickCount` advances: weak fairness of `Tick` and of `TimePasses`.  The server, the
client and the user owe nothing.  In `HttpFetcher` and `HttpsFetcher` one weak fairness condition covers the whole
poll loop, and one per slot the clock.  In `JSTimers` it covers the pump: the loop comes round, and a callback returns.
`SchemeFallback` states no fairness: `LoadsAdvance` gives a rank that each fetch of a load lowers, and that every fetch ends is what the two fetchers' runs show.

## 4. Proofs

All proofs are checked by TLAPS to the last leaf, for any sets of jobs, fetches and
endpoints, any caps, numbers of slots, pool size and response shapes.

**Scheduler** (`TimerProofs`, first half).  The inductive invariant `SchedIInv` is the type invariant, `Good`, and `RunState`.
`Good` says the queue is sorted, has one entry per job, keeps `NoOvertaking`, and that a
job with a non-empty overtaker set is due: without the last part an overtaken job could seem to lie behind a job with a
later time.  `RunState` ties `pc` to `callback` and `now` to the clock.
`SchedulerTypes`, `SchedulerQueue` and `SchedulerNoOvertaking` follow.  `SchedulerImplementsTimerMap` is the refinement: each step is
mapped to a step of `TimerMap` by what insertion and removal do to the set of entries.

**Fetch core** (`FetchCoreProofs`).  `CoreIInv` is
`CoreTypeOK /\ RingsAgree /\ CapsInv /\ ChainInv /\ EndsInv`.  `CapsInv` adds that the
active ring is finite, so that cardinalities can be counted.  `ChainInv` says where the responsibility for arming the timer lies
while control is inside `fetch_start` or `fetcher_poll`; the lemma that carries it is `EmptyRingDispatches`: with nothing active the head
of the queue always has room, so the dispatch loop never ends with a queue and nothing active.
It has the timer armed or lost to a failed allocation, and nothing else.
`EndsInv` relates llcache's view, `last_msg` and the number of finishing messages.
Theorems: `CoreSpecRings`, `CoreSpecCaps`, `CoreSpecPollChain`, `CoreSpecOneEnding`, and the action property `CoreSpecHostOrder`.

**HTTP fetcher** (`HttpFetcherProofs`).  The invariant is `CoreIInv /\ HttpInv`; `HttpInv` has
`SlotsOK` (the part of the type invariant that is needed), `SlotsAgree`, `HandleInUse`, `NotYetTold` (a slot not yet reported has sent
nothing finishing) and `CallbackInv` (while the client is inside a callback the poll loop stands at the slot that
made it).  The step lemma proves both that `HttpInv` is kept and that the step is a step of `FetchCore`, so
`HttpImplementsFetchCore` and `HttpSlotsAgree` follow, and with them the five
properties of the fetch core for the HTTP fetcher (`HttpKeepsFetchCore`).

What the fetcher receives needs a second invariant, `NetInv`, over endpoints, wires and cached bodies.  `Owned` gives each open endpoint one owner.  `HoldsOK`
holds whatever fails: a fetch not yet opened holds nothing, one that waits has an endpoint or a cached body, and a POST is neither cached nor pooled.
`AnswerOK` holds as long as OTRcv fails only by a disconnect (`~OTErrors`): *what a slot has read and what is left on its wire make up a part of the answer to its own
request*; a slot that ends by its framing has an empty wire, and every other slot that ends gives up `keep_alive_ok`, so a pooled wire is empty.
With `OTErrors` the last part fails, which is what the run `http_faults` is about.  Here, unlike in the HTTPS fetcher, the pool drains wires, so what is pooled is shown free of answers to
POSTs rather than empty.  Theorems: `HttpFaultsContained` for all faults; `HttpOwnResponse` and `HttpFramedIsWhole` for `~OTErrors`, the setting of the run that checks them.

**HTTPS fetcher** (`HttpsFetcherProofs`).  The invariant is `CoreIInv /\ HttpsInv /\ NetInv`.  `HttpsInv` is about slots and messages: every slot is
well typed and in a state its fields allow, serves one fetch that was dispatched, and has been started if that fetch is in the active ring;
what a client has heard fits the state of the slot; and while the client is inside a callback the poll loop
stands at the slot that made it.  `NetInv` is about connections: each is owned by one slot, by the pool, or by nobody; *what a slot has read, together
with what is left on its wire, is a part of the answer to its own request*; the wire of a pooled connection is empty; while a poll goes on after llcache gave up, what it read and has not fed comes between the two; a salvaged body is never captured for the cache.
The second of these is the heart of the proof: `feed_body` returns 1 only when the body is complete, and then nothing can be left on the wire, so a
connection that goes back to the pool carries nothing into the next fetch.  Theorems: `HttpsImplementsFetchCore` and with it the five
properties of the fetch core (`HttpsKeepsFetchCore`), `HttpsSlotsServe`, `HttpsConnsSound`, `HttpsAnswersSound`, `HttpsRedirectHeard`, and the
action property `HttpsNothingRepeated`.

**Scheme fall-back** (`SchemeFallbackProofs`).  `IInv` has one part for the tracker, the dead-host list in memory, the same list on
disk, the loads, and the hosts that have succeeded.  A key with the default port hears of its own scheme only; `http_failed` stands only
where http can fail and no HSTS forbids it; a load that has fallen back has left its mark in the tracker, on the scheme it
came from, unless the mark was pushed out or reset (`lost`); while no more hosts have worked than the table of successes can hold, it has all of them.
From it follow `SchemeTablesSound`, `SchemeFallBackSound` and `SchemeDeadListSound`.  `SchemeLoadsAdvance` is an action property: the redirects llcache
still allows, and whether the fetch was opened or aborted, make a rank that each step of a load's fetches lowers.

**Disk cache** (`BodyProofs`, first half).  `IInv` describes a store half way: the first `mark` units of the file are the store's own,
and the mark is behind what was written only if the volume is full, and then it is at the end of the file, so the length the header
promises is not there.  A file that nobody is writing is described by how its last store ended: whole, a beginning (volume full), or torn (unflushed writes at a
crash), of which nothing is known but its type: the length and each unit of a survivor are those of some content since the flush, or junk.  While the Mac is down every
file still undecided is marked as torn, so what a restart finds is.  A torn file is described again after its next store, because a store writes every unit below its end and sets the end of file.
A reload that no other store has crossed still has its skip flag.
`DiskReadsBack` and `DiskStaleReloadWasCrossed` follow.

**Chunk decoder** (`BodyProofs`, second half).  The claim is about every stream and every way of cutting it, so the invariant says where in
the stream the decoder is.  `Layout(w)` describes a stream by a record: the place where each size line begins, how much of the body comes before it, the trailer, the end.  `Reads`
then says that after `pos` bytes the decoder is inside size line *k* with the beginning of it in `chunk_size_buf`, inside a chunk with the rest of its size in
`chunk_remaining`, in the CRLF behind one, in the trailer with the flag that `AtEol` computes from the bytes so far, or done.  `DecoderIInv` is
that there is such a `w` for the stream at hand (TLC cannot look for `w`; it checks the two properties).  Three inductions are needed, each
written as the least number for which the claim would fail: that the recursive functions behind `FlattenSeq` and `process_chunked_bytes` are what they
are defined to be (`FlattenPrefixes`, `FoldRecursion`), that the encoding has a layout (`PrefixParts`, `StreamLayout`), and that what one byte preserves (`ByteStep`) any number does (`BytesStep`).  What
`strtol16` computes is not unfolded: it enters through `ServerAssumption` only.  Theorems: `DecoderDeliversBody` and `DecoderEndsWithResponse`, for bodies, extensions and trailers of any length.

**Script timers** (`TimerProofs`, second half).  `IInv` is `TimersSound`, which is not inductive by itself, with `IdsInv` (no two slots have one id; an id is in the
stash of its own heap only; the stash of a closed heap is empty), `FateInv` (a live timer is pending unless it is the
one-shot timer that is running; *a freed timer that is still listed has no callback*) and `PumpInv` (the slot the pump is at is listed only if a
callback of this heap was given it for a new timer; if no callback was found nothing has happened since).  `FateInv` is what makes the slot that
`CallbackEnds` frees although it is listed harmless.  Theorems: `TimersAlwaysSound`, and the action properties `TimersFirePending` and `TimersLostOnly`.

**Low-level cache** (`LLCacheProofs`).  The five properties need one invariant between them, because each rests on the others: what a catch-up still
has to do depends on where the lists keep the objects, and whether a body is complete on who can be streaming it.  `IInv` is `Sound` and, while
`all_caught_up` is set, `CatchOK`.  `Sound` has these parts.

- `ListsOK`, `UsersOK`: each object is on exactly one list, once; each handle is a user of its object, once; the only user without a handle is the
  target of the loop, when it is queued for deletion.
- `WalkOK`: the object and the user that a loop is at exist.  This holds through a purge from inside a callback because the cleaner spares
  what has a user, and through a release because the target is unlinked by the loop and not by the client.
- `CandOK`: a candidate's count is at least the number of objects that name it (`CandidatesLive` for the set of namers, which the steps enlarge or reduce by one).
- `StreamOK`: a streamed object that no redirect has made late is not on the cached list, where a second retrieval would find it.
- `FlowsOK`: *chunks taken and chunks still to be given are the chunks received*, `got + source_len = total + bytes` (`Balanced`), kept as long as DONE has not been
  taken; it also holds in the state to which a client that answers NEED_DATA would go back.  `DoneSawAll` is what this says when all bytes are given.

`CatchOK` says that each user has had what is due to it, or is one of those left out (`missed`), or is `Ahead`: behind the user the loop is at, on an object
behind the one it is at, or on the list the second loop has still to follow.  When a loop ends nobody is ahead, and `CaughtUp` follows.
The hard steps are those that change a list while a loop stands on it: `force_stream` moves the object itself to the other list, a purge removes objects on either side of it, a retrieval from
inside a callback adds one in front, and a redirect moves all users of an object at once.  Theorems: `LLCacheUsersSound`, `LLCacheCandidatesLive`, `LLCacheCaughtUp`,
`LLCacheDoneSawAll` and the action property `LLCacheReleasedUnheard`, for any handles and URLs, any finite set of objects and any bounds.

Assumptions: the caps, `MAX_F`, `MAX_TIMERS` and `MaxVersion` are positive, `NoSlot` is 0 (in `JSTimers` outside the slots), `POOL_SIZE`, the number of retries
and the bounds on counters are natural numbers, the "none" values are outside the sets they stand beside, a cut key (`Junk`) is no host's key, the servers' responses are
of the kinds the modules know, chunked responses are well formed (`ServerAssumption`), delays are natural numbers.  TLC evaluates each on every instance.

Only model-checked: liveness (`RunEnds`, `DueIsServed`, `EveryFetchEnds`, `DueFires`), since the prover has neither fairness nor ENABLED.  Every other property of a passing run is stated by a theorem.

## 5. What is not modelled

- The 32-bit wrap of `TickCount` after 828 days.
- Scheme registration in `fetch.c`, multipart data, cookies.
- The fetcher's per-page skip counters, the heavy-site latch, class caps that only log.
- Malformed responses: a chunk size that is negative or does not parse, a negative Content-Length.
- Collisions of the 32-bit hash that names cache files (the URL is not in the file, so a collision would be served).
- In `HttpsFetcher`, headers longer than the buffer beyond what `HDR_BUF_MAX` units give.
- In `LLCache`, authentication and certificate queries and FETCH_NOTMODIFIED (no fetcher of this front end sends them), the backing store (the null store is linked), finalisation.
- The `auto_upgrade` list of the HTTPS fetcher, which nothing consults.
- hlcache and the content handlers above llcache: NetSurf core, unchanged, whose interest is in parsing and layout rather than in a protocol; downloads; the JavaScript bridge, a marshalling layer; drawing.
- The components marked `not_modelled` in `PROJECT.json`.

## 6. Plan

Done: all modules of section 2 with their runs; the proofs of section 4.

Next: `Download` (create, data, error and done on one file), on `TimerMap` and the fetch events of `LLCache`.
