------------------------------ MODULE LLCache ------------------------------
(***************************************************************************)
(* The low-level cache (content/llcache.c): objects shared by their users, *)
(* the two lists they are on, the events of their fetches, and the walk    *)
(* that catches users up with their objects by calling their clients.      *)
(*                                                                         *)
(* A client may do what it likes from within its callback ("Our contract   *)
(* with clients"): release, abort or clone any handle, retrieve more,      *)
(* start to stream, purge the cache.  So a callback is a state of the      *)
(* model, `walk.in', in which the client's operations are enabled, and     *)
(* what llcache does between two callbacks is a few steps of the walk.     *)
(*                                                                         *)
(* Abstractions: the body of an object is a number of chunks; its cache    *)
(* control data is whether it has a lifetime left or asks for validation,  *)
(* and whether its request time is known; there is no persistent store     *)
(* (macos9 has null_llcache_table); the macos9 fetchers send no            *)
(* FETCH_NOTMODIFIED, FETCH_AUTH, FETCH_CERTS, FETCH_CERT_ERR,             *)
(* FETCH_SSL_ERR, FETCH_TIMEDOUT or FETCH_PROGRESS; hlcache and the        *)
(* contents answer NSERROR_OK to an error or redirect event.               *)
(***************************************************************************)
EXTENDS Naturals, FiniteSets, Sequences, SequencesExt

CONSTANTS
    Handles,      \* handles the clients may have
    Objects,      \* numbers of the objects there may be
    Urls,
    MaxLen,       \* bound on the chunks of a body
    MaxTurns,     \* bound on the calls clients make and the turns fetches take
    NoObject, NoHandle, Gone

ASSUME LLCacheAssumption ==
    /\ IsFiniteSet(Objects) /\ Objects \subseteq Nat
    /\ NoObject \notin Objects /\ NoObject \notin Urls
    /\ NoHandle \notin Handles /\ Gone \notin Handles /\ Gone # NoHandle
    /\ MaxLen \in Nat /\ MaxTurns \in Nat

\* llcache_fetch_state
INIT == 0
HEADERS == 1
DATA == 2
COMPLETE == 3

VARIABLES
    obj,            \* the objects
    cached_objects, uncached_objects,   \* the lists, head first
    handle,         \* the clients' handles
    all_caught_up,  \* FALSE: a catch-up is scheduled
    walk,           \* the loop over users that is under way
    missed,         \* the users the last catch-up was kept from
    turns           \* how many of them, for the bound

vars == <<obj, cached_objects, uncached_objects, handle, all_caught_up, walk, missed,
          turns>>
lists == <<cached_objects, uncached_objects>>

Object == [url : Urls, users : Seq(Handles \cup {Gone}), state : INIT..COMPLETE,
           source_len : 0..MaxLen,         \* chunks kept
           total : 0..MaxLen,              \* chunks received
           fetch : BOOLEAN,                \* fetch.fetch is not NULL
           force : BOOLEAN, stream : BOOLEAN,   \* fetch.flags
           candidate : Objects \cup {NoObject}, candidate_count : 0..Cardinality(Objects),
           cache : {"fresh", "stale", "validate"}, timed : BOOLEAN,
           late : BOOLEAN]                 \* users came with data of another object

Handle == [object : Objects \cup {NoObject}, state : INIT..COMPLETE, bytes : 0..MaxLen,
           got : 0..MaxLen]                \* chunks the client has taken

(* No object, before it is made and after it is destroyed; an object's     *)
(* number is not used again.                                               *)
Free == [url |-> NoObject]

Destroyed == [url |-> NoObject, destroyed |-> TRUE]

NoWalk == [kind |-> "none", object |-> NoObject, user |-> NoHandle, in |-> FALSE,
           event |-> "none", objstate |-> INIT, orig |-> 0, queued |-> FALSE,
           uncached |-> FALSE, to |-> NoObject]

NewObject(url, force, stream) ==
    [url |-> url, users |-> <<>>, state |-> INIT, source_len |-> 0, total |-> 0,
     fetch |-> TRUE, force |-> force, stream |-> stream, candidate |-> NoObject,
     candidate_count |-> 0, cache |-> "stale", timed |-> TRUE, late |-> FALSE]

Released == [object |-> NoObject, state |-> INIT, bytes |-> 0, got |-> 0]

Live == {o \in Objects : obj[o] \notin {Free, Destroyed}}

Held == {h \in Handles : handle[h].object # NoObject}

Walking == walk.kind # "none"

TypeOK ==
    /\ \A o \in Live : obj[o] \in Object
    /\ cached_objects \in Seq(Live) /\ uncached_objects \in Seq(Live)
    /\ handle \in [Handles -> Handle]
    /\ all_caught_up \in BOOLEAN
    /\ missed \in SUBSET Handles
    /\ turns \in 0..MaxTurns
    /\ walk \in [kind : {"none", "notify", "redirect", "error"}, object : Objects \cup {NoObject},
                 user : Handles \cup {Gone, NoHandle}, in : BOOLEAN,
                 event : {"none", "headers", "data", "done"},
                 objstate : INIT..COMPLETE, orig : 0..MaxLen,
                 queued : BOOLEAN, uncached : BOOLEAN, to : Urls \cup {NoObject}]

Init ==
    /\ obj = [o \in Objects |-> Free]
    /\ cached_objects = <<>> /\ uncached_objects = <<>>
    /\ handle = [h \in Handles |-> Released]
    /\ all_caught_up = TRUE
    /\ walk = NoWalk
    /\ missed = {}
    /\ turns = 0

-----------------------------------------------------------------------------
(* Objects and their users.                                                *)

Unmade == {o \in Objects : obj[o] = Free}

HasRoom == Unmade # {}

NewId == CHOOSE o \in Unmade : \A p \in Unmade : o <= p

(* The list without this member, which it holds once.                      *)
Without(list, x) ==
    IF x \in Range(list) THEN RemoveAt(list, CHOOSE i \in DOMAIN list : list[i] = x) ELSE list

(* llcache_object_remove_from_list, llcache_object_add_to_list.            *)
OnCachedList(o) == \E i \in DOMAIN cached_objects : cached_objects[i] = o

(* llcache_invalidate_cache_control_data.                                  *)
Invalidated(object) == [object EXCEPT !.cache = "stale", !.timed = FALSE]

(* llcache_object_is_fresh.                                                *)
Fresh(object) ==
    object.cache # "validate" /\ (object.cache = "fresh" \/ object.state # COMPLETE)

(* The most recently fetched object of the URL: an invalidated one has no  *)
(* request time, and comes last.                                           *)
Newest(url) ==
    LET match == {i \in DOMAIN cached_objects : obj[cached_objects[i]].url = url}
        timed == {i \in match : obj[cached_objects[i]].timed}
    IN  IF match = {} THEN NoObject
        ELSE cached_objects[Min(IF timed = {} THEN match ELSE timed)]

(* llcache_object_retrieve: the object, and the objects and lists with it. *)
Retrieved(url, force, stream) ==
    LET newest == IF force THEN NoObject ELSE Newest(url)
        new == [NewObject(url, force, stream) EXCEPT !.candidate = newest]
        id == NewId
        counted == IF newest = NoObject THEN obj
                   ELSE [obj EXCEPT ![newest].candidate_count = @ + 1]
    IN  IF newest # NoObject /\ Fresh(obj[newest])
        THEN [object |-> newest, obj |-> obj,
              cached |-> cached_objects, uncached |-> uncached_objects]
        ELSE [object |-> id, obj |-> [counted EXCEPT ![id] = new],
              cached |-> IF force THEN cached_objects ELSE <<id>> \o cached_objects,
              uncached |-> IF force THEN <<id>> \o uncached_objects ELSE uncached_objects]

(* Bounds: an object to be had, and on how often one is a candidate.       *)
Bounded(url, force) ==
    LET newest == IF force THEN NoObject ELSE Newest(url)
    IN  \/ newest # NoObject /\ Fresh(obj[newest])
        \/ /\ HasRoom
           /\ newest # NoObject => obj[newest].candidate_count < Cardinality(Objects)

ReleaseCandidate(os, o) ==
    IF os[o].candidate = NoObject THEN os
    ELSE [os EXCEPT ![os[o].candidate].candidate_count = @ - 1, ![o].candidate = NoObject]

-----------------------------------------------------------------------------
(* What clients do: from the event loop, or from within a callback.        *)

Turn == turns < MaxTurns /\ turns' = turns + 1

MayCall == (Walking => walk.in) /\ Turn

(* The user the loop is at: its iterator_target is set.                    *)
IsTarget(h) == Walking /\ walk.in /\ walk.user = h

llcache_handle_retrieve(h, url, force, stream) ==
    /\ MayCall /\ h \notin Held
    /\ Bounded(url, force)
    /\ \A o \in Live : h \notin Range(obj[o].users)
    /\ LET r == Retrieved(url, force, stream)
       IN  /\ obj' = [r.obj EXCEPT ![r.object].users = <<h>> \o @]
           /\ cached_objects' = r.cached /\ uncached_objects' = r.uncached
           /\ handle' = [handle EXCEPT ![h] = [Released EXCEPT !.object = r.object]]
    /\ all_caught_up' = FALSE
    /\ UNCHANGED <<walk, missed>>

(* Mutant: the user is removed although a loop is at it. *)
ReleaseTarget(h) ==
    /\ MayCall /\ h \in Held
    /\ obj' = [obj EXCEPT ![handle[h].object].users = Without(@, h)]
    /\ handle' = [handle EXCEPT ![h] = Released]
    /\ missed' = missed \ {h}
    /\ UNCHANGED <<walk, lists, all_caught_up>>

llcache_handle_release(h) ==
    /\ MayCall /\ h \in Held
    /\ IF IsTarget(h)
       THEN /\ walk' = [walk EXCEPT !.queued = TRUE]
            /\ UNCHANGED obj
       ELSE /\ obj' = [obj EXCEPT ![handle[h].object].users = Without(@, h)]
            /\ UNCHANGED walk
    /\ handle' = [handle EXCEPT ![h] = Released]
    /\ missed' = missed \ {h}
    /\ UNCHANGED <<lists, all_caught_up>>

AllAlone(h) == Len(obj[handle[h].object].users) = 1

(* llcache_handle_abort by the only user.                                  *)
AbortFetch(h) ==
    LET o == handle[h].object IN
    /\ MayCall /\ h \in Held /\ AllAlone(h)
    /\ obj' = [obj EXCEPT ![o] = [Invalidated(@) EXCEPT !.fetch = FALSE, !.state = COMPLETE]]
    /\ missed' = missed \cup {h}
    /\ UNCHANGED <<walk, lists, handle, all_caught_up>>

(* llcache_object_snapshot.                                                *)
Snapshot(o) ==
    [NewObject(obj[o].url, FALSE, FALSE) EXCEPT
        !.fetch = FALSE, !.state = COMPLETE, !.timed = FALSE,
        !.source_len = obj[o].source_len, !.total = obj[o].source_len,
        !.late = obj[o].late \/ obj[o].stream]

(* llcache_handle_abort by one of several: it goes on with a snapshot.  A  *)
(* user that is the target of a loop stays behind without its handle, to   *)
(* be deleted.                                                             *)
AbortToSnapshot(h) ==
    LET o == handle[h].object
        users == obj[o].users
        left == [i \in DOMAIN users |-> IF users[i] = h THEN Gone ELSE users[i]]
    IN
    /\ MayCall /\ h \in Held /\ ~AllAlone(h) /\ HasRoom
    /\ obj' = [obj EXCEPT ![NewId] = [Snapshot(o) EXCEPT !.users = <<h>>],
                          ![o].users = IF IsTarget(h) THEN left ELSE Without(@, h)]
    /\ uncached_objects' = <<NewId>> \o uncached_objects
    /\ handle' = [handle EXCEPT ![h].object = NewId]
    /\ walk' = IF IsTarget(h) THEN [walk EXCEPT !.user = Gone, !.queued = TRUE]
               ELSE walk
    /\ missed' = missed \cup {h}
    /\ UNCHANGED <<cached_objects, all_caught_up>>

(* hlcache_handle_abort of one of several users of a content: the content  *)
(* is cloned, with its llcache handle, and the clone's handle aborted.     *)
(* The clone has the state and not the byte count.                         *)
CloneAndAbort(h, clone) ==
    LET o == handle[h].object
        done == handle[h].state = COMPLETE
    IN
    /\ MayCall /\ h \in Held /\ clone \notin Held /\ HasRoom
    /\ handle[h].state >= DATA /\ ~obj[o].stream
    /\ \A p \in Live : clone \notin Range(obj[p].users)
    /\ obj' = [obj EXCEPT ![NewId] = [Snapshot(o) EXCEPT !.users = <<clone>>]]
    /\ uncached_objects' = <<NewId>> \o uncached_objects
    /\ handle' = [handle EXCEPT ![clone] = [Released EXCEPT !.object = NewId,
                                                !.state = handle[h].state,
                                                !.got = IF done THEN obj[o].source_len ELSE 0]]
    /\ missed' = missed \cup {clone}
    /\ UNCHANGED <<cached_objects, all_caught_up, walk>>

(* hlcache_migrate_ctx calls it, from an event of the handle.  The loop    *)
(* over the cached objects, which is at this one, goes on along the        *)
(* uncached ones: the users of the rest miss this catch-up.                *)
llcache_handle_force_stream(h) ==
    LET o == handle[h].object
        rest == {p \in Live : \E i, j \in DOMAIN cached_objects :
                                 i < j /\ cached_objects[i] = o /\ cached_objects[j] = p}
    IN
    /\ MayCall /\ h \in Held /\ AllAlone(h) /\ IsTarget(h) /\ walk.kind = "notify"
    /\ obj' = [obj EXCEPT ![o].stream = TRUE]
    /\ IF OnCachedList(o)
       THEN /\ cached_objects' = Without(cached_objects, o)
            /\ uncached_objects' = <<o>> \o uncached_objects
            /\ missed' = missed \cup {k \in Held : handle[k].object \in rest}
       ELSE UNCHANGED <<lists, missed>>
    /\ UNCHANGED <<walk, handle, all_caught_up>>

llcache_handle_invalidate_cache_data(h) ==
    LET o == handle[h].object IN
    /\ MayCall /\ h \in Held
    /\ ~obj[o].fetch /\ obj[o].cache # "validate"
    /\ obj' = [obj EXCEPT ![o].cache = "validate"]
    /\ UNCHANGED <<lists, handle, all_caught_up, walk, missed>>

(* Mutant: candidates are not counted. *)
UnusedUncounted(o) == obj[o].users = <<>> /\ ~obj[o].fetch

Unused(o) == obj[o].users = <<>> /\ obj[o].candidate_count = 0 /\ ~obj[o].fetch

(* llcache_clean: the unused objects that are uncached or stale, and, as   *)
(* long as the cache is over its limit, the others in the order of their   *)
(* list; all of them if it is purged.                                      *)
Cleaned(purge, gone) ==
    LET unused == {o \in Live : Unused(o)}
        fresh == {o \in unused : OnCachedList(o) /\ obj[o].cache = "fresh"}
    IN  /\ unused \ fresh \subseteq gone /\ gone \subseteq unused
        /\ purge => gone = unused
        /\ \A i, j \in DOMAIN cached_objects :
              i < j /\ cached_objects[i] \in fresh /\ cached_objects[j] \in gone \cap fresh
                 => cached_objects[i] \in gone

CleanedObjects(os, gone) == [o \in Objects |-> IF o \in gone THEN Destroyed ELSE os[o]]

Kept(list, gone) ==
    LET kept[n \in 0..Len(list)] ==
            IF n = 0 THEN <<>>
            ELSE IF list[n] \in gone THEN kept[n - 1]
            ELSE Append(kept[n - 1], list[n])
    IN  kept[Len(list)]

(* hlcache_clean from the scheduler; a purge when a page becomes ready,    *)
(* from within the callback that made it so (browser_window_content_ready).*)
llcache_clean(purge) ==
    /\ MayCall /\ (Walking => purge)
    /\ \E gone \in SUBSET Live :
          /\ Cleaned(purge, gone) /\ gone # {}
          /\ obj' = CleanedObjects(obj, gone)
          /\ cached_objects' = Kept(cached_objects, gone)
          /\ uncached_objects' = Kept(uncached_objects, gone)
    /\ UNCHANGED <<walk, handle, all_caught_up, missed>>

-----------------------------------------------------------------------------
(* llcache_fetch_callback.                                                 *)

Fetching(o) == ~Walking /\ o \in Live /\ obj[o].fetch

StartEvents(o, kind, to) ==
    [NoWalk EXCEPT !.kind = kind, !.object = o, !.to = to,
                   !.user = IF obj[o].users = <<>> THEN NoHandle ELSE Head(obj[o].users)]

(* llcache_fetch_process_header, for the headers of a response together.   *)
FetchHeader(o, cache) ==
    /\ Fetching(o) /\ obj[o].state = INIT
    /\ obj' = [obj EXCEPT ![o].state = HEADERS, ![o].cache = cache]
    /\ all_caught_up' = FALSE
    /\ UNCHANGED <<lists, handle, walk, missed, turns>>

(* llcache_fetch_process_data: a response whose status is not one to cache *)
(* is known by then.                                                       *)
FetchData(o, cachable) ==
    LET first == obj[o].state # DATA
        kept == IF cachable THEN obj ELSE [obj EXCEPT ![o] = Invalidated(@)]
        os == IF first THEN ReleaseCandidate(kept, o) ELSE obj
    IN
    /\ Fetching(o) /\ obj[o].state >= HEADERS /\ obj[o].total < MaxLen
    /\ first \/ cachable
    /\ obj' = [os EXCEPT ![o].state = DATA, ![o].source_len = @ + 1, ![o].total = @ + 1]
    /\ all_caught_up' = FALSE
    /\ UNCHANGED <<lists, handle, walk, missed, turns>>

FetchFinished(o) ==
    /\ Fetching(o) /\ obj[o].state >= HEADERS
    /\ obj' = [obj EXCEPT ![o].state = COMPLETE, ![o].fetch = FALSE]
    /\ all_caught_up' = FALSE
    /\ UNCHANGED <<lists, handle, walk, missed, turns>>

(* A header or a chunk for which there is no memory: the cache is purged   *)
(* and the fetch aborted.                                                  *)
FetchNoMemory(o) ==
    /\ Fetching(o) /\ Turn
    /\ \E gone \in SUBSET Live :
          /\ Cleaned(TRUE, gone)
          /\ obj' = CleanedObjects(
                       [obj EXCEPT ![o] = [Invalidated(@) EXCEPT !.fetch = FALSE,
                                                                 !.state = COMPLETE]], gone)
          /\ cached_objects' = Kept(cached_objects, gone)
          /\ uncached_objects' = Kept(uncached_objects, gone)
    /\ all_caught_up' = FALSE
    /\ UNCHANGED <<handle, walk, missed>>

(* The fetch is over, the candidate released, the cache data invalid.      *)
Stopped(o) ==
    LET os == ReleaseCandidate(obj, o)
    IN  [os EXCEPT ![o] = [Invalidated(@) EXCEPT !.fetch = FALSE, !.state = COMPLETE]]

FetchError(o) ==
    /\ Fetching(o) /\ Turn
    /\ obj' = Stopped(o)
    /\ walk' = StartEvents(o, "error", NoObject)
    /\ UNCHANGED <<lists, handle, all_caught_up, missed>>

(* llcache_fetch_redirect up to the users' events; a redirect past the     *)
(* limit, or to a URL that is not allowed, is an error.                    *)
FetchRedirect(o, url) ==
    /\ Fetching(o) /\ Turn
    /\ obj' = Stopped(o)
    /\ walk' \in {StartEvents(o, "redirect", url), StartEvents(o, "error", NoObject)}
    /\ UNCHANGED <<lists, handle, all_caught_up, missed>>

(* The object's lifetime runs out.                                         *)
Expire(o) ==
    /\ ~Walking /\ Turn /\ o \in Live /\ ~obj[o].fetch /\ obj[o].cache = "fresh"
    /\ obj' = [obj EXCEPT ![o].cache = "stale"]
    /\ UNCHANGED <<lists, handle, all_caught_up, walk, missed>>

-----------------------------------------------------------------------------
(* llcache_send_event_to_users, llcache_object_notify_users and            *)
(* llcache_catch_up_all_users.                                             *)

(* The user after this one, as the list is now.                            *)
UserAfter(o, u) ==
    LET users == obj[o].users
        later == {i \in DOMAIN users : i > 1 /\ users[i - 1] = u}
    IN  IF later = {} THEN NoHandle ELSE users[CHOOSE i \in later : TRUE]

(* The walk at the users of the object.                                    *)
AtObject(os, o, uncached) ==
    [NoWalk EXCEPT !.kind = "notify", !.object = o, !.user = Head(os[o].users),
                   !.objstate = os[o].state, !.uncached = uncached]

(* The walk at the first of these objects that has users.                  *)
Along(os, list, uncached) ==
    LET used == {i \in DOMAIN list : os[list[i]].users # <<>>}
    IN  IF used = {} THEN NoWalk ELSE AtObject(os, list[Min(used)], uncached)

(* The two loops of llcache_catch_up_all_users.                            *)
Loops(os, list, uncached) ==
    LET w == Along(os, list, uncached)
    IN  IF w = NoWalk /\ ~uncached THEN Along(os, uncached_objects, TRUE) ELSE w

(* object->next and so on, on whichever list the object is now.            *)
After(o) ==
    LET list == IF OnCachedList(o) THEN cached_objects ELSE uncached_objects
        i == CHOOSE k \in DOMAIN list : list[k] = o
    IN  SubSeq(list, i + 1, Len(list))

(* llcache_catch_up_all_users begins.                                      *)
CatchUp ==
    /\ ~Walking /\ ~all_caught_up
    /\ all_caught_up' = TRUE
    /\ walk' = Loops(obj, cached_objects, FALSE)
    /\ missed' = {}
    /\ UNCHANGED <<obj, lists, handle, turns>>

(* The walk at the next user, or past the last one of its object.          *)
Onward(os, u) ==
    IF u = NoHandle /\ walk.kind = "notify" THEN Loops(os, After(walk.object), walk.uncached)
    ELSE [walk EXCEPT !.user = u, !.in = FALSE, !.event = "none", !.queued = FALSE,
                      !.orig = 0,
                      !.objstate = IF walk.kind = "notify" THEN obj[walk.object].state ELSE INIT]

(* User: INIT, Obj: HEADERS, DATA, COMPLETE => User->HEADERS.              *)
Reached(h, objstate) ==
    IF handle[h].state = INIT /\ objstate > INIT THEN HEADERS ELSE handle[h].state

(* The event the user of an object in this state is due.                   *)
DueAt(h, o, objstate) ==
    LET state == Reached(h, objstate)
        more == obj[o].source_len > handle[h].bytes
    IN  IF state = HEADERS /\ objstate > HEADERS THEN "headers"
        ELSE IF state = DATA /\ objstate >= DATA /\ more THEN "data"
        ELSE IF state = DATA /\ objstate > DATA THEN "done"
        ELSE "none"

Due(h) == DueAt(h, walk.object, walk.objstate)

Notifying(h) == Walking /\ ~walk.in /\ walk.kind = "notify" /\ h \in Handles /\ walk.user = h

NothingDue(h) ==
    /\ Notifying(h) /\ Due(h) = "none"
    /\ handle' = [handle EXCEPT ![h].state = Reached(h, walk.objstate)]
    /\ walk' = Onward(obj, UserAfter(walk.object, h))
    /\ UNCHANGED <<obj, lists, all_caught_up, missed, turns>>

EmitHeaders(h) ==
    /\ Notifying(h) /\ Due(h) = "headers"
    /\ handle' = [handle EXCEPT ![h].state = DATA]
    /\ walk' = [walk EXCEPT !.in = TRUE, !.event = "headers"]
    /\ UNCHANGED <<obj, lists, all_caught_up, missed, turns>>

(* A streamed chunk is not kept, and cannot be replayed.                   *)
EmitData(h) ==
    LET o == obj[walk.object] IN
    /\ Notifying(h) /\ Due(h) = "data"
    /\ walk' = [walk EXCEPT !.in = TRUE, !.event = "data",
                            !.orig = IF o.stream THEN 0 ELSE handle[h].bytes]
    /\ handle' = [handle EXCEPT ![h].bytes = IF o.stream THEN 0 ELSE o.source_len,
                                ![h].got = @ + (o.source_len - handle[h].bytes)]
    /\ obj' = [obj EXCEPT ![walk.object].source_len = IF o.stream THEN 0 ELSE @]
    /\ UNCHANGED <<lists, all_caught_up, missed, turns>>

EmitDone(h) ==
    /\ Notifying(h) /\ Due(h) = "done"
    /\ handle' = [handle EXCEPT ![h].state = COMPLETE]
    /\ walk' = [walk EXCEPT !.in = TRUE, !.event = "done"]
    /\ UNCHANGED <<obj, lists, all_caught_up, missed, turns>>

(* LLCACHE_EVENT_REDIRECT or LLCACHE_EVENT_ERROR.                          *)
EmitEvent(h) ==
    /\ Walking /\ ~walk.in /\ walk.kind # "notify" /\ h \in Handles /\ walk.user = h
    /\ walk' = [walk EXCEPT !.in = TRUE]
    /\ UNCHANGED <<obj, lists, handle, all_caught_up, missed, turns>>

InCallback == Walking /\ walk.in

(* Mutant: between two events the loop does not look at queued_for_delete. *)
ReturnUnqueued ==
    /\ InCallback /\ walk.user \in Handles /\ (walk.queued => walk.kind = "notify")
    /\ walk' = IF walk.kind = "notify" THEN [walk EXCEPT !.in = FALSE, !.event = "none", !.orig = 0]
               ELSE Onward(obj, UserAfter(walk.object, walk.user))
    /\ UNCHANGED <<obj, lists, handle, all_caught_up, missed, turns>>

(* The callback returns NSERROR_OK: a walk goes on with what else the user *)
(* is due, an event with the next user.                                    *)
ReturnOk ==
    /\ InCallback /\ ~walk.queued
    /\ walk' = IF walk.kind = "notify" THEN [walk EXCEPT !.in = FALSE, !.event = "none", !.orig = 0]
               ELSE Onward(obj, UserAfter(walk.object, walk.user))
    /\ UNCHANGED <<obj, lists, handle, all_caught_up, missed, turns>>

(* The user was queued for deletion during its callback.                   *)
ReturnQueued ==
    /\ InCallback /\ walk.queued
    /\ obj' = [obj EXCEPT ![walk.object].users = Without(@, walk.user)]
    /\ walk' = Onward(obj', UserAfter(walk.object, walk.user))
    /\ UNCHANGED <<lists, handle, all_caught_up, missed, turns>>

(* Mutant: no catch-up is scheduled. *)
NeedsDataUnscheduled ==
    LET h == walk.user IN
    /\ InCallback /\ ~walk.queued /\ walk.event \in {"data", "done"}
    /\ walk.event = "data" => obj[walk.object].source_len > walk.orig
    /\ handle' = [handle EXCEPT ![h].state = DATA,
                                ![h].bytes = IF walk.event = "data" THEN walk.orig ELSE @,
                                ![h].got = IF walk.event = "data" THEN walk.orig ELSE @]
    /\ walk' = Onward(obj, UserAfter(walk.object, h))
    /\ UNCHANGED <<obj, lists, all_caught_up, missed, turns>>

(* Mutant: the byte count is not put back. *)
NeedsDataUnreplayed ==
    LET h == walk.user IN
    /\ InCallback /\ ~walk.queued /\ walk.event \in {"data", "done"}
    /\ walk.event = "data" => obj[walk.object].source_len > walk.orig
    /\ handle' = [handle EXCEPT ![h].state = DATA,
                                ![h].got = IF walk.event = "data" THEN walk.orig ELSE @]
    /\ all_caught_up' = FALSE
    /\ walk' = Onward(obj, UserAfter(walk.object, h))
    /\ UNCHANGED <<obj, lists, missed, turns>>

(* NSERROR_NEED_DATA: hlcache hands its handle to another callback, to     *)
(* which the event is to be replayed.  The object still has the chunks: a  *)
(* client that was streaming already does not ask for replay.              *)
ReturnNeedData ==
    LET h == walk.user IN
    /\ InCallback /\ ~walk.queued /\ walk.event \in {"data", "done"}
    /\ walk.event = "data" => obj[walk.object].source_len > walk.orig
    /\ handle' = [handle EXCEPT ![h].state = DATA,
                                ![h].bytes = IF walk.event = "data" THEN walk.orig ELSE @,
                                ![h].got = IF walk.event = "data" THEN walk.orig ELSE @]
    /\ all_caught_up' = FALSE
    /\ walk' = Onward(obj, UserAfter(walk.object, h))
    /\ UNCHANGED <<obj, lists, missed, turns>>

(* Another error ends the walk over this object: its other users miss the  *)
(* catch-up.                                                               *)
ReturnError ==
    LET o == walk.object IN
    /\ InCallback /\ walk.kind = "notify"
    /\ obj' = IF walk.queued THEN [obj EXCEPT ![o].users = Without(@, walk.user)] ELSE obj
    /\ missed' = missed \cup {h \in Held : handle[h].object = o}
    /\ walk' = Onward(obj', NoHandle)
    /\ UNCHANGED <<lists, handle, all_caught_up, turns>>

(* llcache_fetch_callback returns after its events.                        *)
EventsDone ==
    /\ Walking /\ ~walk.in /\ walk.user = NoHandle /\ walk.kind = "error"
    /\ walk' = NoWalk
    /\ all_caught_up' = FALSE
    /\ UNCHANGED <<obj, lists, handle, missed, turns>>

(* llcache_fetch_redirect moves the users to the object it redirects to.   *)
RedirectUsers ==
    LET o == walk.object
        users == obj[o].users
        r == Retrieved(walk.to, obj[o].force, obj[o].stream)
        left == [r.obj EXCEPT ![o].users = <<>>]
        late == \E h \in Handles : h \in Range(users) /\ handle[h].bytes + handle[h].got > 0
    IN
    /\ Walking /\ ~walk.in /\ walk.user = NoHandle /\ walk.kind = "redirect"
    /\ Bounded(walk.to, obj[o].force)
    /\ obj' = [left EXCEPT ![r.object].users = Reverse(users) \o @,
                           ![r.object].late = @ \/ late \/ obj[o].stream \/ obj[o].late]
    /\ cached_objects' = r.cached /\ uncached_objects' = r.uncached
    /\ handle' = [h \in Handles |->
          IF h \in Range(users)
          THEN [handle[h] EXCEPT !.object = r.object, !.got = handle[h].bytes]
          ELSE handle[h]]
    /\ walk' = NoWalk
    /\ all_caught_up' = FALSE
    /\ UNCHANGED <<missed, turns>>

(* The fetch of the target does not start.                                 *)
RedirectFails ==
    /\ Walking /\ ~walk.in /\ walk.user = NoHandle /\ walk.kind = "redirect"
    /\ walk' = StartEvents(walk.object, "error", NoObject)
    /\ UNCHANGED <<obj, lists, handle, all_caught_up, missed, turns>>

-----------------------------------------------------------------------------
Client ==
    \/ \E h \in Handles :
          \/ \E url \in Urls, download \in BOOLEAN :
                llcache_handle_retrieve(h, url, download, download)
          \/ llcache_handle_release(h)
          \/ \E clone \in Handles : CloneAndAbort(h, clone)
          \/ AbortFetch(h)
          \/ AbortToSnapshot(h)
          \/ llcache_handle_force_stream(h)
          \/ llcache_handle_invalidate_cache_data(h)
    \/ \E purge \in BOOLEAN : llcache_clean(purge)

Fetch ==
    \E o \in Objects :
       \/ \E cache \in {"fresh", "validate"} : FetchHeader(o, cache)
       \/ \E cachable \in BOOLEAN : FetchData(o, cachable)
       \/ FetchFinished(o)
       \/ FetchNoMemory(o)
       \/ FetchError(o)
       \/ \E url \in Urls : FetchRedirect(o, url)
       \/ Expire(o)

Walk ==
    \/ CatchUp
    \/ \E h \in Handles :
          NothingDue(h) \/ EmitHeaders(h) \/ EmitData(h) \/ EmitDone(h) \/ EmitEvent(h)
    \/ ReturnOk
    \/ ReturnQueued
    \/ ReturnNeedData
    \/ ReturnError
    \/ EventsDone
    \/ RedirectUsers
    \/ RedirectFails

Next == Client \/ Fetch \/ Walk

Spec == Init /\ [][Next]_vars

-----------------------------------------------------------------------------
(* Properties.                                                             *)

(* Whatever a client does in its callback, a purge of the cache included,  *)
(* the object and the user that llcache's loop is at are still there when  *)
(* it returns.                                                             *)
WalkSafe ==
    Walking => /\ walk.object \in Live
               /\ walk.user # NoHandle => walk.user \in Range(obj[walk.object].users)

(* Redirects, aborts, snapshots and clean-ups never lose a handle: it is a *)
(* user of one object that exists, once, and only a loop's own target can  *)
(* be a user without a handle.                                             *)
UsersAttached ==
    /\ \A h \in Held :
          LET o == handle[h].object
          IN  o \in Live /\ Cardinality({i \in DOMAIN obj[o].users : obj[o].users[i] = h}) = 1
    /\ \A o \in Live : \A i \in DOMAIN obj[o].users :
          LET u == obj[o].users[i]
          IN  \/ u \in Held /\ handle[u].object = o
              \/ walk.queued /\ walk.user = u /\ walk.object = o

(* An object that another names as its candidate is not destroyed before   *)
(* that fetch has had its answer.  (The count may stay too high: neither   *)
(* FETCH_FINISHED without data nor llcache_object_destroy lowers it.)      *)
CandidatesLive ==
    \A c \in {obj[o].candidate : o \in Live} \ {NoObject} :
        /\ c \in Live
        /\ obj[c].candidate_count >= Cardinality({o \in Live : obj[o].candidate = c})

(* When no catch-up is scheduled, every user has had the events its object *)
(* calls for, however the catch-up was interleaved with retrievals and     *)
(* deferred events; except those a walk left out: after an error or a      *)
(* force_stream ahead of them, and aborted handles.                        *)
CaughtUp ==
    all_caught_up /\ ~Walking =>
        \A h \in Held \ missed :
            DueAt(h, handle[h].object, obj[handle[h].object].state) = "none"

(* A user that is told DONE has had every chunk of the body once, through  *)
(* replays, streaming and snapshots; unless it had data when its fetch was *)
(* redirected.                                                             *)
DoneSawAll ==
    \A h \in Held : handle[h].state = COMPLETE =>
        LET o == obj[handle[h].object] IN o.late \/ handle[h].got = o.total

(* A body that is streamed away has no second user to miss it, unless a    *)
(* redirect after the data passed the flag on to an object that can be     *)
(* found.                                                                  *)
StreamAlone ==
    \A o \in Live : obj[o].stream /\ ~obj[o].late =>
        Cardinality({h \in Held : handle[h].object = o}) <= 1

(* The lists llcache walks are sound: nothing a loop is at disappears, no  *)
(* handle is lost or doubled, and a streamed body has one reader.          *)
UsersSound == TypeOK /\ WalkSafe /\ UsersAttached /\ StreamAlone

(* No event goes to a client that has released its handle, although the    *)
(* user may outlive it on the list.                                        *)
ReleasedUnheard == [][~InCallback /\ InCallback' => walk'.user \in Held]_vars
=============================================================================
