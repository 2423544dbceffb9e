----------------------------- MODULE DiskCache -----------------------------
(***************************************************************************)
(* macos9_disk_cache.c: the body cache the HTTP and HTTPS fetchers share,  *)
(* one file per URL, overwritten in place; and the one global flag by      *)
(* which Reload and the URL bar make lookups miss.                         *)
(*                                                                         *)
(* macos9_cache_store runs to its end without returning to the event loop; *)
(* its writes are separate steps here because the volume may fill up,      *)
(* unnoticed, and because the Mac may crash between two of them.  No store *)
(* flushes the volume (fixes248): what was written since the last flush is *)
(* in the HFS cache, and a crash at any time, long after the stores have   *)
(* returned, may leave any mixture of it in any number of files.           *)
(*                                                                         *)
(* Abstractions: a file is a sequence of units, the header, the MIME type  *)
(* and the body blocks, tagged with the store that wrote them; MIME types  *)
(* have one length; the FNV-1a file names of the URLs in play differ.  A   *)
(* fetch is what the fetchers make of it: queued, then a lookup, then, on  *)
(* a miss, the response and, if eligible, a store.  The server's page has  *)
(* a version, and Blocks gives a version's size.                           *)
(***************************************************************************)
EXTENDS Naturals, Sequences, FiniteSets, SequencesExt

CONSTANTS
    Fetches,       \* fetches in play
    Urls,          \* the URLs, one cache file each
    MaxVersion,    \* how often the server's pages change: bound
    Blocks,        \* Blocks[v]: how many body blocks version v has
    MaxStores,     \* how many stores a run makes: bound
    DiskFull,      \* the volume may fill up
    Crashes        \* the Mac may crash

ASSUME BoundsAssumption == MaxVersion \in Nat \ {0} /\ MaxStores \in Nat
ASSUME BlocksAssumption == \A v \in 1..MaxVersion : Blocks[v] \in Nat \ {0}

VARIABLES
    file,      \* per URL, the cache file as the File Manager shows it
    past,      \* per URL, every content the file has had since the last flush
    skip,      \* macsurf_http_skip_next_cache
    server,    \* per URL, the version the server has
    f_,        \* the fetches
    store,     \* the store in progress
    stores,    \* history: every store that was started
    ended      \* history: how the last store into each file ended

vars == <<file, past, skip, server, f_, store, stores, ended>>

Versions == 1..MaxVersion
NoStore == [phase |-> "none"]
Down == [phase |-> "down"]
Unit == [store : 0..MaxStores, part : {"hdr", "mime", "body", "junk"}, n : Nat, len : Nat]
Junk == [store |-> 0, part |-> "junk", n |-> 0, len |-> 0]
Idle == [phase |-> "idle"]

(* A fetch: reload marks the one Reload made, since is the version the     *)
(* server had then, crossed whether another store ended before its lookup. *)
Fetch == [phase : {"queued", "network", "done"}, url : Urls, reload : BOOLEAN, since : Versions,
          crossed : BOOLEAN, got : Versions \cup {0}, body : Seq(Unit)]

TypeOK ==
    /\ file \in [Urls -> Seq(Unit)]
    /\ past \in [Urls -> SUBSET Seq(Unit)]
    /\ skip \in BOOLEAN
    /\ server \in [Urls -> Versions]
    /\ f_ \in [Fetches -> Fetch \cup {Idle}]
    /\ store = NoStore \/ store = Down \/
       store \in [phase : {"hdr", "mime", "body", "eof"}, id : 1..MaxStores, url : Urls,
                  fetch : Fetches, mark : Nat, n : Nat, len : Nat, full : BOOLEAN]
    /\ store # NoStore /\ store # Down => store.n <= store.len /\ store.mark <= Len(file[store.url])
    /\ stores \in Seq([url : Urls, version : Versions])
    /\ ended \in [Urls -> {"never", "whole", "short", "torn"}]

Init ==
    /\ file = [u \in Urls |-> <<>>]
    /\ past = [u \in Urls |-> {<<>>}]
    /\ skip = FALSE
    /\ server = [u \in Urls |-> 1]
    /\ f_ = [f \in Fetches |-> Idle]
    /\ store = NoStore
    /\ stores = <<>>
    /\ ended = [u \in Urls |-> "never"]

-----------------------------------------------------------------------------
(* Fetches.                                                                *)

Begin(f, u, reload) ==
    f_' = [f_ EXCEPT ![f] = [phase |-> "queued", url |-> u, reload |-> reload,
                             since |-> server[u], crossed |-> FALSE, got |-> 0, body |-> <<>>]]

(* A fetch the page makes: a link, an image, a stylesheet.                 *)
FetchPage(f, u) ==
    /\ store = NoStore /\ f_[f].phase \in {"idle", "done"}
    /\ Begin(f, u, FALSE)
    /\ UNCHANGED <<file, past, skip, server, store, stores, ended>>

(* Mutant: Reload leaves the flag alone. *)
ReloadUnflagged(f, u) ==
    /\ store = NoStore /\ f_[f].phase \in {"idle", "done"}
    /\ Begin(f, u, TRUE)
    /\ UNCHANGED <<file, past, skip, server, store, stores, ended>>

(* macos9_window_reload, and the URL bar: set the flag, start the fetch.   *)
Reload(f, u) ==
    /\ store = NoStore /\ f_[f].phase \in {"idle", "done"}
    /\ skip' = TRUE
    /\ Begin(f, u, TRUE)
    /\ UNCHANGED <<file, past, server, store, stores, ended>>

(* The header of a file: a missing or short file, or one that does not     *)
(* begin with the magic, has none.                                         *)
HasHeader(x) == Len(x) >= 1 /\ x[1].part = "hdr"

(* Mutant: the count FSRead returns is not compared. *)
ReadableShort(x) == HasHeader(x) /\ Len(x) >= 3

(* FSRead finds the MIME type and header.len blocks after it.              *)
Readable(x) == HasHeader(x) /\ Len(x) >= 2 + x[1].len

BodyOf(x) == SubSeq(x, 3, IF Len(x) < 2 + x[1].len THEN Len(x) ELSE 2 + x[1].len)

(* mfs_open's macos9_cache_lookup hits; malloc may fail, so a hit is never *)
(* certain.                                                                *)
LookupHit(f) ==
    /\ store = NoStore /\ f_[f].phase = "queued"
    /\ ~skip
    /\ Readable(file[f_[f].url])
    /\ f_' = [f_ EXCEPT ![f].phase = "done", ![f].body = BodyOf(file[f_[f].url])]
    /\ UNCHANGED <<file, past, skip, server, store, stores, ended>>

(* It misses, and the server answers the request with what it has.         *)
LookupMiss(f) ==
    /\ store = NoStore /\ f_[f].phase = "queued"
    /\ f_' = [f_ EXCEPT ![f].phase = "network", ![f].got = server[f_[f].url]]
    /\ UNCHANGED <<file, past, skip, server, store, stores, ended>>

(* The response is complete but not eligible, or was aborted before a byte *)
(* of it came.                                                             *)
FinishUnstored(f) ==
    /\ store = NoStore /\ f_[f].phase = "network"
    /\ f_' = [f_ EXCEPT ![f].phase = "done"]
    /\ UNCHANGED <<file, past, skip, server, store, stores, ended>>

ServerEdit(u) ==
    /\ store = NoStore /\ server[u] < MaxVersion
    /\ server' = [server EXCEPT ![u] = @ + 1]
    /\ UNCHANGED <<file, past, skip, f_, store, stores, ended>>

-----------------------------------------------------------------------------
(* macos9_cache_store.                                                     *)

(* The file is there or is created, opened, and its mark set to the start. *)
StoreOpen(f) ==
    /\ store = NoStore /\ f_[f].phase = "network" /\ Len(stores) < MaxStores
    /\ LET u == f_[f].url
       IN  /\ store' = [phase |-> "hdr", id |-> Len(stores) + 1, url |-> u, fetch |-> f,
                        mark |-> 0, n |-> 0, len |-> Blocks[f_[f].got],
                        full |-> FALSE]
           /\ stores' = Append(stores, [url |-> u, version |-> f_[f].got])
           /\ f_' = [f_ EXCEPT ![f].phase = "done"]
    /\ UNCHANGED <<file, past, skip, server, ended>>

(* File x with unit e written at the mark.                                 *)
WriteAt(x, mark, e) == IF mark < Len(x) THEN [x EXCEPT ![mark + 1] = e] ELSE Append(x, e)

UnitOf(part, n) == [store |-> store.id, part |-> part, n |-> n, len |-> store.len]

(* File u has become x, in the HFS cache.                                  *)
Becomes(u, x) ==
    /\ file' = [file EXCEPT ![u] = x]
    /\ past' = [past EXCEPT ![u] = @ \cup {x}]

(* FSWrite writes one unit and advances the mark; one that would grow the  *)
(* file fails once the volume is full, and nobody looks at the error.      *)
Write(e, next) ==
    \/ /\ store.mark < Len(file[store.url]) \/ ~store.full
       /\ Becomes(store.url, WriteAt(file[store.url], store.mark, e))
       /\ store' = [next EXCEPT !.mark = @ + 1]
    \/ /\ DiskFull /\ store.mark >= Len(file[store.url])
       /\ store' = [next EXCEPT !.full = TRUE]
       /\ UNCHANGED <<file, past>>

WriteHeader ==
    /\ store.phase = "hdr"
    /\ Write(UnitOf("hdr", 0), [store EXCEPT !.phase = "mime"])
    /\ UNCHANGED <<skip, server, f_, stores, ended>>

WriteMime ==
    /\ store.phase = "mime"
    /\ Write(UnitOf("mime", 0), [store EXCEPT !.phase = "body"])
    /\ UNCHANGED <<skip, server, f_, stores, ended>>

(* One block of the body's FSWrite.                                        *)
WriteBody ==
    /\ store.phase = "body"
    /\ LET n == store.n + 1
       IN  Write(UnitOf("body", n),
                 [store EXCEPT !.n = n, !.phase = IF n = store.len THEN "eof" ELSE @])
    /\ UNCHANGED <<skip, server, f_, stores, ended>>

(* SetEOF cuts what an older, longer body left (a file that is too short   *)
(* met a full volume, and stays so); the flag is cleared, whatever was     *)
(* written.                                                                *)
StoreEnd ==
    /\ store.phase = "eof"
    /\ LET x == file[store.url]
       IN  Becomes(store.url, SubSeq(x, 1, Min({Len(x), 2 + store.len})))
    /\ skip' = FALSE
    /\ f_' = [f \in Fetches |->
          IF f # store.fetch /\ f_[f].phase = "queued" THEN [f_[f] EXCEPT !.crossed = TRUE] ELSE f_[f]]
    /\ ended' = [ended EXCEPT ![store.url] = IF store.full THEN "short" ELSE "whole"]
    /\ store' = NoStore
    /\ UNCHANGED <<server, stores>>

-----------------------------------------------------------------------------
(* The volume.                                                             *)

Unflushed(u) == past[u] # {file[u]}

(* FlushVol, called by macos9_deadhost_save and by the debug log, writes   *)
(* out every file; HFS itself writes out any of them at any time.          *)
FlushVol(us) ==
    /\ store # Down
    /\ \E u \in us : Unflushed(u)
    /\ past' = [u \in Urls |-> IF u \in us THEN {file[u]} ELSE past[u]]
    /\ UNCHANGED <<file, skip, server, f_, store, stores, ended>>

(* The Mac goes down, inside a store or not.                               *)
Crash ==
    /\ Crashes /\ store # Down
    /\ store' = Down
    /\ skip' = FALSE
    /\ f_' = [f \in Fetches |-> Idle]
    /\ ended' = [u \in Urls |->
          IF Unflushed(u) \/ (store # NoStore /\ store.url = u) THEN "torn" ELSE ended[u]]
    /\ UNCHANGED <<file, past, server, stores>>

(* What a file with the contents S since the last flush may be after a     *)
(* crash: as long as one of them, each unit as it was in one of them, or   *)
(* what the disk block held before where one of them was too short.        *)
UnitsAt(S, i) == {IF i <= Len(x) THEN x[i] ELSE Junk : x \in S}
Mixtures(S, n) ==
    {[i \in 1..n |-> CHOOSE e \in UnitsAt(S, i) : e.store = from[i]] :
        from \in {g \in [1..n -> 0..MaxStores] :
                    \A i \in 1..n : \E e \in UnitsAt(S, i) : e.store = g[i]}}
Survivors(S) == UNION {Mixtures(S, Len(x)) : x \in S}

(* Such a file as the next start finds it.                                 *)
Survive(u) ==
    /\ store = Down /\ Unflushed(u)
    /\ \E x \in Survivors(past[u]) :
          /\ file' = [file EXCEPT ![u] = x]
          /\ past' = [past EXCEPT ![u] = {x}]
    /\ UNCHANGED <<skip, server, f_, store, stores, ended>>

Restart ==
    /\ store = Down /\ \A u \in Urls : ~Unflushed(u)
    /\ store' = NoStore
    /\ UNCHANGED <<file, past, skip, server, f_, stores, ended>>

Next ==
    \/ \E f \in Fetches, u \in Urls : FetchPage(f, u) \/ Reload(f, u)
    \/ \E f \in Fetches : LookupHit(f) \/ LookupMiss(f) \/ FinishUnstored(f) \/ StoreOpen(f)
    \/ \E u \in Urls : ServerEdit(u)
    \/ WriteHeader \/ WriteMime \/ WriteBody \/ StoreEnd
    \/ \E us \in SUBSET Urls : FlushVol(us)
    \/ Crash
    \/ \E u \in Urls : Survive(u)
    \/ Restart

Spec == Init /\ [][Next]_vars

-----------------------------------------------------------------------------
(* Properties.                                                             *)

(* Body b is the whole body of one store.                                  *)
OneStore(b) ==
    /\ \A i \in DOMAIN b : b[i].part = "body" /\ b[i].n = i /\ b[i].store = b[1].store
    /\ Len(b) = b[1].len

(* Over any history of overwrites by longer and shorter bodies, full       *)
(* volumes and crashes, a file whose last store neither met a full volume  *)
(* nor was still unflushed at a crash reads back as the body of that       *)
(* store, and one that is torn is whole again after its next store.        *)
ReadsBackLastStore ==
    store = NoStore =>
       \A u \in Urls :
          ended[u] = "whole" =>
             /\ Readable(file[u])
             /\ OneStore(BodyOf(file[u]))
             /\ \A i \in DOMAIN stores : stores[i].url = u => i <= BodyOf(file[u])[1].store

(* fixes248 says of a crash that a partly written file fails the check at  *)
(* the next lookup.  A file cut short by a full volume does, whatever was  *)
(* there before; one that had unflushed writes at a crash may pass it with *)
(* the blocks of several stores, or of none, behind a valid header.        *)
MissesUnlessTorn ==
    store = NoStore =>
       \A u \in Urls :
          Readable(file[u]) /\ ~OneStore(BodyOf(file[u])) => ended[u] = "torn"

(* What a lookup reads is the last store of its URL, whole, or a miss; the *)
(* files not yet flushed at a crash are the one exception.                 *)
ReadsBack == TypeOK /\ ReadsBackLastStore /\ MissesUnlessTorn

(* The reload of f gave a page, or a part of one, that the server no       *)
(* longer had when Reload was chosen.                                      *)
StaleReload(f) ==
    /\ f_[f].phase = "done" /\ f_[f].reload
    /\ LET b == f_[f].body
       IN  \E i \in DOMAIN b : b[i] # Junk /\ stores[b[i].store].version < f_[f].since

(* macos9_disk_cache.h says that with the flag set the Reload button forces *)
(* a fresh fetch.  It does, with one exception: a store of another fetch   *)
(* that ended between the Reload and its lookup has cleared the flag.      *)
StaleReloadWasCrossed == \A f \in Fetches : StaleReload(f) => f_[f].crossed
=============================================================================
