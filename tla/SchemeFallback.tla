--------------------------- MODULE SchemeFallback ---------------------------
(***************************************************************************)
(* What the two network fetchers remember about hosts, and what they do    *)
(* with it: the scheme tracker that is to stop http and https from sending *)
(* a load back and forth, the dead-host list with its file, and the list   *)
(* of hosts that have succeeded (macos9_https_fetcher.c), the http side of *)
(* the fall-back (macos9_http_fetcher.c), the file (macos9_disk_cache.c),  *)
(* the reset by a navigation (window.c) and llcache's limit on redirects.  *)
(*                                                                         *)
(* A load is what the page asked for: a chain of fetches of one site,      *)
(* linked by the redirects the fetchers make up.  One step is the end of   *)
(* one fetch.  HttpFetcher.tla and HttpsFetcher.tla have the fetches       *)
(* themselves and leave open what these tables say.                        *)
(*                                                                         *)
(* Abstractions: a site is a host and the port its URLs name; redirects    *)
(* that servers send are left out; a site has its HSTS policy from the     *)
(* start or never; a redirect URL fits its buffer; a key cut short by a    *)
(* crash in the save is a key no URL has.                                  *)
(***************************************************************************)
EXTENDS Naturals, FiniteSets, Sequences, SequencesExt

CONSTANTS
    Loads,                    \* loads that may run at the same time
    Sites,                    \* hosts
    Explicit,                 \* the sites whose URLs name their port
    Hsts,                     \* the sites with a Strict-Transport-Security policy
    Outcomes,                 \* what can come of a fetch of a site by a scheme
    HTTPS_SCHEME_TRACK_MAX,   \* capacity of scheme_track_list
    HTTPS_DEADHOSTS,          \* capacity of dead_hosts
    HTTPS_SUCCESS_HOSTS,      \* capacity of success_hosts
    RedirectLimit,            \* nsoption fetch_redirect_limit
    NoSite, Junk

ASSUME TableAssumption ==
    /\ HTTPS_SCHEME_TRACK_MAX \in Nat \ {0}
    /\ HTTPS_DEADHOSTS \in Nat \ {0}
    /\ HTTPS_SUCCESS_HOSTS \in Nat \ {0}
    /\ RedirectLimit \in Nat

Schemes == {"http", "https"}

ASSUME SiteAssumption ==
    /\ Explicit \subseteq Sites /\ Hsts \subseteq Sites /\ NoSite \notin Sites
    /\ Outcomes \in [Sites -> [Schemes -> SUBSET {"ok", "timeout", "error"}]]

VARIABLES
    scheme_track_list,  \* [key, https_failed, http_failed], oldest first
    dead_hosts,         \* keys, oldest first
    success_hosts,      \* keys, oldest first
    deadhosts_txt,      \* the keys in the file
    load,               \* the loads
    worked,             \* the keys that succeeded in this session
    wronged             \* the keys listed as dead in this session after they had worked

tables == <<scheme_track_list, dead_hosts, success_hosts, deadhosts_txt>>
vars == <<tables, load, worked, wronged>>

(* pool_key, "host:port": the default port is the scheme's own.            *)
KeyOf(site, scheme) == <<site, IF site \in Explicit THEN "port" ELSE scheme>>

Keys == {KeyOf(site, scheme) : site \in Sites, scheme \in Schemes}

ASSUME JunkAssumption == Junk \notin Keys

Load == [state : {"idle", "running", "failed"},
         site : Sites \cup {NoSite},
         scheme : Schemes,
         redirect_count : 0..(RedirectLimit + 1),
         opened : BOOLEAN,  \* its https fetch has left HS_QUEUED
         aborted : BOOLEAN,
         lost : BOOLEAN]    \* the tracker has lost the site's key since the load began

NoLoad == [state |-> "idle", site |-> NoSite, scheme |-> "http", redirect_count |-> 0,
           opened |-> FALSE, aborted |-> FALSE, lost |-> FALSE]

TypeOK ==
    /\ scheme_track_list \in Seq([key : Keys, https_failed : BOOLEAN, http_failed : BOOLEAN])
    /\ dead_hosts \in Seq(Keys \cup {Junk})
    /\ success_hosts \in Seq(Keys)
    /\ deadhosts_txt \in Seq(Keys \cup {Junk})
    /\ load \in [Loads -> Load]
    /\ worked \in SUBSET Keys
    /\ wronged \in SUBSET Keys

Init ==
    /\ scheme_track_list = <<>>
    /\ dead_hosts = <<>>
    /\ success_hosts = <<>>
    /\ deadhosts_txt = <<>>
    /\ load = [l \in Loads |-> NoLoad]
    /\ worked = {}
    /\ wronged = {}

-----------------------------------------------------------------------------
(* The tables.                                                             *)

Among(list, key) == \E i \in DOMAIN list : list[i] = key

(* A list of at most `max' gives up its oldest element for x.              *)
PushFifo(list, x, max) == Append(IF Len(list) >= max THEN Tail(list) ELSE list, x)

Tracked(key) == \E i \in DOMAIN scheme_track_list : scheme_track_list[i].key = key

(* Mutant: the tracker does not look for an entry of the key. *)
ScmTrackUnfound(key) ==
    PushFifo(scheme_track_list, [key |-> key, https_failed |-> FALSE, http_failed |-> FALSE],
             HTTPS_SCHEME_TRACK_MAX)

scheme_track_find_or_add(key) ==
    IF Tracked(key) THEN scheme_track_list
    ELSE PushFifo(scheme_track_list, [key |-> key, https_failed |-> FALSE, http_failed |-> FALSE],
                  HTTPS_SCHEME_TRACK_MAX)

(* macsurf_scheme_mark_https_failed and macsurf_scheme_mark_http_failed.   *)
MarkFailed(key, scheme) ==
    LET list == scheme_track_find_or_add(key)
    IN  [i \in DOMAIN list |->
            IF list[i].key # key THEN list[i]
            ELSE IF scheme = "https" THEN [list[i] EXCEPT !.https_failed = TRUE]
                 ELSE [list[i] EXCEPT !.http_failed = TRUE]]

(* macsurf_scheme_was_https_tried and macsurf_scheme_was_http_tried.       *)
WasTried(key, scheme) ==
    \E i \in DOMAIN scheme_track_list :
        /\ scheme_track_list[i].key = key
        /\ IF scheme = "https" THEN scheme_track_list[i].https_failed
           ELSE scheme_track_list[i].http_failed

success_host_add(key) ==
    IF Among(success_hosts, key) THEN success_hosts
    ELSE PushFifo(success_hosts, key, HTTPS_SUCCESS_HOSTS)

(* Mutant: the list of hosts that have succeeded is not asked. *)
MayListAnyway(key) == ~Among(dead_hosts, key)

(* dead_host_add goes past its early returns.                              *)
MayList(key) == ~Among(success_hosts, key) /\ ~Among(dead_hosts, key)

(* dead_host_add, and macos9_deadhost_save of the whole list.  The file    *)
(* system may refuse: the save then changes nothing.                       *)
dead_host_add(key) ==
    IF MayList(key)
    THEN /\ dead_hosts' = PushFifo(dead_hosts, key, HTTPS_DEADHOSTS)
         /\ deadhosts_txt' \in {dead_hosts', deadhosts_txt}
         /\ wronged' = IF key \in worked THEN wronged \cup {key} ELSE wronged
    ELSE UNCHANGED <<dead_hosts, deadhosts_txt, wronged>>

-----------------------------------------------------------------------------
(* Loads.                                                                  *)

Key(l) == KeyOf(load[l].site, load[l].scheme)

Running(l) == load[l].state = "running"

(* llcache_hsts_transform_url.                                             *)
Transformed(site, scheme) == IF site \in Hsts THEN "https" ELSE scheme

Begun(site, scheme) ==
    [NoLoad EXCEPT !.state = "running", !.site = site, !.scheme = Transformed(site, scheme)]

Ended(l, state) ==
    IF state = "failed" THEN [NoLoad EXCEPT !.state = "failed", !.site = load[l].site] ELSE NoLoad

(* A resource of a page, or a link.                                        *)
LoadResource(l, site, scheme) ==
    /\ ~Running(l)
    /\ load' = [load EXCEPT ![l] = Begun(site, scheme)]
    /\ UNCHANGED <<tables, worked, wronged>>

(* The running loads of sites on a port of their own, once the tracker is  *)
(* `list': those whose key has gone are told.                              *)
Noticing(loads, list) ==
    [l \in Loads |->
        IF /\ loads[l].state = "running" /\ loads[l].site \in Explicit
           /\ Tracked(KeyOf(loads[l].site, "http"))
           /\ \A i \in DOMAIN list : list[i].key # KeyOf(loads[l].site, "http")
        THEN [loads[l] EXCEPT !.lost = TRUE]
        ELSE loads[l]]

(* macos9_window_navigate: the tracker starts afresh, under the loads that *)
(* are still running too.                                                  *)
Navigate(l, site, scheme) ==
    /\ ~Running(l)
    /\ scheme_track_list' = <<>>
    /\ load' = [Noticing(load, <<>>) EXCEPT ![l] = Begun(site, scheme)]
    /\ UNCHANGED <<dead_hosts, success_hosts, deadhosts_txt, worked, wronged>>

Other(scheme) == IF scheme = "https" THEN "http" ELSE "https"

(* llcache_fetch_redirect to the other scheme.                             *)
Followed(l) ==
    [load[l] EXCEPT !.scheme = Transformed(load[l].site, Other(load[l].scheme)),
                    !.redirect_count = @ + 1, !.opened = FALSE]

(* Mutant: the count is not carried to the redirected load. *)
FallBackUncounted(l) == [Followed(l) EXCEPT !.redirect_count = 0]

(* FETCH_REDIRECT to the other scheme; llcache follows it, or ends the     *)
(* load if it has followed too many.                                       *)
FallBack(l) ==
    IF load[l].redirect_count > RedirectLimit THEN Ended(l, "failed") ELSE Followed(l)

(* Mutant: the fall-back does not ask the tracker. *)
FallsBackAlways(l) == ~load[l].aborted

(* The fetch that failed is redirected: not if it was aborted, nor if the  *)
(* other scheme has failed for its key.                                    *)
FallsBack(l) == ~load[l].aborted /\ ~WasTried(Key(l), Other(load[l].scheme))

(* The end of a failed fetch, for the tracker and the load.                *)
Fails(l) ==
    LET list == MarkFailed(Key(l), load[l].scheme)
        end == IF FallsBack(l) THEN FallBack(l)
               ELSE Ended(l, IF load[l].aborted THEN "idle" ELSE "failed")
    IN  /\ scheme_track_list' = list
        /\ load' = Noticing([load EXCEPT ![l] = end], list)

Succeeds(l) ==
    /\ Running(l)
    /\ "ok" \in Outcomes[load[l].site][load[l].scheme]
    /\ load' = [load EXCEPT ![l] = Ended(l, "idle")]

(* A DONE slot of the http fetcher; an aborted fetch ends so too.          *)
HttpEnds(l) ==
    /\ Running(l) /\ load[l].scheme = "http"
    /\ \/ Succeeds(l) /\ ~load[l].aborted
       \/ load[l].aborted /\ load' = [load EXCEPT ![l] = Ended(l, "idle")]
    /\ UNCHANGED <<tables, worked, wronged>>

(* A FAIL slot of the http fetcher.                                        *)
HttpFails(l) ==
    /\ Running(l) /\ load[l].scheme = "http"
    /\ Outcomes[load[l].site]["http"] # {"ok"}
    /\ Fails(l)
    /\ UNCHANGED <<dead_hosts, success_hosts, deadhosts_txt, worked, wronged>>

Listed(l) == Among(dead_hosts, Key(l))

Https(l) == Running(l) /\ load[l].scheme = "https" /\ ~load[l].aborted

(* A slot leaves HS_QUEUED: its host is not listed now, and may be listed  *)
(* by another fetch before this one ends.                                  *)
HttpsOpens(l) ==
    /\ Https(l) /\ ~load[l].opened
    /\ ~Listed(l)
    /\ load' = [load EXCEPT ![l].opened = TRUE]
    /\ UNCHANGED <<tables, worked, wronged>>

(* "https: host previously failed".                                        *)
HttpsFailsFast(l) ==
    /\ Https(l) /\ ~load[l].opened
    /\ Listed(l)
    /\ Fails(l)
    /\ UNCHANGED <<dead_hosts, success_hosts, deadhosts_txt, worked, wronged>>

(* hctx_finish with a status of 200 to 399.                                *)
HttpsEnds(l) ==
    /\ Https(l) /\ load[l].opened
    /\ Succeeds(l)
    /\ success_hosts' = success_host_add(Key(l))
    /\ worked' = worked \cup {Key(l)}
    /\ UNCHANGED <<scheme_track_list, dead_hosts, deadhosts_txt, wronged>>

(* hctx_fail: timeouts and early closes put the host on the list, unless   *)
(* the load falls back.                                                    *)
HttpsFails(l, why) ==
    /\ Https(l) /\ load[l].opened
    /\ why \in Outcomes[load[l].site]["https"] \ {"ok"}
    /\ Fails(l)
    /\ IF why = "timeout" /\ ~FallsBack(l)
       THEN dead_host_add(Key(l))
       ELSE UNCHANGED <<dead_hosts, deadhosts_txt, wronged>>
    /\ UNCHANGED <<success_hosts, worked>>

Abort(l) ==
    /\ Running(l) /\ ~load[l].aborted
    /\ load' = [load EXCEPT ![l].aborted = TRUE]
    /\ UNCHANGED <<tables, worked, wronged>>

(* hctx_fail for an aborted fetch marks the host all the same.             *)
HttpsAborted(l) ==
    /\ Running(l) /\ load[l].scheme = "https" /\ load[l].aborted
    /\ Fails(l)
    /\ UNCHANGED <<dead_hosts, success_hosts, deadhosts_txt, worked, wronged>>

(* MacSurf ends and is started again: macos9_https_fetcher_register loads  *)
(* the file, as far as the list holds it.                                  *)
Restart(file) ==
    /\ deadhosts_txt' = file
    /\ dead_hosts' = SubSeq(file, 1, IF Len(file) < HTTPS_DEADHOSTS THEN Len(file)
                                     ELSE HTTPS_DEADHOSTS)
    /\ scheme_track_list' = <<>>
    /\ success_hosts' = <<>>
    /\ load' = [l \in Loads |-> NoLoad]
    /\ worked' = {}
    /\ wronged' = {}

Quit == Restart(deadhosts_txt)

(* A crash inside macos9_deadhost_save: the file is cut at n keys or       *)
(* within the next one.                                                    *)
CrashInSave(l, n, cut) ==
    LET list == PushFifo(dead_hosts, Key(l), HTTPS_DEADHOSTS) IN
    /\ Https(l) /\ load[l].opened
    /\ "timeout" \in Outcomes[load[l].site]["https"]
    /\ ~FallsBack(l) /\ MayList(Key(l))
    /\ n \in 0..(Len(list) - 1)
    /\ Restart(IF cut THEN Append(SubSeq(list, 1, n), Junk) ELSE SubSeq(list, 1, n))

FetchEnds(l) ==
    \/ HttpEnds(l)
    \/ HttpFails(l)
    \/ HttpsOpens(l)
    \/ HttpsEnds(l)
    \/ \E why \in {"timeout", "error"} : HttpsFails(l, why)
    \/ HttpsFailsFast(l)
    \/ HttpsAborted(l)

Next ==
    \/ \E l \in Loads :
          \/ \E site \in Sites, scheme \in Schemes :
                LoadResource(l, site, scheme) \/ Navigate(l, site, scheme)
          \/ FetchEnds(l)
          \/ Abort(l)
          \/ \E n \in 0..(HTTPS_DEADHOSTS - 1), cut \in BOOLEAN : CrashInSave(l, n, cut)
    \/ Quit

Spec == Init /\ [][Next]_vars

-----------------------------------------------------------------------------
(* Properties.                                                             *)

(* Each table has at most one entry per key and keeps to its capacity,     *)
(* whatever was evicted, restarted or cut short; so do the file's keys, as *)
(* far as they are whole.                                                  *)
TablesSound ==
    /\ TypeOK
    /\ Len(scheme_track_list) <= HTTPS_SCHEME_TRACK_MAX
    /\ Len(dead_hosts) <= HTTPS_DEADHOSTS
    /\ Len(success_hosts) <= HTTPS_SUCCESS_HOSTS
    /\ Len(deadhosts_txt) <= HTTPS_DEADHOSTS
    /\ \A i, j \in DOMAIN scheme_track_list :
          scheme_track_list[i].key = scheme_track_list[j].key => i = j
    /\ \A i, j \in DOMAIN dead_hosts :
          dead_hosts[i] = dead_hosts[j] /\ dead_hosts[i] # Junk => i = j
    /\ \A i, j \in DOMAIN success_hosts : success_hosts[i] = success_hosts[j] => i = j

(* "If the other scheme ALSO fails, surface FETCH_ERROR" (fixes317): a     *)
(* load of a site with a port in its URL falls back once, unless the       *)
(* tracker was reset or its entry evicted in between, or HSTS turns the    *)
(* fall-back to http into another try of https.                            *)
OneFallBack ==
    \A l \in Loads : load[l].site \in Explicit \ Hsts /\ ~load[l].lost
                       => load[l].redirect_count <= 1

(* The two keys of a site on its default ports never meet, and http is     *)
(* never tried for a site with an HSTS policy.  So the failures of either  *)
(* always fall back, only llcache's limit ends them, and the site is never *)
(* put on the dead-host list (fixes236), in whatever order the fetches     *)
(* end.                                                                    *)
DefaultPortNeverListed ==
    \A i \in DOMAIN dead_hosts :
        dead_hosts[i] = Junk \/ dead_hosts[i][1] \in Explicit \ Hsts

(* A site that one scheme always reaches is never reported failed, from    *)
(* whichever scheme the load began and whatever the tables hold: except    *)
(* that aborted https fetches count as failures, and so can hide the https *)
(* of a site with a port in its URL, and that HSTS hides the http.         *)
ReachableLoads ==
    \A l \in Loads : load[l].state = "failed" =>
        LET reached == {scheme \in Schemes : Outcomes[load[l].site][scheme] = {"ok"}}
        IN  \/ reached = {}
            \/ reached = {"https"} /\ load[l].site \in Explicit
            \/ reached = {"http"} /\ load[l].site \in Hsts

(* A host that has worked in this session is not put on the dead-host      *)
(* list, as long as no more hosts have worked than the list of them holds  *)
(* (fixes244).                                                             *)
ListedNeverWorked == Cardinality(worked) <= HTTPS_SUCCESS_HOSTS => wronged = {}

(* A load falls back once, and where one scheme always reaches the site    *)
(* the fall-back finds it.                                                 *)
FallBackSound == OneFallBack /\ ReachableLoads

(* The dead-host list names only hosts it may name.                        *)
DeadListSound == DefaultPortNeverListed /\ ListedNeverWorked

(* What a load has left to do: redirects to follow, a fetch to open, an    *)
(* abort to hear of.                                                       *)
Rank(x) == 4 * (RedirectLimit + 1 - x.redirect_count)
              + (IF x.opened THEN 0 ELSE 2) + (IF x.aborted THEN 0 ELSE 1)

(* Although http and https may send a load back and forth, and navigations *)
(* and evictions keep emptying the tracker, every step of a load's fetches *)
(* brings its end nearer: with the fetchers' EveryFetchEnds, every load    *)
(* ends.                                                                   *)
LoadsAdvance ==
    [][\A l \in Loads :
          Running(l) /\ Running(l)' /\ [load[l] EXCEPT !.lost = FALSE] # [load[l]' EXCEPT !.lost = FALSE]
             => Rank(load[l]') < Rank(load[l])]_vars
=============================================================================
