------------------------ MODULE SchemeFallbackProofs ------------------------
(***************************************************************************)
(* Proofs about SchemeFallback.tla: the tables of the network fetchers     *)
(* keep to their capacity and name a host once, a load falls back at most  *)
(* once where the tracker still knows its key, the dead-host list names    *)
(* only the hosts it may, and every step of a load brings its end nearer.  *)
(* They hold for every number of loads, sites and table entries, every     *)
(* redirect limit, and whatever the sites answer.                          *)
(***************************************************************************)
EXTENDS SchemeFallback, FiniteSetTheorems, SequenceTheorems, TLAPS

Entry == [key : Keys, https_failed : BOOLEAN, http_failed : BOOLEAN]

(* The answers of a site that a fetch by the scheme always reaches.        *)
Reached(site, scheme) == Outcomes[site][scheme] = {"ok"}

TrackedIn(list, key) == \E i \in DOMAIN list : list[i].key = key

TriedIn(list, key, scheme) ==
    \E i \in DOMAIN list :
        /\ list[i].key = key
        /\ IF scheme = "https" THEN list[i].https_failed ELSE list[i].http_failed

(* A key occurs once in the list; a key cut short by a crash may repeat.   *)
NamesOnce(list) == \A i, j \in DOMAIN list : list[i] = list[j] /\ list[i] # Junk => i = j

(* What the tracker may say of a key: http has failed only where it can    *)
(* fail and is tried at all, and a key of a default port only ever hears   *)
(* of its own scheme.                                                      *)
EntryOK(e) ==
    /\ e.http_failed => ~Reached(e.key[1], "http") /\ e.key[1] \notin Hsts
    /\ e.key[1] \notin Explicit => /\ e.http_failed => e.key[2] = "http"
                                   /\ e.https_failed => e.key[2] = "https"

TrackerSound(list) ==
    /\ list \in Seq(Entry)
    /\ Len(list) <= HTTPS_SCHEME_TRACK_MAX
    /\ \A i, j \in DOMAIN list : list[i].key = list[j].key => i = j
    /\ \A i \in DOMAIN list : EntryOK(list[i])

(* What the dead-host list and its file may name.                          *)
Listable(key) ==
    key # Junk => key[1] \in Explicit \ Hsts /\ "timeout" \in Outcomes[key[1]]["https"]

DeadSound(list) ==
    /\ list \in Seq(Keys \cup {Junk})
    /\ Len(list) <= HTTPS_DEADHOSTS
    /\ NamesOnce(list)
    /\ \A i \in DOMAIN list : Listable(list[i])

(* A load that has failed has been told so of a site that may fail.        *)
MayFail(site) ==
    /\ ~(Reached(site, "http") /\ Reached(site, "https"))
    /\ Reached(site, "https") => site \in Explicit
    /\ Reached(site, "http") => site \in Hsts

(* A running load leaves a scheme that always answers at most for HSTS, so *)
(* it comes to the other one only at its start.                            *)
RunningOK(x) ==
    /\ x.site \in Sites
    /\ x.site \in Hsts => x.scheme = "https"
    /\ x.scheme = "http" /\ Reached(x.site, "https") => x.redirect_count = 0
    /\ x.scheme = "https" /\ Reached(x.site, "http") /\ x.site \notin Hsts
          => x.redirect_count = 0

LoadOK(x) ==
    /\ x.state = "running" => RunningOK(x)
    /\ x.state # "running" => x.redirect_count = 0
    /\ x.state = "failed" => MayFail(x.site)

(* A load that has fallen back has left a mark in the tracker, on the      *)
(* scheme it came from, unless it has been told that the mark is gone.     *)
MarkLeft(x, list) ==
    x.state = "running" /\ x.site \in Explicit \ Hsts /\ ~x.lost /\ x.redirect_count # 0
    => /\ x.redirect_count = 1
       /\ TriedIn(list, KeyOf(x.site, "http"), Other(x.scheme))

LoadsSound(loads, list) ==
    /\ loads \in [Loads -> Load]
    /\ \A l \in Loads : LoadOK(loads[l]) /\ MarkLeft(loads[l], list)

(* success_hosts has every host that has worked, until more have worked    *)
(* than it holds.                                                          *)
WorkedSound ==
    /\ worked \in SUBSET Keys /\ wronged \in SUBSET Keys
    /\ IsFiniteSet(worked)
    /\ success_hosts \in Seq(Keys)
    /\ Len(success_hosts) <= HTTPS_SUCCESS_HOSTS
    /\ Len(success_hosts) <= Cardinality(worked)
    /\ \A i, j \in DOMAIN success_hosts : success_hosts[i] = success_hosts[j] => i = j
    /\ \A i \in DOMAIN success_hosts : success_hosts[i] \in worked
    /\ Cardinality(worked) <= HTTPS_SUCCESS_HOSTS
          => /\ wronged = {}
             /\ \A key \in worked : Among(success_hosts, key)

(* The inductive invariant.                                                *)
IInv ==
    /\ TrackerSound(scheme_track_list)
    /\ DeadSound(dead_hosts)
    /\ DeadSound(deadhosts_txt)
    /\ LoadsSound(load, scheme_track_list)
    /\ WorkedSound
-----------------------------------------------------------------------------
(* Keys and schemes.                                                       *)

(* pool_key names the host, and the port where the URL does.               *)
LEMMA KeyFacts ==
    ASSUME NEW site \in Sites, NEW scheme \in Schemes
    PROVE  /\ KeyOf(site, scheme) \in Keys
           /\ KeyOf(site, scheme) # Junk
           /\ KeyOf(site, scheme)[1] = site
           /\ site \notin Explicit => KeyOf(site, scheme)[2] = scheme
           /\ site \in Explicit => KeyOf(site, scheme) = KeyOf(site, "http")
BY JunkAssumption DEF KeyOf, Keys

LEMMA KeysAreOfSites == \A key \in Keys : key[1] \in Sites
BY DEF KeyOf, Keys

LEMMA SchemeFacts ==
    /\ "http" \in Schemes /\ "https" \in Schemes
    /\ \A scheme \in Schemes : /\ Other(scheme) \in Schemes
                               /\ Other(Other(scheme)) = scheme
                               /\ Other(scheme) # scheme
    /\ \A site, scheme : /\ site \in Hsts => Transformed(site, scheme) = "https"
                         /\ site \notin Hsts => Transformed(site, scheme) = scheme
    /\ \A site : \A scheme \in Schemes : Transformed(site, scheme) \in Schemes
BY DEF Schemes, Other, Transformed

-----------------------------------------------------------------------------
(* The tables.                                                             *)

(* A list at its capacity gives up its first element for the new one, and  *)
(* one below it none.                                                      *)
LEMMA PushElements ==
    ASSUME NEW S, NEW list \in Seq(S), NEW x \in S, NEW max \in Nat \ {0}, Len(list) <= max
    PROVE  LET r == PushFifo(list, x, max)
               d == IF Len(list) >= max THEN 1 ELSE 0
           IN  /\ r \in Seq(S)
               /\ Len(r) = Len(list) + 1 - d
               /\ Len(r) <= max
               /\ DOMAIN r = 1..Len(r)
               /\ r[Len(r)] = x
               /\ \A i \in 1..Len(r) - 1 : i + d \in DOMAIN list /\ r[i] = list[i + d]
<1> DEFINE b == IF Len(list) >= max THEN Tail(list) ELSE list
           d == IF Len(list) >= max THEN 1 ELSE 0
           r == Append(b, x)
<1>1. Len(list) \in Nat /\ DOMAIN list = 1..Len(list)
  BY LenProperties
<1>2. /\ b \in Seq(S)
      /\ Len(b) = Len(list) - d
      /\ \A i \in 1..Len(b) : b[i] = list[i + d]
  <2>1. CASE Len(list) >= max
    <3>1. list # <<>>
      BY <2>1, <1>1, EmptySeq
    <3>2. /\ Tail(list) \in Seq(S) /\ Len(Tail(list)) = Len(list) - 1
          /\ \A i \in 1..Len(Tail(list)) : Tail(list)[i] = list[i + 1]
      BY <3>1, HeadTailProperties
    <3>3. b = Tail(list) /\ d = 1
      BY <2>1
    <3> QED BY <3>2, <3>3, Zenon
  <2>2. CASE ~(Len(list) >= max)
    <3>1. b = list /\ d = 0
      BY <2>2
    <3>2. \A i \in 1..Len(list) : i + 0 = i
      BY <1>1
    <3>3. Len(list) = Len(list) - 0
      BY <1>1
    <3> HIDE DEF b, d
    <3> QED BY <3>1, <3>2, <3>3
  <2> QED BY <2>1, <2>2
<1>3. d \in {0, 1} /\ Len(list) + 1 - d <= max /\ Len(list) - d \in Nat
  BY <1>1
<1> HIDE DEF b
<1>4. /\ r \in Seq(S) /\ Len(r) = Len(b) + 1
      /\ \A i \in 1..Len(b) : r[i] = b[i]
      /\ r[Len(b) + 1] = x
  BY <1>2, AppendProperties
<1>5. DOMAIN r = 1..Len(r)
  BY <1>4, LenProperties
<1>6. r = PushFifo(list, x, max)
  BY DEF PushFifo, b
<1> HIDE DEF r, d
<1>7. /\ Len(r) = Len(list) + 1 - d /\ Len(r) <= max /\ Len(r) - 1 = Len(b)
  BY <1>1, <1>2, <1>3, <1>4
<1>8. ASSUME NEW i \in 1..Len(r) - 1
      PROVE  i + d \in DOMAIN list /\ r[i] = list[i + d]
  <2>1. i \in 1..Len(b)
    BY <1>7
  <2>2. r[i] = list[i + d]
    BY <2>1, <1>2, <1>4, Zenon
  <2>3. i + d \in 1..Len(list)
    BY <2>1, <1>1, <1>2, <1>3
  <2> QED BY <2>2, <2>3, LenProperties
<1>9. r[Len(r)] = x
  BY <1>4, Zenon
<1> QED BY <1>4, <1>5, <1>6, <1>7, <1>8, <1>9 DEF d

(* The same without the positions: the new element is there, everything    *)
(* else comes from the list, and what was told apart stays apart.          *)
LEMMA PushKeeps ==
    ASSUME NEW S, NEW list \in Seq(S), NEW x \in S, NEW max \in Nat \ {0}, Len(list) <= max
    PROVE  LET r == PushFifo(list, x, max)
           IN  /\ r \in Seq(S)
               /\ Len(r) \in Nat
               /\ Len(r) <= max
               /\ \E i \in DOMAIN r : r[i] = x
               /\ \A i \in DOMAIN r : r[i] = x \/ \E k \in DOMAIN list : r[i] = list[k]
               /\ \A i, j \in DOMAIN r :
                     \/ i = j
                     \/ r[i] = x /\ \E k \in DOMAIN list : r[j] = list[k]
                     \/ r[j] = x /\ \E k \in DOMAIN list : r[i] = list[k]
                     \/ \E k, m \in DOMAIN list : k # m /\ r[i] = list[k] /\ r[j] = list[m]
<1> DEFINE r == PushFifo(list, x, max)
           d == IF Len(list) >= max THEN 1 ELSE 0
<1>1. /\ r \in Seq(S) /\ Len(r) = Len(list) + 1 - d /\ Len(r) <= max
      /\ DOMAIN r = 1..Len(r) /\ r[Len(r)] = x
      /\ \A i \in 1..Len(r) - 1 : i + d \in DOMAIN list /\ r[i] = list[i + d]
  BY PushElements
<1>2. Len(list) \in Nat /\ d \in {0, 1} /\ (d = 1 => Len(list) >= 1)
  BY LenProperties
<1> HIDE DEF r, d
<1>3. Len(r) \in Nat /\ Len(r) >= 1
  BY <1>1, <1>2
<1>4. \A i \in DOMAIN r : i = Len(r) \/ i \in 1..Len(r) - 1
  BY <1>1, <1>3
<1>5. \A i, j \in 1..Len(r) - 1 : i # j => i + d # j + d
  BY <1>2, <1>3
<1>6. Len(r) \in DOMAIN r
  BY <1>1, <1>3
<1>7. \A i \in DOMAIN r : r[i] = x \/ \E k \in DOMAIN list : r[i] = list[k]
  BY <1>1, <1>4
<1>8. ASSUME NEW i \in DOMAIN r, NEW j \in DOMAIN r
      PROVE  \/ i = j
             \/ r[i] = x /\ \E k \in DOMAIN list : r[j] = list[k]
             \/ r[j] = x /\ \E k \in DOMAIN list : r[i] = list[k]
             \/ \E k, m \in DOMAIN list : k # m /\ r[i] = list[k] /\ r[j] = list[m]
  <2>1. CASE i = Len(r)
    BY <2>1, <1>1, <1>4
  <2>2. CASE j = Len(r)
    BY <2>2, <1>1, <1>4
  <2>3. CASE i \in 1..Len(r) - 1 /\ j \in 1..Len(r) - 1
    BY <2>3, <1>1, <1>5
  <2> QED BY <2>1, <2>2, <2>3, <1>4
<1> QED BY <1>1, <1>3, <1>6, <1>7, <1>8 DEF r

(* macsurf_scheme_mark_https_failed and _http_failed: the key's entry is   *)
(* there with the mark, the others say of their keys what they said, and   *)
(* no key comes twice.                                                     *)
LEMMA MarkKeeps ==
    ASSUME TrackerSound(scheme_track_list), NEW key \in Keys, NEW scheme \in Schemes,
           scheme = "http" => ~Reached(key[1], "http") /\ key[1] \notin Hsts,
           key[1] \notin Explicit => key[2] = scheme
    PROVE  LET list == MarkFailed(key, scheme)
           IN  /\ TrackerSound(list)
               /\ TriedIn(list, key, scheme)
               /\ \A k \in Keys, s \in Schemes :
                     WasTried(k, s) /\ TrackedIn(list, k) => TriedIn(list, k, s)
<1> DEFINE old == scheme_track_list
           new == [key |-> key, https_failed |-> FALSE, http_failed |-> FALSE]
           base == scheme_track_find_or_add(key)
           mark(e) == IF e.key # key THEN e
                      ELSE IF scheme = "https" THEN [e EXCEPT !.https_failed = TRUE]
                           ELSE [e EXCEPT !.http_failed = TRUE]
           list == MarkFailed(key, scheme)
<1>1. /\ old \in Seq(Entry) /\ Len(old) <= HTTPS_SCHEME_TRACK_MAX
      /\ \A i, j \in DOMAIN old : old[i].key = old[j].key => i = j
      /\ \A i \in DOMAIN old : EntryOK(old[i])
  BY DEF TrackerSound
<1>2. new \in Entry /\ new.key = key /\ EntryOK(new) /\ ~new.https_failed /\ ~new.http_failed
  BY DEF Entry, EntryOK
<1>3. /\ base \in Seq(Entry) /\ Len(base) <= HTTPS_SCHEME_TRACK_MAX
      /\ \E i \in DOMAIN base : base[i].key = key
      /\ \A i, j \in DOMAIN base : base[i].key = base[j].key => i = j
      /\ \A i \in DOMAIN base : EntryOK(base[i])
      /\ \A i \in DOMAIN base : \/ \E m \in DOMAIN old : base[i] = old[m]
                                \/ base[i].key = key /\ ~TrackedIn(old, key)
  <2>1. CASE Tracked(key)
    <3>1. base = old
      BY <2>1 DEF scheme_track_find_or_add
    <3> HIDE DEF base, new
    <3> QED BY <2>1, <3>1, <1>1 DEF Tracked
  <2>2. CASE ~Tracked(key)
    <3>1. base = PushFifo(old, new, HTTPS_SCHEME_TRACK_MAX)
      BY <2>2 DEF scheme_track_find_or_add
    <3>2. HTTPS_SCHEME_TRACK_MAX \in Nat \ {0}
      BY TableAssumption
    <3> HIDE DEF base, new
    <3>3. /\ base \in Seq(Entry) /\ Len(base) <= HTTPS_SCHEME_TRACK_MAX
          /\ \E i \in DOMAIN base : base[i] = new
          /\ \A i \in DOMAIN base : base[i] = new \/ \E k \in DOMAIN old : base[i] = old[k]
          /\ \A i, j \in DOMAIN base :
                \/ i = j
                \/ base[i] = new /\ \E k \in DOMAIN old : base[j] = old[k]
                \/ base[j] = new /\ \E k \in DOMAIN old : base[i] = old[k]
                \/ \E k, m \in DOMAIN old : k # m /\ base[i] = old[k] /\ base[j] = old[m]
      BY <1>1, <1>2, <3>1, <3>2, PushKeeps
    <3>4. \A k \in DOMAIN old : old[k].key # key
      BY <2>2 DEF Tracked
    <3>5. \A i, j \in DOMAIN base : base[i].key = base[j].key => i = j
      BY <3>3, <3>4, <1>1, <1>2
    <3> QED BY <3>3, <3>4, <3>5, <1>1, <1>2 DEF TrackedIn
  <2> QED BY <2>1, <2>2
<1>4. list = [i \in DOMAIN base |-> mark(base[i])]
  BY DEF MarkFailed
<1> HIDE DEF base, new
<1>5. ASSUME NEW e \in Entry, EntryOK(e)
      PROVE  /\ mark(e) \in Entry
             /\ mark(e).key = e.key
             /\ e.https_failed => mark(e).https_failed
             /\ e.http_failed => mark(e).http_failed
             /\ e.key = key /\ scheme = "https" => mark(e).https_failed
             /\ e.key = key /\ scheme # "https" => mark(e).http_failed
             /\ EntryOK(mark(e))
  <2>1. CASE e.key # key
    <3>1. mark(e) = e
      BY <2>1
    <3> HIDE DEF mark
    <3> QED BY <2>1, <3>1, <1>5, Zenon
  <2>2. CASE e.key = key /\ scheme = "https"
    <3> DEFINE f == [e EXCEPT !.https_failed = TRUE]
    <3>1. /\ f \in Entry /\ f.key = e.key /\ f.https_failed
          /\ f.http_failed <=> e.http_failed
      BY DEF Entry
    <3>2. mark(e) = f
      BY <2>2
    <3> HIDE DEF f, mark
    <3> QED BY <2>2, <3>1, <3>2, <1>5 DEF EntryOK
  <2>3. CASE e.key = key /\ scheme = "http"
    <3> DEFINE f == [e EXCEPT !.http_failed = TRUE]
    <3>1. /\ f \in Entry /\ f.key = e.key /\ f.http_failed
          /\ f.https_failed <=> e.https_failed
      BY DEF Entry
    <3>2. mark(e) = f
      BY <2>3
    <3> HIDE DEF f, mark
    <3> QED BY <2>3, <3>1, <3>2, <1>5 DEF EntryOK
  <2> QED BY <2>1, <2>2, <2>3 DEF Schemes
<1> HIDE DEF mark
<1>6. DOMAIN base = 1..Len(base) /\ Len(base) \in Nat /\ \A i \in DOMAIN base : base[i] \in Entry
  BY <1>3, LenProperties, ElementOfSeq
<1>7. /\ list \in Seq(Entry) /\ Len(list) = Len(base) /\ DOMAIN list = DOMAIN base
      /\ \A i \in DOMAIN base : list[i] = mark(base[i])
  <2>1. \A i \in DOMAIN base : mark(base[i]) \in Entry
    BY <1>3, <1>5, <1>6
  <2>2. list \in [1..Len(base) -> Entry]
    BY <1>4, <1>6, <2>1
  <2> HIDE DEF list
  <2>3. list \in Seq(Entry) /\ Len(list) = Len(base)
    BY <2>2, <1>6, SeqDef, LenProperties
  <2> QED BY <2>2, <2>3, <1>4, <1>6
<1> HIDE DEF list
<1>8. TrackerSound(list)
  BY <1>3, <1>5, <1>6, <1>7 DEF TrackerSound
<1>9. TriedIn(list, key, scheme)
  BY <1>3, <1>5, <1>6, <1>7 DEF TriedIn
<1>10. ASSUME NEW k \in Keys, NEW s \in Schemes, WasTried(k, s), TrackedIn(list, k)
       PROVE  TriedIn(list, k, s)
  <2>1. PICK m \in DOMAIN old :
           old[m].key = k /\ IF s = "https" THEN old[m].https_failed ELSE old[m].http_failed
    BY <1>10 DEF WasTried
  <2>2. PICK i \in DOMAIN list : list[i].key = k
    BY <1>10 DEF TrackedIn
  <2>3. base[i] \in Entry /\ EntryOK(base[i]) /\ list[i] = mark(base[i]) /\ base[i].key = k
    BY <2>2, <1>3, <1>5, <1>6, <1>7
  <2>4. base[i] = old[m]
    BY <2>1, <2>3, <1>1, <1>3, <1>7 DEF TrackedIn
  <2>5. IF s = "https" THEN list[i].https_failed ELSE list[i].http_failed
    BY <2>1, <2>3, <2>4, <1>5
  <2> QED BY <2>2, <2>5 DEF TriedIn
<1> QED BY <1>8, <1>9, <1>10 DEF list

(* dead_host_add of a key that may be listed and is not.                   *)
LEMMA ListKeeps ==
    ASSUME DeadSound(dead_hosts), NEW key \in Keys, Listable(key), ~Among(dead_hosts, key)
    PROVE  DeadSound(PushFifo(dead_hosts, key, HTTPS_DEADHOSTS))
<1> DEFINE r == PushFifo(dead_hosts, key, HTTPS_DEADHOSTS)
           S == Keys \cup {Junk}
<1>1. /\ HTTPS_DEADHOSTS \in Nat \ {0} /\ key \in S
      /\ dead_hosts \in Seq(S) /\ Len(dead_hosts) <= HTTPS_DEADHOSTS
  BY TableAssumption DEF DeadSound
<1> HIDE DEF S
<1>2. /\ r \in Seq(S) /\ Len(r) <= HTTPS_DEADHOSTS
      /\ \A i \in DOMAIN r : r[i] = key \/ \E k \in DOMAIN dead_hosts : r[i] = dead_hosts[k]
      /\ \A i, j \in DOMAIN r :
            \/ i = j
            \/ r[i] = key /\ \E k \in DOMAIN dead_hosts : r[j] = dead_hosts[k]
            \/ r[j] = key /\ \E k \in DOMAIN dead_hosts : r[i] = dead_hosts[k]
            \/ \E k, m \in DOMAIN dead_hosts :
                  k # m /\ r[i] = dead_hosts[k] /\ r[j] = dead_hosts[m]
  BY <1>1, PushKeeps
<1> HIDE DEF r
<1>3. NamesOnce(r)
  BY <1>2 DEF NamesOnce, DeadSound, Among
<1>4. \A i \in DOMAIN r : Listable(r[i])
  BY <1>2 DEF DeadSound
<1> QED BY <1>2, <1>3, <1>4 DEF DeadSound, r, S

(* A file that ends early, as macos9_https_fetcher_register reads it.      *)
LEMMA CutKeeps ==
    ASSUME NEW list, DeadSound(list), NEW n \in 0..Len(list)
    PROVE  /\ DeadSound(SubSeq(list, 1, n))
           /\ n < Len(list) => DeadSound(Append(SubSeq(list, 1, n), Junk))
<1> DEFINE a == SubSeq(list, 1, n)
           b == Append(a, Junk)
           S == Keys \cup {Junk}
<1>1. list \in Seq(S) /\ Len(list) \in Nat /\ Len(list) <= HTTPS_DEADHOSTS /\ HTTPS_DEADHOSTS \in Nat
      /\ DOMAIN list = 1..Len(list)
  BY LenProperties, TableAssumption DEF DeadSound
<1>2. \A i \in 1..n : i \in DOMAIN list /\ list[i] \in S
  BY <1>1, ElementOfSeq
<1>3. a \in Seq(S) /\ Len(a) = n /\ DOMAIN a = 1..n /\ \A i \in 1..n : a[i] = list[i]
  <2>1. /\ a \in Seq(S) /\ Len(a) = IF 1 <= n THEN n - 1 + 1 ELSE 0
        /\ \A i \in 1..n - 1 + 1 : a[i] = list[1 + i - 1]
    BY <1>2, SubSeqProperties
  <2>2. n - 1 + 1 = n /\ \A i \in 1..n : 1 + i - 1 = i
    BY <1>1
  <2>3. Len(a) = n
    BY <2>1, <2>2, <1>1
  <2> HIDE DEF a
  <2>4. \A i \in 1..n : a[i] = list[i]
    BY <2>1, <2>2
  <2> QED BY <2>1, <2>3, <2>4, LenProperties
<1> HIDE DEF a
<1>4. DeadSound(a)
  BY <1>1, <1>2, <1>3 DEF DeadSound, NamesOnce
<1>5. ASSUME n < Len(list) PROVE DeadSound(b)
  <2>1. /\ b \in Seq(S) /\ Len(b) = n + 1
        /\ \A i \in 1..n : b[i] = a[i]
        /\ b[n + 1] = Junk
    BY <1>3, AppendProperties
  <2> HIDE DEF b
  <2>2. DOMAIN b = 1..n + 1
    BY <2>1, LenProperties
  <2>3. \A i \in DOMAIN b : (i \in DOMAIN a /\ b[i] = a[i]) \/ b[i] = Junk
    BY <2>1, <2>2, <1>1, <1>3
  <2>4. NamesOnce(b)
    BY <2>3, <1>4 DEF NamesOnce, DeadSound
  <2>5. \A i \in DOMAIN b : Listable(b[i])
    BY <2>3, <1>4 DEF DeadSound, Listable
  <2>6. Len(b) <= HTTPS_DEADHOSTS
    BY <2>1, <1>1, <1>5
  <2> QED BY <2>1, <2>4, <2>5, <2>6 DEF DeadSound
<1> QED BY <1>4, <1>5 DEF a, b

-----------------------------------------------------------------------------
(* The loads.                                                              *)

(* Two loads that differ at most in what they have been told of the        *)
(* tracker.                                                                *)
SameLoad(x, y) ==
    /\ x.state = y.state /\ x.site = y.site /\ x.scheme = y.scheme
    /\ x.redirect_count = y.redirect_count
    /\ x.opened <=> y.opened
    /\ x.aborted <=> y.aborted

(* A change of the tracker tells the loads that lost their key, and        *)
(* changes nothing else of them.                                           *)
LEMMA NoticingFacts ==
    ASSUME NEW loads \in [Loads -> Load], NEW list, NEW l \in Loads
    PROVE  LET x == Noticing(loads, list)[l]
           IN  /\ x \in Load
               /\ SameLoad(x, loads[l])
               /\ loads[l].lost => x.lost
               /\ /\ x.state = "running" /\ x.site \in Explicit
                  /\ Tracked(KeyOf(x.site, "http")) /\ ~x.lost
                  => TrackedIn(list, KeyOf(x.site, "http"))
<1> DEFINE y == loads[l]
           told == /\ y.state = "running" /\ y.site \in Explicit
                   /\ Tracked(KeyOf(y.site, "http"))
                   /\ \A i \in DOMAIN list : list[i].key # KeyOf(y.site, "http")
           x == Noticing(loads, list)[l]
           z == [y EXCEPT !.lost = TRUE]
<1>1. x = IF told THEN z ELSE y
  BY DEF Noticing
<1>2. y \in Load
  OBVIOUS
<1>3. /\ z \in Load /\ z.lost /\ z.state = y.state /\ z.site = y.site /\ z.scheme = y.scheme
      /\ z.redirect_count = y.redirect_count
      /\ z.opened <=> y.opened
      /\ z.aborted <=> y.aborted
  BY <1>2 DEF Load
<1> HIDE DEF x, z, y
<1> DEFINE key == KeyOf(x.site, "http")
           due == x.state = "running" /\ x.site \in Explicit /\ Tracked(key) /\ ~x.lost
<1>4. x \in Load /\ SameLoad(x, y) /\ (y.lost => x.lost) /\ (due => TrackedIn(list, key))
  <2>1. CASE told
    <3>1. x = z
      BY <1>1, <2>1
    <3> QED BY <1>3, <3>1 DEF SameLoad
  <2>2. CASE ~told
    <3>1. x = y
      BY <1>1, <2>2
    <3>2. due => TrackedIn(list, key)
      BY <2>2, <3>1 DEF TrackedIn
    <3> QED BY <1>2, <3>1, <3>2 DEF SameLoad
  <2> QED BY <2>1, <2>2
<1> QED BY <1>4, Zenon DEF x, y

LEMMA NoticingTyped ==
    ASSUME NEW loads \in [Loads -> Load], NEW list
    PROVE  Noticing(loads, list) \in [Loads -> Load]
<1>1. \A l \in Loads : Noticing(loads, list)[l] \in Load
  BY NoticingFacts
<1>2. Noticing(loads, list) = [l \in Loads |-> Noticing(loads, list)[l]]
  BY DEF Noticing
<1> QED BY <1>1, <1>2

(* What is said of a load does not depend on what it has been told, but    *)
(* for the mark it has left.                                               *)
LEMMA SameLoadOK ==
    ASSUME NEW x, NEW y, SameLoad(x, y), LoadOK(y)
    PROVE  LoadOK(x)
BY DEF SameLoad, LoadOK, RunningOK

(* The loads that are not concerned keep their marks when the tracker      *)
(* changes, or are told.                                                   *)
LEMMA MarkStays ==
    ASSUME NEW x, NEW y, NEW list, SameLoad(x, y), y.lost => x.lost,
           MarkLeft(y, scheme_track_list), y \in Load,
           /\ x.state = "running" /\ x.site \in Explicit
           /\ Tracked(KeyOf(x.site, "http")) /\ ~x.lost
           => TrackedIn(list, KeyOf(x.site, "http")),
           \A k \in Keys, s \in Schemes : WasTried(k, s) /\ TrackedIn(list, k) => TriedIn(list, k, s)
    PROVE  MarkLeft(x, list)
<1> SUFFICES ASSUME x.state = "running", x.site \in Explicit \ Hsts, ~x.lost, x.redirect_count # 0
             PROVE  x.redirect_count = 1 /\ TriedIn(list, KeyOf(x.site, "http"), Other(x.scheme))
  BY DEF MarkLeft
<1> DEFINE k == KeyOf(x.site, "http")
           s == Other(x.scheme)
<1>1. x.scheme \in Schemes /\ x.site \in Sites
  BY SiteAssumption DEF SameLoad, Load
<1>2. k \in Keys /\ s \in Schemes
  BY <1>1, KeyFacts, SchemeFacts
<1>3. x.redirect_count = 1 /\ TriedIn(scheme_track_list, k, s)
  BY DEF SameLoad, MarkLeft
<1> HIDE DEF k, s
<1>4. WasTried(k, s) /\ Tracked(k)
  BY <1>3 DEF TriedIn, WasTried, Tracked
<1> QED BY <1>2, <1>3, <1>4 DEF k, s

LEMMA NoLoadFacts ==
    /\ NoLoad \in Load /\ NoLoad.state = "idle" /\ NoLoad.redirect_count = 0
    /\ \A list : MarkLeft(NoLoad, list)
    /\ LoadOK(NoLoad)
<1>1. NoLoad \in Load /\ NoLoad.state = "idle" /\ NoLoad.redirect_count = 0
  BY TableAssumption DEF NoLoad, Load, Schemes
<1> QED BY <1>1 DEF MarkLeft, LoadOK

LEMMA BegunFacts ==
    ASSUME NEW site \in Sites, NEW scheme \in Schemes, NEW list
    PROVE  LET x == Begun(site, scheme)
           IN  x \in Load /\ x.state = "running" /\ LoadOK(x) /\ MarkLeft(x, list)
<1> DEFINE x == Begun(site, scheme)
           to == Transformed(site, scheme)
<1>1. to \in Schemes /\ (site \in Hsts => to = "https")
  BY SchemeFacts
<1>2. x = [NoLoad EXCEPT !.state = "running", !.site = site, !.scheme = to]
  BY DEF Begun
<1> HIDE DEF to
<1>3. /\ x \in Load /\ x.state = "running" /\ x.redirect_count = 0
      /\ x.site = site /\ x.scheme = to
  BY <1>1, <1>2, NoLoadFacts DEF Load
<1> HIDE DEF x
<1> QED BY <1>1, <1>3 DEF LoadOK, RunningOK, MarkLeft, x

LEMMA EndedFacts ==
    ASSUME NEW l \in Loads, load \in [Loads -> Load], NEW state \in {"idle", "failed"}, NEW list,
           state = "failed" => MayFail(load[l].site)
    PROVE  LET x == Ended(l, state)
           IN  x \in Load /\ x.state = state /\ LoadOK(x) /\ MarkLeft(x, list)
<1> DEFINE x == Ended(l, state)
           y == [NoLoad EXCEPT !.state = "failed", !.site = load[l].site]
<1>1. load[l].site \in Sites \cup {NoSite}
  BY DEF Load
<1>2. y \in Load /\ y.state = "failed" /\ y.redirect_count = 0 /\ y.site = load[l].site
  BY <1>1, NoLoadFacts DEF Load
<1>3. x = IF state = "failed" THEN y ELSE NoLoad
  BY DEF Ended
<1> HIDE DEF x, y
<1>4. CASE state = "failed"
  BY <1>2, <1>3, <1>4 DEF LoadOK, MarkLeft, x
<1>5. CASE state # "failed"
  BY <1>3, <1>5, NoLoadFacts DEF x
<1> QED BY <1>4, <1>5

(* A load that is told more keeps the mark it has left.                    *)
LEMMA MarkOfSame ==
    ASSUME NEW x, NEW y, NEW list, SameLoad(x, y), y.lost => x.lost, MarkLeft(y, list)
    PROVE  MarkLeft(x, list)
BY DEF SameLoad, MarkLeft

LEMMA KeyOfLoad ==
    ASSUME NEW l \in Loads, load \in [Loads -> Load], Running(l), LoadOK(load[l])
    PROVE  /\ load[l].site \in Sites /\ load[l].scheme \in Schemes
           /\ Key(l) \in Keys /\ Key(l) # Junk /\ Key(l)[1] = load[l].site
           /\ load[l].site \notin Explicit => Key(l)[2] = load[l].scheme
           /\ load[l].site \in Explicit => Key(l) = KeyOf(load[l].site, "http")
<1>1. load[l].site \in Sites /\ load[l].scheme \in Schemes
  BY DEF Running, LoadOK, RunningOK, Load
<1> QED BY <1>1, KeyFacts DEF Key

(* The load as llcache_fetch_redirect leaves it.                           *)
LEMMA FollowedFacts ==
    ASSUME NEW l \in Loads, load \in [Loads -> Load], Running(l), LoadOK(load[l]),
           load[l].redirect_count <= RedirectLimit
    PROVE  LET x == Followed(l)
           IN  /\ x \in Load /\ x.state = "running" /\ x.site = load[l].site
               /\ x.scheme = Transformed(load[l].site, Other(load[l].scheme))
               /\ x.redirect_count = load[l].redirect_count + 1
               /\ ~x.opened
               /\ x.aborted <=> load[l].aborted
               /\ x.lost <=> load[l].lost
<1> DEFINE y == load[l]
           to == Transformed(y.site, Other(y.scheme))
           n == y.redirect_count + 1
<1>1. y \in Load /\ y.state = "running"
  BY DEF Running
<1>2. to \in Schemes
  BY KeyOfLoad, SchemeFacts
<1>3. y.redirect_count \in Nat
  BY <1>1, TableAssumption DEF Load
<1>4. n \in 0..(RedirectLimit + 1)
  BY <1>3, TableAssumption
<1>5. Followed(l) = [y EXCEPT !.scheme = to, !.redirect_count = n, !.opened = FALSE]
  BY DEF Followed
<1> HIDE DEF y, to, n
<1>6. /\ Followed(l) \in Load /\ Followed(l).state = "running" /\ Followed(l).site = y.site
      /\ Followed(l).scheme = to
      /\ Followed(l).redirect_count = n
      /\ ~Followed(l).opened
      /\ Followed(l).aborted <=> y.aborted
      /\ Followed(l).lost <=> y.lost
  BY <1>1, <1>2, <1>4, <1>5 DEF Load
<1> QED BY <1>6, Zenon DEF y, to, n

(* The end of a failed fetch leaves the tracker and the loads sound: a     *)
(* load that is ended as failed may fail, and one that falls back leaves   *)
(* its mark and has not left one before.                                   *)
LEMMA FailsKeeps ==
    ASSUME TrackerSound(scheme_track_list), LoadsSound(load, scheme_track_list),
           NEW l \in Loads, Running(l),
           load[l].scheme = "http" => ~Reached(load[l].site, "http"),
           load[l].scheme = "https" /\ ~load[l].aborted => ~Reached(load[l].site, "https"),
           Fails(l)
    PROVE  TrackerSound(scheme_track_list') /\ LoadsSound(load', scheme_track_list')
<1> DEFINE y == load[l]
           site == load[l].site
           scheme == load[l].scheme
           list == MarkFailed(Key(l), scheme)
           end == IF FallsBack(l) THEN FallBack(l)
                  ELSE Ended(l, IF load[l].aborted THEN "idle" ELSE "failed")
<1>1. /\ load \in [Loads -> Load] /\ y \in Load
      /\ \A m \in Loads : LoadOK(load[m]) /\ MarkLeft(load[m], scheme_track_list)
  BY DEF LoadsSound
<1>2. /\ site \in Sites /\ scheme \in Schemes
      /\ Key(l) \in Keys /\ Key(l)[1] = site
      /\ site \notin Explicit => Key(l)[2] = scheme
      /\ site \in Explicit => Key(l) = KeyOf(site, "http")
  BY <1>1, KeyOfLoad
<1>3. site \in Hsts => scheme = "https"
  BY <1>1 DEF Running, LoadOK, RunningOK
<1>4. scheme = "http" => ~Reached(Key(l)[1], "http") /\ Key(l)[1] \notin Hsts
  BY <1>2, <1>3
<1>5. /\ TrackerSound(list)
      /\ TriedIn(list, Key(l), scheme)
      /\ \A k \in Keys, s \in Schemes : WasTried(k, s) /\ TrackedIn(list, k) => TriedIn(list, k, s)
  <2> HIDE DEF site, scheme
  <2> QED BY <1>2, <1>4, MarkKeeps DEF list
<1>6. /\ scheme_track_list' = list
      /\ load' = Noticing([load EXCEPT ![l] = end], list)
  BY DEF Fails
<1> HIDE DEF list
<1>7. /\ y.redirect_count \in Nat /\ RedirectLimit \in Nat
  BY <1>1, TableAssumption DEF Load
<1>8. end \in Load /\ LoadOK(end) /\ MarkLeft(end, list)
  <2>1. CASE ~FallsBack(l) /\ y.aborted
    <3>1. end = Ended(l, "idle")
      BY <2>1
    <3> QED BY <3>1, <1>1, EndedFacts
  <2>2. CASE ~FallsBack(l) /\ ~y.aborted
    <3>1. end = Ended(l, "failed")
      BY <2>2
    <3>2. PICK i \in DOMAIN scheme_track_list :
             /\ scheme_track_list[i].key = Key(l)
             /\ IF Other(scheme) = "https" THEN scheme_track_list[i].https_failed
                ELSE scheme_track_list[i].http_failed
      BY <2>2 DEF FallsBack, WasTried
    <3>3. EntryOK(scheme_track_list[i])
      BY DEF TrackerSound
    <3>4. MayFail(site)
      <4>1. CASE scheme = "http"
        BY <4>1, <3>2, <3>3, <1>2 DEF EntryOK, Other, MayFail
      <4>2. CASE scheme = "https"
        BY <4>2, <2>2, <3>2, <3>3, <1>2 DEF EntryOK, Other, MayFail
      <4> QED BY <4>1, <4>2, <1>2 DEF Schemes
    <3> QED BY <3>1, <3>4, <1>1, EndedFacts
  <2>3. CASE FallsBack(l) /\ y.redirect_count > RedirectLimit
    <3>1. end = Ended(l, "failed")
      BY <2>3 DEF FallBack
    <3>2. y.redirect_count # 0
      BY <2>3, <1>7
    <3>3. RunningOK(y) /\ ~y.aborted
      BY <2>3, <1>1 DEF LoadOK, Running, FallsBack
    <3>4. MayFail(site)
      <4>1. CASE scheme = "http"
        BY <4>1, <3>2, <3>3 DEF RunningOK, MayFail
      <4>2. CASE scheme = "https"
        BY <4>2, <3>2, <3>3 DEF RunningOK, MayFail
      <4> QED BY <4>1, <4>2, <1>2 DEF Schemes
    <3> QED BY <3>1, <3>4, <1>1, EndedFacts
  <2>4. CASE FallsBack(l) /\ ~(y.redirect_count > RedirectLimit)
    <3>1. end = Followed(l)
      BY <2>4 DEF FallBack
    <3>2. y.redirect_count <= RedirectLimit /\ y.redirect_count + 1 # 0
      BY <2>4, <1>7
    <3>3. /\ end \in Load /\ end.state = "running" /\ end.site = site
          /\ end.scheme = Transformed(site, Other(scheme))
          /\ end.redirect_count = y.redirect_count + 1
          /\ end.lost <=> y.lost
      BY <3>1, <3>2, <1>1, FollowedFacts
    <3>4. ~y.aborted /\ ~WasTried(Key(l), Other(scheme))
      BY <2>4 DEF FallsBack
    <3> HIDE DEF end
    <3>5. RunningOK(end)
      <4>1. CASE site \in Hsts
        <5>1. end.scheme = "https"
          BY <4>1, <3>3, SchemeFacts
        <5> QED BY <4>1, <5>1, <3>3, <1>2 DEF RunningOK
      <4>2. CASE site \notin Hsts
        <5>1. end.scheme = Other(scheme)
          BY <4>2, <3>3, SchemeFacts
        <5> QED BY <4>2, <5>1, <3>3, <3>4, <1>2 DEF RunningOK, Other, Schemes
      <4> QED BY <4>1, <4>2
    <3>6. LoadOK(end)
      BY <3>3, <3>5 DEF LoadOK
    <3>7. MarkLeft(end, list)
      <4> SUFFICES ASSUME site \in Explicit \ Hsts, ~y.lost
                   PROVE  /\ end.redirect_count = 1
                          /\ TriedIn(list, KeyOf(end.site, "http"), Other(end.scheme))
        BY <3>3 DEF MarkLeft
      <4>1. y.redirect_count = 0
        <5>1. SUFFICES ASSUME y.redirect_count # 0 PROVE FALSE
          OBVIOUS
        <5>2. TriedIn(scheme_track_list, KeyOf(site, "http"), Other(scheme))
          BY <5>1, <1>1 DEF MarkLeft, Running
        <5>3. TriedIn(scheme_track_list, Key(l), Other(scheme))
          BY <5>2, <1>2
        <5> QED BY <5>3, <3>4 DEF TriedIn, WasTried
      <4>2. end.scheme = Other(scheme) /\ Other(end.scheme) = scheme
        BY <3>3, <1>2, SchemeFacts
      <4>3. Key(l) = KeyOf(end.site, "http")
        BY <3>3, <1>2
      <4> QED BY <4>1, <4>2, <4>3, <3>3, <1>5
    <3> QED BY <3>3, <3>6, <3>7
  <2> QED BY <2>1, <2>2, <2>3, <2>4
<1> HIDE DEF end
<1> DEFINE loads == [load EXCEPT ![l] = end]
<1>9. loads \in [Loads -> Load] /\ loads[l] = end /\ \A m \in Loads : m # l => loads[m] = load[m]
  BY <1>1, <1>8
<1> HIDE DEF loads
<1>10. load' \in [Loads -> Load]
  BY <1>6, <1>9, NoticingTyped DEF loads
<1>11. ASSUME NEW m \in Loads
       PROVE  LoadOK(load'[m]) /\ MarkLeft(load'[m], list)
  <2> DEFINE x == Noticing(loads, list)[m]
             key == KeyOf(x.site, "http")
  <2>1. /\ SameLoad(x, loads[m])
        /\ loads[m].lost => x.lost
        /\ /\ x.state = "running" /\ x.site \in Explicit
           /\ Tracked(key) /\ ~x.lost
           => TrackedIn(list, key)
    BY <1>9, NoticingFacts
  <2>2. load'[m] = x
    BY <1>6 DEF loads
  <2> HIDE DEF x
  <2>3. CASE m = l
    BY <2>1, <2>2, <2>3, <1>8, <1>9, SameLoadOK, MarkOfSame
  <2>4. CASE m # l
    <3>1. SameLoad(x, load[m]) /\ (load[m].lost => x.lost) /\ load[m] \in Load
      BY <2>1, <2>4, <1>1, <1>9
    <3>2. LoadOK(load[m]) /\ MarkLeft(load[m], scheme_track_list)
      BY <1>1
    <3>3. LoadOK(x)
      BY <3>1, <3>2, SameLoadOK
    <3>4. MarkLeft(x, list)
      BY <2>1, <3>1, <3>2, <1>5, MarkStays
    <3> QED BY <2>2, <3>3, <3>4
  <2> QED BY <2>3, <2>4
<1>12. LoadsSound(load', list)
  BY <1>10, <1>11 DEF LoadsSound
<1> QED BY <1>5, <1>6, <1>12

-----------------------------------------------------------------------------
(* The invariant.                                                          *)

(* hctx_fail lists a host only when http has failed for its key: it has a  *)
(* port of its own and no HSTS policy.                                     *)
LEMMA ListedMay ==
    ASSUME TrackerSound(scheme_track_list), LoadsSound(load, scheme_track_list),
           NEW l \in Loads, Https(l), ~FallsBack(l),
           "timeout" \in Outcomes[load[l].site]["https"]
    PROVE  Key(l) \in Keys /\ Listable(Key(l))
<1>1. Running(l) /\ load[l].scheme = "https" /\ ~load[l].aborted
  BY DEF Https
<1>2. /\ Key(l) \in Keys /\ Key(l)[1] = load[l].site
      /\ load[l].site \notin Explicit => Key(l)[2] = "https"
  BY <1>1, KeyOfLoad DEF LoadsSound
<1>3. PICK i \in DOMAIN scheme_track_list :
         scheme_track_list[i].key = Key(l) /\ scheme_track_list[i].http_failed
  BY <1>1 DEF FallsBack, WasTried, Other
<1>4. EntryOK(scheme_track_list[i])
  BY DEF TrackerSound
<1>5. load[l].site \in Explicit \ Hsts
  BY <1>2, <1>3, <1>4 DEF EntryOK
<1> QED BY <1>2, <1>5 DEF Listable

(* success_host_add gives up a host only when more have worked than the    *)
(* list holds.                                                             *)
LEMMA SuccessKeeps ==
    ASSUME WorkedSound, NEW key \in Keys,
           success_hosts' = success_host_add(key),
           worked' = worked \cup {key},
           wronged' = wronged
    PROVE  WorkedSound'
<1> DEFINE H == HTTPS_SUCCESS_HOSTS
           s == success_hosts
           n == Cardinality(worked)
           r == success_hosts'
<1>1. /\ worked \in SUBSET Keys /\ wronged \in SUBSET Keys
      /\ IsFiniteSet(worked)
      /\ s \in Seq(Keys) /\ Len(s) <= H /\ Len(s) <= n
      /\ \A i, j \in DOMAIN s : s[i] = s[j] => i = j
      /\ \A i \in DOMAIN s : s[i] \in worked
      /\ n <= H => wronged = {} /\ \A k \in worked : Among(s, k)
  BY DEF WorkedSound
<1>2. H \in Nat \ {0} /\ n \in Nat /\ Len(s) \in Nat /\ DOMAIN s = 1..Len(s)
  BY <1>1, TableAssumption, FS_CardinalityType, LenProperties
<1>3. /\ IsFiniteSet(worked') /\ worked' \in SUBSET Keys
      /\ Cardinality(worked') = IF key \in worked THEN n ELSE n + 1
  BY <1>1, FS_AddElement
<1>4. CASE Among(s, key)
  <2>1. r = s
    BY <1>4 DEF success_host_add
  <2>2. key \in worked
    BY <1>1, <1>4 DEF Among
  <2>3. worked' = worked
    BY <2>2
  <2> QED BY <1>1, <2>1, <2>3 DEF WorkedSound, Among
<1>5. CASE ~Among(s, key)
  <2> DEFINE d == IF Len(s) >= H THEN 1 ELSE 0
  <2>1. r = PushFifo(s, key, H)
    BY <1>5 DEF success_host_add
  <2>2. /\ r \in Seq(Keys) /\ Len(r) = Len(s) + 1 - d /\ Len(r) <= H
        /\ DOMAIN r = 1..Len(r) /\ r[Len(r)] = key
        /\ \A i \in 1..Len(r) - 1 : i + d \in DOMAIN s /\ r[i] = s[i + d]
    BY <1>1, <1>2, <2>1, PushElements
  <2>3. d \in {0, 1} /\ (Len(s) < H => d = 0)
    BY <1>2
  <2> HIDE DEF r, d, s, n, H
  <2>4. Len(r) \in Nat /\ Len(r) >= 1
    BY <1>2, <2>2, <2>3
  <2>5. \A i \in DOMAIN r : i = Len(r) \/ i \in 1..Len(r) - 1
    BY <2>2, <2>4
  <2>6. \A i, j \in DOMAIN r : r[i] = r[j] => i = j
    <3> SUFFICES ASSUME NEW i \in DOMAIN r, NEW j \in DOMAIN r, r[i] = r[j] PROVE i = j
      OBVIOUS
    <3>1. CASE i = Len(r) \/ j = Len(r)
      BY <3>1, <1>5, <2>2, <2>5 DEF Among
    <3>2. CASE i \in 1..Len(r) - 1 /\ j \in 1..Len(r) - 1
      <4>1. i + d = j + d
        BY <3>2, <1>1, <2>2
      <4> QED BY <4>1, <3>2, <2>3, <2>4
    <3> QED BY <3>1, <3>2, <2>5
  <2>7. \A i \in DOMAIN r : r[i] \in worked'
    BY <1>1, <2>2, <2>5
  <2>8. Len(r) <= Cardinality(worked')
    <3>1. CASE key \in worked
      <4>1. ~(n <= H)
        BY <3>1, <1>1, <1>5
      <4> QED BY <4>1, <3>1, <1>2, <1>3, <2>2, <2>4
    <3>2. CASE key \notin worked
      <4>1. Cardinality(worked') = n + 1
        BY <3>2, <1>3
      <4> QED BY <4>1, <1>1, <1>2, <2>2, <2>3
    <3> QED BY <3>1, <3>2
  <2>9. ASSUME Cardinality(worked') <= H
        PROVE  wronged' = {} /\ \A k \in worked' : Among(r, k)
    <3>1. n <= H /\ key \notin worked
      BY <1>1, <1>2, <1>3, <1>5, <2>9
    <3>2. n + 1 <= H
      BY <3>1, <1>3, <2>9
    <3>3. Len(s) < H
      BY <3>2, <1>1, <1>2
    <3>4. d = 0
      BY <3>3, <2>3
    <3>5. Len(r) - 1 = Len(s) /\ Len(r) \in DOMAIN r
      BY <3>4, <1>2, <2>2, <2>4
    <3>6. \A i \in DOMAIN s : i \in DOMAIN r /\ r[i] = s[i]
      BY <3>4, <3>5, <1>2, <2>2, <2>4
    <3>7. \A k \in worked : Among(r, k)
      BY <3>1, <3>6, <1>1 DEF Among
    <3>8. Among(r, key)
      BY <3>5, <2>2 DEF Among
    <3> QED BY <3>1, <3>7, <3>8, <1>1
  <2> QED BY <1>1, <1>3, <2>2, <2>6, <2>7, <2>8, <2>9 DEF WorkedSound, r, H
<1> QED BY <1>4, <1>5

(* dead_host_add never wrongs a host that success_hosts still has.         *)
LEMMA DeadHostAddKeeps ==
    ASSUME DeadSound(dead_hosts), DeadSound(deadhosts_txt), WorkedSound,
           NEW key \in Keys, Listable(key), dead_host_add(key),
           success_hosts' = success_hosts, worked' = worked
    PROVE  DeadSound(dead_hosts') /\ DeadSound(deadhosts_txt') /\ WorkedSound'
<1>1. CASE MayList(key)
  <2>1. /\ dead_hosts' = PushFifo(dead_hosts, key, HTTPS_DEADHOSTS)
        /\ deadhosts_txt' \in {dead_hosts', deadhosts_txt}
        /\ wronged' = IF key \in worked THEN wronged \cup {key} ELSE wronged
    BY <1>1 DEF dead_host_add
  <2>2. DeadSound(dead_hosts')
    BY <1>1, <2>1, ListKeeps DEF MayList
  <2>3. DeadSound(deadhosts_txt')
    BY <2>1, <2>2
  <2>4. wronged' \in SUBSET Keys
    BY <2>1 DEF WorkedSound
  <2>5. Cardinality(worked) <= HTTPS_SUCCESS_HOSTS => wronged' = {}
    BY <1>1, <2>1 DEF MayList, WorkedSound
  <2> QED BY <2>2, <2>3, <2>4, <2>5 DEF WorkedSound, Among
<1>2. CASE ~MayList(key)
  BY <1>2 DEF dead_host_add, WorkedSound, Among
<1> QED BY <1>1, <1>2

LEMMA EmptyTracker ==
    /\ TrackerSound(<<>>)
    /\ \A key : ~TrackedIn(<<>>, key)
    /\ DeadSound(<<>>)
<1>1. /\ <<>> \in Seq(Entry) /\ <<>> \in Seq(Keys \cup {Junk})
      /\ Len(<<>>) = 0 /\ DOMAIN <<>> = {}
  BY EmptySeq, LenProperties
<1> QED BY <1>1, TableAssumption DEF TrackerSound, TrackedIn, DeadSound, NamesOnce

(* A new session, whatever sound file it starts from.                      *)
LEMMA RestartKeeps ==
    ASSUME NEW file, DeadSound(file), Restart(file)
    PROVE  IInv'
<1> DEFINE n == IF Len(file) < HTTPS_DEADHOSTS THEN Len(file) ELSE HTTPS_DEADHOSTS
<1>1. /\ deadhosts_txt' = file
      /\ dead_hosts' = SubSeq(file, 1, n)
      /\ scheme_track_list' = <<>>
      /\ success_hosts' = <<>>
      /\ load' = [l \in Loads |-> NoLoad]
      /\ worked' = {}
      /\ wronged' = {}
  BY DEF Restart
<1>2. n \in 0..Len(file)
  BY TableAssumption, LenProperties DEF DeadSound
<1> HIDE DEF n
<1>3. DeadSound(dead_hosts')
  BY <1>1, <1>2, CutKeeps
<1>4. LoadsSound(load', scheme_track_list')
  BY <1>1, NoLoadFacts DEF LoadsSound
<1>5. WorkedSound'
  <2>1. /\ <<>> \in Seq(Keys) /\ Len(<<>>) = 0 /\ DOMAIN <<>> = {}
    BY EmptySeq, LenProperties
  <2>2. IsFiniteSet({}) /\ Cardinality({}) = 0
    BY FS_EmptySet
  <2> QED BY <1>1, <2>1, <2>2, TableAssumption DEF WorkedSound
<1> QED BY <1>1, <1>3, <1>4, <1>5, EmptyTracker DEF IInv

LEMMA InitIInv == Init => IInv
<1> SUFFICES ASSUME Init PROVE IInv
  OBVIOUS
<1>1. DeadSound(dead_hosts) /\ DeadSound(deadhosts_txt) /\ TrackerSound(scheme_track_list)
  BY EmptyTracker DEF Init
<1>2. LoadsSound(load, scheme_track_list)
  BY NoLoadFacts DEF LoadsSound, Init
<1>3. WorkedSound
  <2>1. /\ <<>> \in Seq(Keys) /\ Len(<<>>) = 0 /\ DOMAIN <<>> = {}
    BY EmptySeq, LenProperties
  <2>2. IsFiniteSet({}) /\ Cardinality({}) = 0
    BY FS_EmptySet
  <2> QED BY <2>1, <2>2, TableAssumption DEF WorkedSound, Init
<1> QED BY <1>1, <1>2, <1>3 DEF IInv

(* One load changes under an unchanged tracker.                            *)
LEMMA OneLoadKeeps ==
    ASSUME LoadsSound(load, scheme_track_list), NEW l \in Loads, NEW x \in Load,
           LoadOK(x), MarkLeft(x, scheme_track_list),
           load' = [load EXCEPT ![l] = x], scheme_track_list' = scheme_track_list
    PROVE  LoadsSound(load', scheme_track_list')
<1>1. /\ load' \in [Loads -> Load] /\ load'[l] = x
      /\ \A m \in Loads : m # l => load'[m] = load[m]
  BY DEF LoadsSound
<1>2. \A m \in Loads : LoadOK(load'[m]) /\ MarkLeft(load'[m], scheme_track_list)
  BY <1>1 DEF LoadsSound
<1> QED BY <1>1, <1>2 DEF LoadsSound

(* The loads under Noticing, when no load is at the same time given a mark. *)
LEMMA NoticedKeeps ==
    ASSUME LoadsSound(load, scheme_track_list), NEW list,
           \A k \in Keys, s \in Schemes : WasTried(k, s) /\ TrackedIn(list, k) => TriedIn(list, k, s)
    PROVE  LoadsSound(Noticing(load, list), list)
<1>1. /\ load \in [Loads -> Load]
      /\ \A m \in Loads : LoadOK(load[m]) /\ MarkLeft(load[m], scheme_track_list)
  BY DEF LoadsSound
<1>2. ASSUME NEW m \in Loads
      PROVE  LoadOK(Noticing(load, list)[m]) /\ MarkLeft(Noticing(load, list)[m], list)
  <2> DEFINE x == Noticing(load, list)[m]
             key == KeyOf(x.site, "http")
  <2>1. /\ SameLoad(x, load[m])
        /\ load[m].lost => x.lost
        /\ /\ x.state = "running" /\ x.site \in Explicit
           /\ Tracked(key) /\ ~x.lost
           => TrackedIn(list, key)
    BY <1>1, NoticingFacts
  <2> HIDE DEF x
  <2>2. load[m] \in Load
    BY <1>1
  <2>3. LoadOK(x)
    BY <1>1, <2>1, SameLoadOK
  <2>4. MarkLeft(x, list)
    BY <1>1, <2>1, <2>2, MarkStays
  <2> QED BY <2>3, <2>4 DEF x
<1> QED BY <1>1, <1>2, NoticingTyped DEF LoadsSound

LEMMA NextIInv == IInv /\ [Next]_vars => IInv'
<1> SUFFICES ASSUME IInv, [Next]_vars PROVE IInv'
  OBVIOUS
<1>1. /\ TrackerSound(scheme_track_list)
      /\ DeadSound(dead_hosts) /\ DeadSound(deadhosts_txt)
      /\ LoadsSound(load, scheme_track_list)
      /\ WorkedSound
      /\ load \in [Loads -> Load]
      /\ \A m \in Loads : load[m] \in Load /\ LoadOK(load[m]) /\ MarkLeft(load[m], scheme_track_list)
  BY DEF IInv, LoadsSound
<1>2. ASSUME UNCHANGED <<dead_hosts, deadhosts_txt>>
      PROVE  DeadSound(dead_hosts') /\ DeadSound(deadhosts_txt')
  BY <1>1, <1>2
<1>3. ASSUME UNCHANGED <<success_hosts, worked, wronged>>
      PROVE  WorkedSound'
  BY <1>1, <1>3 DEF WorkedSound, Among
<1>4. ASSUME NEW l \in Loads, Fails(l), Running(l),
             load[l].scheme = "http" => ~Reached(load[l].site, "http"),
             load[l].scheme = "https" /\ ~load[l].aborted => ~Reached(load[l].site, "https")
      PROVE  TrackerSound(scheme_track_list') /\ LoadsSound(load', scheme_track_list')
  BY <1>1, <1>4, FailsKeeps
<1>5. ASSUME NEW l \in Loads, NEW site \in Sites, NEW scheme \in Schemes,
             LoadResource(l, site, scheme)
      PROVE  IInv'
  <2>1. LoadsSound(load', scheme_track_list')
    BY <1>1, <1>5, BegunFacts, OneLoadKeeps DEF LoadResource, tables
  <2> QED BY <2>1, <1>1, <1>2, <1>3, <1>5 DEF IInv, LoadResource, tables
<1>6. ASSUME NEW l \in Loads, NEW site \in Sites, NEW scheme \in Schemes,
             Navigate(l, site, scheme)
      PROVE  IInv'
  <2> DEFINE loads == Noticing(load, <<>>)
             x == Begun(site, scheme)
  <2>1. scheme_track_list' = <<>> /\ load' = [loads EXCEPT ![l] = x]
    BY <1>6 DEF Navigate
  <2>2. LoadsSound(loads, <<>>)
    BY <1>1, NoticedKeeps, EmptyTracker
  <2>3. x \in Load /\ LoadOK(x) /\ MarkLeft(x, <<>>)
    BY BegunFacts
  <2> HIDE DEF loads, x
  <2>4. /\ load' \in [Loads -> Load] /\ load'[l] = x
        /\ \A m \in Loads : m # l => load'[m] = loads[m]
    BY <2>1, <2>2, <2>3 DEF LoadsSound
  <2>5. LoadsSound(load', <<>>)
    BY <2>2, <2>3, <2>4 DEF LoadsSound
  <2> QED BY <2>1, <2>5, <1>2, <1>3, <1>6, EmptyTracker DEF IInv, Navigate
<1>7. ASSUME NEW l \in Loads, FetchEnds(l)
      PROVE  IInv'
  <2>1. CASE HttpEnds(l)
    <3>1. load' = [load EXCEPT ![l] = Ended(l, "idle")]
      BY <2>1 DEF HttpEnds, Succeeds
    <3>2. LoadsSound(load', scheme_track_list')
      BY <3>1, <2>1, <1>1, EndedFacts, OneLoadKeeps DEF HttpEnds, tables
    <3> QED BY <3>2, <2>1, <1>1, <1>2, <1>3 DEF IInv, HttpEnds, tables
  <2>2. CASE HttpFails(l)
    <3>1. /\ Running(l) /\ Fails(l) /\ load[l].scheme = "http"
          /\ ~Reached(load[l].site, "http")
      BY <2>2 DEF HttpFails, Reached
    <3>2. TrackerSound(scheme_track_list') /\ LoadsSound(load', scheme_track_list')
      BY <3>1, <1>4
    <3> QED BY <3>2, <2>2, <1>2, <1>3 DEF IInv, HttpFails
  <2>3. CASE HttpsOpens(l)
    <3> DEFINE x == [load[l] EXCEPT !.opened = TRUE]
    <3>1. load' = [load EXCEPT ![l] = x]
      BY <2>3 DEF HttpsOpens
    <3>2. /\ x \in Load /\ x.state = load[l].state /\ x.site = load[l].site
          /\ x.scheme = load[l].scheme /\ x.redirect_count = load[l].redirect_count
          /\ x.lost <=> load[l].lost
      BY <1>1 DEF Load
    <3> HIDE DEF x
    <3>3. LoadOK(x) /\ MarkLeft(x, scheme_track_list)
      BY <1>1, <3>2 DEF LoadOK, RunningOK, MarkLeft
    <3>4. LoadsSound(load', scheme_track_list')
      BY <3>1, <3>2, <3>3, <2>3, <1>1, OneLoadKeeps DEF HttpsOpens, tables
    <3> QED BY <3>4, <2>3, <1>1, <1>2, <1>3 DEF IInv, HttpsOpens, tables
  <2>4. CASE HttpsEnds(l)
    <3>1. load' = [load EXCEPT ![l] = Ended(l, "idle")]
      BY <2>4 DEF HttpsEnds, Succeeds
    <3>2. LoadsSound(load', scheme_track_list')
      BY <3>1, <2>4, <1>1, EndedFacts, OneLoadKeeps DEF HttpsEnds
    <3>3. Key(l) \in Keys
      BY <2>4, <1>1, KeyOfLoad DEF HttpsEnds, Https
    <3>4. WorkedSound'
      BY <3>3, <2>4, <1>1, SuccessKeeps DEF HttpsEnds
    <3> QED BY <3>2, <3>4, <2>4, <1>1, <1>2 DEF IInv, HttpsEnds
  <2>5. ASSUME NEW why \in {"timeout", "error"}, HttpsFails(l, why)
        PROVE  IInv'
    <3>1. /\ Https(l) /\ Running(l) /\ Fails(l) /\ load[l].scheme = "https"
          /\ why \in Outcomes[load[l].site]["https"] \ {"ok"}
      BY <2>5 DEF HttpsFails, Https
    <3>2. ~Reached(load[l].site, "https")
      BY <3>1 DEF Reached
    <3>3. TrackerSound(scheme_track_list') /\ LoadsSound(load', scheme_track_list')
      BY <3>1, <3>2, <1>4
    <3>4. DeadSound(dead_hosts') /\ DeadSound(deadhosts_txt') /\ WorkedSound'
      <4>1. success_hosts' = success_hosts /\ worked' = worked
        BY <2>5 DEF HttpsFails
      <4>2. CASE why = "timeout" /\ ~FallsBack(l)
        <5>1. dead_host_add(Key(l))
          BY <2>5, <4>2 DEF HttpsFails
        <5>2. Key(l) \in Keys /\ Listable(Key(l))
          BY <3>1, <4>2, <1>1, ListedMay
        <5> QED BY <5>1, <5>2, <4>1, <1>1, DeadHostAddKeeps
      <4>3. CASE ~(why = "timeout" /\ ~FallsBack(l))
        <5>1. UNCHANGED <<dead_hosts, deadhosts_txt, wronged>>
          BY <2>5, <4>3 DEF HttpsFails
        <5> QED BY <5>1, <4>1, <1>2, <1>3
      <4> QED BY <4>2, <4>3
    <3> QED BY <3>3, <3>4 DEF IInv
  <2>6. CASE HttpsFailsFast(l)
    <3>1. /\ Https(l) /\ Running(l) /\ Fails(l) /\ load[l].scheme = "https" /\ Listed(l)
      BY <2>6 DEF HttpsFailsFast, Https
    <3>2. Key(l) # Junk /\ Key(l)[1] = load[l].site
      BY <3>1, <1>1, KeyOfLoad
    <3>3. Listable(Key(l))
      BY <3>1, <1>1 DEF Listed, Among, DeadSound
    <3>4. ~Reached(load[l].site, "https")
      BY <3>2, <3>3 DEF Listable, Reached
    <3>5. TrackerSound(scheme_track_list') /\ LoadsSound(load', scheme_track_list')
      BY <3>1, <3>4, <1>4
    <3> QED BY <3>5, <2>6, <1>2, <1>3 DEF IInv, HttpsFailsFast
  <2>7. CASE HttpsAborted(l)
    <3>1. Running(l) /\ Fails(l) /\ load[l].scheme = "https" /\ load[l].aborted
      BY <2>7 DEF HttpsAborted
    <3>2. TrackerSound(scheme_track_list') /\ LoadsSound(load', scheme_track_list')
      BY <3>1, <1>4
    <3> QED BY <3>2, <2>7, <1>2, <1>3 DEF IInv, HttpsAborted
  <2> QED BY <1>7, <2>1, <2>2, <2>3, <2>4, <2>5, <2>6, <2>7 DEF FetchEnds
<1>8. ASSUME NEW l \in Loads, Abort(l)
      PROVE  IInv'
  <2> DEFINE x == [load[l] EXCEPT !.aborted = TRUE]
  <2>1. load' = [load EXCEPT ![l] = x]
    BY <1>8 DEF Abort
  <2>2. /\ x \in Load /\ x.state = load[l].state /\ x.site = load[l].site
        /\ x.scheme = load[l].scheme /\ x.redirect_count = load[l].redirect_count
        /\ x.lost <=> load[l].lost
    BY <1>1 DEF Load
  <2> HIDE DEF x
  <2>3. LoadOK(x) /\ MarkLeft(x, scheme_track_list)
    BY <1>1, <2>2 DEF LoadOK, RunningOK, MarkLeft
  <2>4. LoadsSound(load', scheme_track_list')
    BY <2>1, <2>2, <2>3, <1>8, <1>1, OneLoadKeeps DEF Abort, tables
  <2> QED BY <2>4, <1>8, <1>1, <1>2, <1>3 DEF IInv, Abort, tables
<1>9. ASSUME NEW l \in Loads, NEW n \in 0..(HTTPS_DEADHOSTS - 1), NEW cut \in BOOLEAN,
             CrashInSave(l, n, cut)
      PROVE  IInv'
  <2> DEFINE list == PushFifo(dead_hosts, Key(l), HTTPS_DEADHOSTS)
             file == IF cut THEN Append(SubSeq(list, 1, n), Junk) ELSE SubSeq(list, 1, n)
  <2>1. /\ Https(l) /\ "timeout" \in Outcomes[load[l].site]["https"]
        /\ ~FallsBack(l) /\ MayList(Key(l))
        /\ n \in 0..(Len(list) - 1)
        /\ Restart(file)
    BY <1>9 DEF CrashInSave
  <2>2. Key(l) \in Keys /\ Listable(Key(l))
    BY <2>1, <1>1, ListedMay
  <2>3. DeadSound(list)
    BY <2>1, <2>2, <1>1, ListKeeps DEF MayList
  <2> HIDE DEF list
  <2>4. Len(list) \in Nat
    BY <2>3, LenProperties DEF DeadSound
  <2>5. n \in 0..Len(list) /\ n < Len(list)
    BY <2>1, <2>4
  <2>6. DeadSound(file)
    BY <2>3, <2>5, CutKeeps
  <2> HIDE DEF file
  <2> QED BY <2>1, <2>6, RestartKeeps
<1>10. CASE Quit
  BY <1>10, <1>1, RestartKeeps DEF Quit
<1>11. CASE UNCHANGED vars
  BY <1>11, <1>1, <1>2, <1>3 DEF vars, tables, IInv
<1> QED BY <1>5, <1>6, <1>7, <1>8, <1>9, <1>10, <1>11 DEF Next

-----------------------------------------------------------------------------
(* What follows from it.                                                   *)

LEMMA IInvTables == IInv => TablesSound
BY DEF IInv, TablesSound, TypeOK, TrackerSound, Entry, DeadSound, NamesOnce, LoadsSound, WorkedSound

LEMMA IInvFallBack == IInv => FallBackSound
<1> SUFFICES ASSUME IInv PROVE FallBackSound
  OBVIOUS
<1>1. \A l \in Loads : load[l] \in Load /\ LoadOK(load[l]) /\ MarkLeft(load[l], scheme_track_list)
  BY DEF IInv, LoadsSound
<1>2. OneFallBack
  <2> SUFFICES ASSUME NEW l \in Loads, load[l].site \in Explicit \ Hsts, ~load[l].lost
               PROVE  load[l].redirect_count <= 1
    BY DEF OneFallBack
  <2>1. load[l].redirect_count = 0 \/ load[l].redirect_count = 1
    BY <1>1 DEF LoadOK, MarkLeft
  <2> QED BY <2>1
<1>3. ReachableLoads
  <2> SUFFICES ASSUME NEW l \in Loads, load[l].state = "failed"
               PROVE  LET reached == {scheme \in Schemes : Outcomes[load[l].site][scheme] = {"ok"}}
                      IN  \/ reached = {}
                          \/ reached = {"https"} /\ load[l].site \in Explicit
                          \/ reached = {"http"} /\ load[l].site \in Hsts
    BY DEF ReachableLoads
  <2>1. MayFail(load[l].site)
    BY <1>1 DEF LoadOK
  <2> QED BY <2>1 DEF MayFail, Reached, Schemes
<1> QED BY <1>2, <1>3 DEF FallBackSound

LEMMA IInvDeadList == IInv => DeadListSound
<1> SUFFICES ASSUME IInv PROVE DeadListSound
  OBVIOUS
<1>1. DefaultPortNeverListed
  BY DEF IInv, DeadSound, Listable, DefaultPortNeverListed
<1>2. ListedNeverWorked
  BY DEF IInv, WorkedSound, ListedNeverWorked
<1> QED BY <1>1, <1>2 DEF DeadListSound

(* Progress of a load is a change of more than what it has been told.      *)
LEMMA SameIsUnmoved ==
    ASSUME NEW x \in Load, NEW y \in Load, SameLoad(x, y)
    PROVE  [x EXCEPT !.lost = FALSE] = [y EXCEPT !.lost = FALSE]
<1> DEFINE g(z) == [state |-> z.state, site |-> z.site, scheme |-> z.scheme,
                    redirect_count |-> z.redirect_count,
                    opened |-> z.opened, aborted |-> z.aborted, lost |-> z.lost]
           u == [x EXCEPT !.lost = FALSE]
           v == [y EXCEPT !.lost = FALSE]
<1>1. \A z \in Load : z = g(z)
  BY DEF Load
<1>2. x.opened = y.opened /\ x.aborted = y.aborted
  BY Zenon DEF SameLoad, Load
<1>3. /\ u \in Load /\ u.state = x.state /\ u.site = x.site /\ u.scheme = x.scheme
      /\ u.redirect_count = x.redirect_count
      /\ u.opened = x.opened /\ u.aborted = x.aborted /\ u.lost = FALSE
  BY DEF Load
<1>4. /\ v \in Load /\ v.state = y.state /\ v.site = y.site /\ v.scheme = y.scheme
      /\ v.redirect_count = y.redirect_count
      /\ v.opened = y.opened /\ v.aborted = y.aborted /\ v.lost = FALSE
  BY DEF Load
<1> HIDE DEF u, v
<1>5. g(u) = g(v)
  BY <1>2, <1>3, <1>4 DEF SameLoad
<1>6. u = v
  BY <1>1, <1>3, <1>4, <1>5
<1> QED BY <1>6 DEF u, v

(* Every step of a load's fetches brings its end nearer.                   *)
LEMMA NextAdvances ==
    ASSUME IInv, [Next]_vars, NEW l \in Loads, Running(l), load'[l].state = "running",
           ~SameLoad(load'[l], load[l])
    PROVE  Rank(load'[l]) < Rank(load[l])
<1> DEFINE y == load[l]
           x == load'[l]
<1>1. /\ load \in [Loads -> Load]
      /\ y \in Load /\ LoadOK(y)
      /\ y.redirect_count \in Nat /\ RedirectLimit \in Nat
      /\ y.redirect_count <= RedirectLimit + 1
  BY TableAssumption DEF IInv, LoadsSound, Load
<1>2. SameLoad(y, y)
  BY DEF SameLoad
<1>3. ASSUME NEW m \in Loads, NEW e, NEW list, e \in Load,
             load' = Noticing([load EXCEPT ![m] = e], list)
      PROVE  /\ m # l => SameLoad(x, y)
             /\ m = l => SameLoad(x, e)
  <2> DEFINE loads == [load EXCEPT ![m] = e]
  <2>1. loads \in [Loads -> Load] /\ (m # l => loads[l] = y) /\ (m = l => loads[l] = e)
    BY <1>1, <1>3
  <2>2. x = Noticing(loads, list)[l]
    BY <1>3
  <2> HIDE DEF loads, x, y
  <2>3. SameLoad(x, loads[l])
    BY <2>1, <2>2, NoticingFacts
  <2> QED BY <2>1, <2>3
<1>4. ASSUME NEW m \in Loads, Fails(m), Running(m)
      PROVE  Rank(x) < Rank(y)
  <2> DEFINE end == IF FallsBack(m) THEN FallBack(m)
                    ELSE Ended(m, IF load[m].aborted THEN "idle" ELSE "failed")
             list == MarkFailed(Key(m), load[m].scheme)
  <2>1. load' = Noticing([load EXCEPT ![m] = end], list)
    BY <1>4 DEF Fails
  <2>2. LoadOK(load[m]) /\ load[m].redirect_count \in Nat
    BY <1>1, TableAssumption DEF IInv, LoadsSound, Load
  <2>3. ASSUME NEW state \in {"idle", "failed"}
        PROVE  Ended(m, state) \in Load /\ Ended(m, state).state = state
    <3>1. load[m].site \in Sites \cup {NoSite}
      BY <1>1 DEF Load
    <3>2. /\ [NoLoad EXCEPT !.state = "failed", !.site = load[m].site] \in Load
          /\ [NoLoad EXCEPT !.state = "failed", !.site = load[m].site].state = "failed"
      BY <3>1, NoLoadFacts DEF Load
    <3> QED BY <3>2, NoLoadFacts DEF Ended
  <2>4. \/ end \in Load /\ end.state # "running"
        \/ FallsBack(m) /\ end = Followed(m) /\ load[m].redirect_count <= RedirectLimit
    BY <1>1, <2>2, <2>3 DEF FallBack
  <2>5. load[m].redirect_count <= RedirectLimit => Followed(m) \in Load
    BY <1>1, <1>4, <2>2, FollowedFacts
  <2> HIDE DEF end, list
  <2>6. end \in Load
    BY <2>4, <2>5
  <2>7. (m # l => SameLoad(x, y)) /\ (m = l => SameLoad(x, end))
    BY <2>1, <2>6, <1>3
  <2>8. m = l /\ SameLoad(x, end) /\ end.state = "running"
    BY <2>7 DEF SameLoad
  <2>9. FallsBack(l) /\ end = Followed(l) /\ y.redirect_count <= RedirectLimit
    BY <2>4, <2>8
  <2>10. /\ end.redirect_count = y.redirect_count + 1 /\ ~end.opened
         /\ end.aborted <=> y.aborted
    BY <2>9, <1>1, FollowedFacts
  <2>11. /\ x.redirect_count = y.redirect_count + 1 /\ ~x.opened
         /\ x.aborted <=> y.aborted
    BY <2>8, <2>10 DEF SameLoad
  <2> HIDE DEF x, y
  <2> QED BY <2>11, <1>1 DEF Rank
<1>5. ASSUME NEW m \in Loads, NEW e, load' = [load EXCEPT ![m] = e],
             ~Running(m) \/ e.state # "running"
      PROVE  FALSE
  BY <1>1, <1>2, <1>5 DEF Running
<1>6. ASSUME NEW m \in Loads, NEW site \in Sites, NEW scheme \in Schemes,
             LoadResource(m, site, scheme)
      PROVE  FALSE
  BY <1>5, <1>6 DEF LoadResource
<1>7. ASSUME NEW m \in Loads, NEW site \in Sites, NEW scheme \in Schemes,
             Navigate(m, site, scheme)
      PROVE  FALSE
  <2> DEFINE loads == Noticing(load, <<>>)
             e == Begun(site, scheme)
  <2>1. m # l /\ load' = [loads EXCEPT ![m] = e]
    BY <1>7 DEF Navigate
  <2>2. loads \in [Loads -> Load] /\ SameLoad(loads[l], y)
    BY <1>1, NoticingTyped, NoticingFacts
  <2> HIDE DEF loads, e
  <2>3. x = loads[l]
    BY <2>1, <2>2
  <2> QED BY <2>2, <2>3
<1>8. ASSUME NEW m \in Loads, FetchEnds(m)
      PROVE  Rank(x) < Rank(y)
  <2>1. ASSUME load' = [load EXCEPT ![m] = Ended(m, "idle")] PROVE FALSE
    <3>1. Ended(m, "idle").state # "running"
      BY NoLoadFacts DEF Ended
    <3> QED BY <2>1, <3>1, <1>5
  <2>2. CASE HttpEnds(m)
    BY <2>1, <2>2 DEF HttpEnds, Succeeds
  <2>3. CASE HttpFails(m)
    BY <2>3, <1>4 DEF HttpFails
  <2>4. CASE HttpsOpens(m)
    <3>1. load' = [load EXCEPT ![m].opened = TRUE] /\ ~load[m].opened
      BY <2>4 DEF HttpsOpens
    <3>2. m = l
      BY <3>1, <1>1, <1>2
    <3>3. x = [y EXCEPT !.opened = TRUE] /\ ~y.opened
      BY <3>1, <3>2, <1>1
    <3>4. x.redirect_count = y.redirect_count /\ x.opened /\ (x.aborted <=> y.aborted)
      BY <3>3, <1>1 DEF Load
    <3> HIDE DEF x, y
    <3> QED BY <3>3, <3>4, <1>1 DEF Rank
  <2>5. CASE HttpsEnds(m)
    BY <2>1, <2>5 DEF HttpsEnds, Succeeds
  <2>6. ASSUME NEW why \in {"timeout", "error"}, HttpsFails(m, why)
        PROVE  Rank(x) < Rank(y)
    BY <2>6, <1>4 DEF HttpsFails, Https
  <2>7. CASE HttpsFailsFast(m)
    BY <2>7, <1>4 DEF HttpsFailsFast, Https
  <2>8. CASE HttpsAborted(m)
    BY <2>8, <1>4 DEF HttpsAborted
  <2> QED BY <1>8, <2>2, <2>3, <2>4, <2>5, <2>6, <2>7, <2>8 DEF FetchEnds
<1>9. ASSUME NEW m \in Loads, Abort(m)
      PROVE  Rank(x) < Rank(y)
  <2>1. load' = [load EXCEPT ![m].aborted = TRUE] /\ ~load[m].aborted
    BY <1>9 DEF Abort
  <2>2. m = l
    BY <2>1, <1>1, <1>2
  <2>3. x = [y EXCEPT !.aborted = TRUE] /\ ~y.aborted
    BY <2>1, <2>2, <1>1
  <2>4. x.redirect_count = y.redirect_count /\ x.aborted /\ (x.opened <=> y.opened)
    BY <2>3, <1>1 DEF Load
  <2> HIDE DEF x, y
  <2> QED BY <2>3, <2>4, <1>1 DEF Rank
<1>10. ASSUME NEW file, Restart(file) PROVE FALSE
  <2>1. x = NoLoad
    BY <1>10 DEF Restart
  <2> QED BY <2>1, NoLoadFacts
<1>11. ASSUME NEW m \in Loads, NEW n \in 0..(HTTPS_DEADHOSTS - 1), NEW cut \in BOOLEAN,
              CrashInSave(m, n, cut)
       PROVE  FALSE
  BY <1>10, <1>11 DEF CrashInSave
<1>12. CASE Quit
  BY <1>10, <1>12 DEF Quit
<1>13. CASE UNCHANGED vars
  BY <1>13, <1>2 DEF vars
<1> QED BY <1>6, <1>7, <1>8, <1>9, <1>11, <1>12, <1>13 DEF Next

-----------------------------------------------------------------------------
(* Theorems.                                                               *)

(* The inductive invariant holds in every reachable state.                 *)
THEOREM SchemeSpecInv == Spec => []IInv
<1>1. Init => IInv
  BY InitIInv
<1>2. IInv /\ [Next]_vars => IInv'
  BY NextIInv
<1> QED BY <1>1, <1>2, PTL DEF Spec

(* The tracker, the dead-host list, the list of hosts that have worked and *)
(* the file keep to their capacity and name a key once, through evictions, *)
(* navigations, restarts and crashes inside macos9_deadhost_save.          *)
THEOREM SchemeTablesSound == Spec => []TablesSound
<1>1. Spec => []IInv
  BY SchemeSpecInv
<1>2. IInv => TablesSound
  BY IInvTables
<1> QED BY <1>1, <1>2, PTL

(* A load of a site on a port of its own falls back at most once while the *)
(* tracker keeps its mark, and no load of a site that one scheme always    *)
(* reaches ends in FETCH_ERROR, but for the two exceptions it names.       *)
THEOREM SchemeFallBackSound == Spec => []FallBackSound
<1>1. Spec => []IInv
  BY SchemeSpecInv
<1>2. IInv => FallBackSound
  BY IInvFallBack
<1> QED BY <1>1, <1>2, PTL

(* dead_host_add never lists a site on its default ports or with an HSTS   *)
(* policy, nor a host that has worked while success_hosts can hold all     *)
(* that have.                                                              *)
THEOREM SchemeDeadListSound == Spec => []DeadListSound
<1>1. Spec => []IInv
  BY SchemeSpecInv
<1>2. IInv => DeadListSound
  BY IInvDeadList
<1> QED BY <1>1, <1>2, PTL

(* Every step of a load's fetches lowers its rank, so http and https send  *)
(* a load back and forth at most RedirectLimit + 1 times.                  *)
THEOREM SchemeLoadsAdvance == Spec => LoadsAdvance
<1>1. Spec => []IInv
  BY SchemeSpecInv
<1>2. IInv /\ IInv' /\ [Next]_vars =>
         [\A l \in Loads :
             Running(l) /\ Running(l)'
                /\ [load[l] EXCEPT !.lost = FALSE] # [load[l]' EXCEPT !.lost = FALSE]
             => Rank(load[l]') < Rank(load[l])]_vars
  <2> SUFFICES ASSUME IInv, IInv', [Next]_vars, NEW l \in Loads, Running(l), Running(l)',
                      [load[l] EXCEPT !.lost = FALSE] # [load[l]' EXCEPT !.lost = FALSE]
               PROVE  Rank(load[l]') < Rank(load[l])
    OBVIOUS
  <2>1. load[l] \in Load /\ load'[l] \in Load
    BY DEF IInv, LoadsSound
  <2>2. ~SameLoad(load'[l], load[l])
    BY <2>1, SameIsUnmoved
  <2>3. load'[l].state = "running"
    BY DEF Running
  <2> QED BY <2>2, <2>3, NextAdvances
<1> QED BY <1>1, <1>2, PTL DEF Spec, LoadsAdvance
=============================================================================
