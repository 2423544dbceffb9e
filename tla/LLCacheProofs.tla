--------------------------- MODULE LLCacheProofs ---------------------------
(***************************************************************************)
(* Proofs about llcache.c for every set of handles, objects and URLs and   *)
(* every bound: no loop over users is left at an object or a user that is  *)
(* gone, no handle is lost or doubled, a candidate outlives the fetch that *)
(* names it, a user that is told DONE has had the body, no user is left    *)
(* out of a catch-up that has run, and a released handle hears nothing.    *)
(***************************************************************************)
EXTENDS LLCache, SeqLemmas, FiniteSetTheorems

-----------------------------------------------------------------------------
(* The inductive invariant, in parts that are predicates of what they are  *)
(* about: the objects os, the lists, the handles hd, the walk w and the    *)
(* missed users m.                                                         *)

LiveIn(os) == {o \in Objects : os[o] \in Object}

Shape == [Objects -> Object \cup {Free, Destroyed}]

WalkType ==
    [kind : {"none", "notify", "redirect", "error"}, object : Objects \cup {NoObject},
     user : Handles \cup {Gone, NoHandle}, in : BOOLEAN,
     event : {"none", "headers", "data", "done"},
     objstate : INIT..COMPLETE, orig : 0..MaxLen,
     queued : BOOLEAN, uncached : BOOLEAN, to : Urls \cup {NoObject}]

(* Every object is on one of the lists, once.                              *)
ListsOK(os, cached, uncached) ==
    /\ cached \in Seq(LiveIn(os)) /\ uncached \in Seq(LiveIn(os))
    /\ Distinct(cached) /\ Distinct(uncached)
    /\ \A o \in LiveIn(os) : Holds(cached, o) <=> ~Holds(uncached, o)

(* Every handle is a user of its object, once, and there are no other      *)
(* users but the one a loop is to delete.                                  *)
UsersOK(os, hd, w) ==
    /\ \A o \in LiveIn(os) : Distinct(os[o].users)
    /\ \A h \in Handles : hd[h].object # NoObject =>
          hd[h].object \in LiveIn(os) /\ Holds(os[hd[h].object].users, h)
    /\ \A o \in LiveIn(os) : \A u \in Handles \cup {Gone} : Holds(os[o].users, u) =>
          \/ u \in Handles /\ hd[u].object = o
          \/ w.queued /\ w.user = u /\ w.object = o

(* What a loop is at exists; clients run only in its callbacks.            *)
WalkOK(os, hd, w) ==
    /\ w.kind = "none" => w = NoWalk
    /\ w.kind # "none" => /\ w.object \in LiveIn(os)
                          /\ w.user # NoHandle => Holds(os[w.object].users, w.user)
    /\ w.in => w.user # NoHandle
    /\ w.queued => w.in /\ \A h \in Handles : w.user = h => hd[h].object = NoObject
    /\ w.event # "none" => w.in /\ w.kind = "notify"
    /\ w.kind = "notify" =>
          /\ w.user # NoHandle
          /\ w.objstate = os[w.object].state \/ os[w.object].state = COMPLETE
    /\ w.kind = "redirect" => w.to \in Urls

ObjectOK(O) ==
    /\ O.state = COMPLETE => ~O.fetch
    /\ ~O.stream => O.source_len = O.total
    /\ O.source_len <= O.total

(* A streamed body cannot be found by a second user.                       *)
StreamOK(os, cached, hd) ==
    \A o \in LiveIn(os) : os[o].stream /\ ~os[o].late =>
        /\ ~Holds(cached, o)
        /\ \A h, k \in Handles : hd[h].object = o /\ hd[k].object = o => h = k

Namers(os, c) == {o \in LiveIn(os) : os[o].candidate = c}

(* A candidate is counted at least once for every object that names it.    *)
CandOK(os) ==
    \A c \in Objects : Namers(os, c) # {} =>
        c \in LiveIn(os) /\ os[c].candidate_count >= Cardinality(Namers(os, c))

(* The chunks the client has taken, and those it will be given, are the    *)
(* chunks received.                                                        *)
Balanced(H, O) ==
    /\ H.got + O.source_len <= (IF O.fetch THEN O.total ELSE MaxLen) + H.bytes
    /\ O.late \/ (H.got + O.source_len = O.total + H.bytes /\ H.bytes <= O.source_len)

FlowOK(H, O) ==
    /\ H.state = COMPLETE => O.state = COMPLETE /\ (O.late \/ H.got = O.total)
    /\ H.state # COMPLETE => Balanced(H, O)

(* And an event that its client may still ask to be replayed leaves them   *)
(* so; users of a redirected fetch have not been told DONE.                *)
FlowsOK(os, hd, w) ==
    /\ \A h \in Handles : hd[h].object # NoObject => FlowOK(hd[h], os[hd[h].object])
    /\ w.event = "data" /\ os[w.object].source_len > w.orig =>
          os[w.object].source_len = os[w.object].total
    /\ w.event = "done" /\ ~w.queued => Balanced(hd[w.user], os[w.object])
    /\ w.kind = "redirect" =>
          \A h \in Handles : hd[h].object = w.object => hd[h].state # COMPLETE

Before(s, x, y) == \E i, j \in DOMAIN s : i < j /\ s[i] = x /\ s[j] = y

(* DueAt(...) = "none", of the records.                                    *)
NoneDue(H, O, s) ==
    LET state == IF H.state = INIT /\ s > INIT THEN HEADERS ELSE H.state
    IN  /\ ~(state = HEADERS /\ s > HEADERS)
        /\ ~(state = DATA /\ s >= DATA /\ O.source_len > H.bytes)
        /\ ~(state = DATA /\ s > DATA)

(* The catch-up will still come to user h of object o.                     *)
Ahead(os, cached, uncached, w, h, o) ==
    /\ w.kind = "notify"
    /\ \/ o = w.object /\ (h = w.user \/ Before(os[o].users, w.user, h))
       \/ Before(cached, w.object, o)
       \/ Before(uncached, w.object, o)
       \/ ~w.uncached /\ Holds(uncached, o)

(* Every user has had what is due to it, or the catch-up will still come   *)
(* to it, or it is one of those left out; the state that the loop looks at *)
(* is that of the object, unless its user is left out.                     *)
CatchOK(os, cached, uncached, hd, w, m) ==
    /\ w.kind \in {"none", "notify"} =>
         \A h \in Handles : hd[h].object # NoObject /\ h \notin m =>
            \/ NoneDue(hd[h], os[hd[h].object], os[hd[h].object].state)
            \/ Ahead(os, cached, uncached, w, h, hd[h].object)
    /\ w.kind = "notify" =>
         \/ w.objstate = os[w.object].state
         \/ \A h \in Handles : hd[h].object = w.object => h \in m

(* All parts but the last.                                                 *)
Sound(os, cached, uncached, hd, w) ==
    /\ os \in Shape /\ hd \in [Handles -> Handle] /\ w \in WalkType
    /\ ListsOK(os, cached, uncached)
    /\ UsersOK(os, hd, w)
    /\ WalkOK(os, hd, w)
    /\ \A o \in LiveIn(os) : ObjectOK(os[o])
    /\ StreamOK(os, cached, hd)
    /\ CandOK(os)
    /\ FlowsOK(os, hd, w)

IInv ==
    /\ Sound(obj, cached_objects, uncached_objects, handle, walk)
    /\ all_caught_up => CatchOK(obj, cached_objects, uncached_objects, handle, walk, missed)
    /\ all_caught_up \in BOOLEAN /\ missed \in SUBSET Handles /\ turns \in 0..MaxTurns

-----------------------------------------------------------------------------
(* The lists.                                                              *)

LEMMA InRange == \A s, x : x \in Range(s) <=> Holds(s, x)
  BY DEF Range, Holds

(* Appending keeps the order and puts the new element behind.              *)
LEMMA AppendOrder ==
    ASSUME NEW S, NEW s \in Seq(S), NEW e \in S
    PROVE  /\ \A x, y : Before(s, x, y) => Before(Append(s, e), x, y)
           /\ \A x : Holds(s, x) => Before(Append(s, e), x, e)
<1> DEFINE r == Append(s, e)
<1>1. DOMAIN s = 1..Len(s) /\ Len(s) \in Nat
  BY LenProperties
<1>2. /\ r \in Seq(S) /\ Len(r) = Len(s) + 1
      /\ \A i \in 1..Len(s) : r[i] = s[i]
      /\ r[Len(s) + 1] = e
  BY AppendProperties
<1>3. DOMAIN r = 1..Len(s) + 1
  BY <1>2, LenProperties
<1> HIDE DEF r
<1>4. \A i \in DOMAIN s : i \in DOMAIN r /\ r[i] = s[i] /\ i < Len(s) + 1
  BY <1>1, <1>2, <1>3
<1>5. Len(s) + 1 \in DOMAIN r
  BY <1>1, <1>3
<1>6. ASSUME NEW x, NEW y, Before(s, x, y) PROVE Before(r, x, y)
  BY <1>4, <1>6 DEF Before
<1>7. ASSUME NEW x, Holds(s, x) PROVE Before(r, x, e)
  BY <1>2, <1>4, <1>5, <1>7 DEF Before, Holds
<1> QED BY <1>6, <1>7 DEF r

(* The recursive function of Kept is what its definition says.             *)
KeptStep(list, gone, f, n) ==
    IF n = 0 THEN <<>>
    ELSE IF list[n] \in gone THEN f[n - 1]
    ELSE Append(f[n - 1], list[n])

LEMMA KeptRecursion ==
    ASSUME NEW S, NEW list \in Seq(S), NEW gone
    PROVE  \E f : /\ f = [n \in 0..Len(list) |-> KeptStep(list, gone, f, n)]
                  /\ Kept(list, gone) = f[Len(list)]
<1> DEFINE Is(f, n) == f = [m \in 0..n |-> KeptStep(list, gone, f, m)]
           Bad == {n \in 0..Len(list) : ~\E f : Is(f, n)}
<1>1. Len(list) \in Nat
  BY LenProperties
<1>2. Bad = {}
  <2> SUFFICES ASSUME Bad # {} PROVE FALSE
    OBVIOUS
  <2> DEFINE n == Min(Bad)
  <2>1. n \in Bad /\ \A k \in Bad : n <= k
    <3>1. Bad \in SUBSET Nat BY <1>1
    <3> HIDE DEF Bad
    <3> QED BY <3>1, LeastOf
  <2> HIDE DEF n
  <2>2. n \in 0..Len(list) /\ ~\E f : Is(f, n)
    BY <2>1
  <2>3. CASE n = 0
    <3> DEFINE f == [m \in 0..0 |-> <<>>]
    <3>1. \A m \in 0..0 : m = 0 OBVIOUS
    <3>2. Is(f, 0)
      BY <3>1 DEF KeptStep
    <3> QED BY <3>2, <2>2, <2>3
  <2>4. CASE n # 0
    <3>1. n - 1 \in 0..Len(list) /\ ~(n <= n - 1) /\ n \in Nat
      BY <2>2, <2>4, <1>1
    <3>2. n - 1 \notin Bad
      BY <3>1, <2>1
    <3>3. PICK f : Is(f, n - 1)
      BY <3>1, <3>2
    <3> DEFINE g == [m \in 0..n |-> IF m = n THEN KeptStep(list, gone, f, n) ELSE f[m]]
    <3>4. ASSUME NEW m \in 0..n PROVE g[m] = KeptStep(list, gone, g, m)
      <4>1. CASE m = 0
        <5>1. g[0] = f[0] /\ f[0] = <<>> BY <2>4, <3>1, <3>3, <4>1 DEF KeptStep
        <5> QED BY <5>1, <4>1 DEF KeptStep
      <4>2. CASE m # 0
        <5>1. m - 1 \in 0..n /\ m - 1 # n /\ m - 1 \in 0..n - 1 BY <4>2, <3>1
        <5>2. g[m - 1] = f[m - 1] BY <5>1
        <5>3. g[m] = KeptStep(list, gone, f, m)
          <6>1. CASE m = n BY <6>1
          <6>2. CASE m # n
            <7>1. m \in 0..n - 1 BY <6>2, <3>1
            <7> QED BY <7>1, <6>2, <3>3
          <6> QED BY <6>1, <6>2
        <5> HIDE DEF g
        <5> QED BY <5>2, <5>3, <4>2 DEF KeptStep
      <4> QED BY <4>1, <4>2
    <3>5. g = [m \in 0..n |-> g[m]]
      OBVIOUS
    <3> HIDE DEF g
    <3>6. Is(g, n)
      BY <3>4, <3>5
    <3> QED BY <3>6, <2>2
  <2> QED BY <2>3, <2>4
<1>3. \E f : Is(f, Len(list))
  BY <1>1, <1>2
<1> DEFINE kept == CHOOSE f : Is(f, Len(list))
<1>4. Is(kept, Len(list))
  BY <1>3
<1>5. Kept(list, gone) = kept[Len(list)]
  BY DEF Kept, KeptStep
<1> HIDE DEF kept
<1> QED BY <1>4, <1>5

(* Objects that are destroyed are unlinked; the others stay on the list in *)
(* their order.                                                            *)
LEMMA KeptElements ==
    ASSUME NEW S, NEW list \in Seq(S), Distinct(list), NEW gone
    PROVE  /\ Kept(list, gone) \in Seq(S)
           /\ Distinct(Kept(list, gone))
           /\ \A x : Holds(Kept(list, gone), x) <=> Holds(list, x) /\ x \notin gone
           /\ \A x, y : Before(list, x, y) /\ x \notin gone /\ y \notin gone =>
                         Before(Kept(list, gone), x, y)
<1>1. Len(list) \in Nat /\ DOMAIN list = 1..Len(list) /\ \A i \in 1..Len(list) : list[i] \in S
  BY LenProperties, ElementOfSeq
<1>2. PICK f : /\ f = [n \in 0..Len(list) |-> KeptStep(list, gone, f, n)]
               /\ Kept(list, gone) = f[Len(list)]
  BY KeptRecursion
<1> DEFINE Part(n) ==
             /\ f[n] \in Seq(S) /\ Distinct(f[n])
             /\ \A x : Holds(f[n], x) <=> (\E i \in 1..n : list[i] = x) /\ x \notin gone
             /\ \A i, j \in 1..n : i < j /\ list[i] \notin gone /\ list[j] \notin gone =>
                   Before(f[n], list[i], list[j])
           Bad == {n \in 0..Len(list) : ~Part(n)}
<1>3. Part(0)
  <2>1. f[0] = <<>> BY <1>1, <1>2 DEF KeptStep
  <2>2. <<>> \in Seq(S) /\ DOMAIN <<>> = {} OBVIOUS
  <2>3. 1..0 = {} OBVIOUS
  <2> QED BY <2>1, <2>2, <2>3 DEF Distinct, Holds
<1>4. ASSUME NEW n \in 1..Len(list), Part(n - 1) PROVE Part(n)
  <2> DEFINE p == f[n - 1]
             e == list[n]
  <2>0. n \in Nat /\ n # 0 /\ n - 1 \in 0..Len(list) /\ e \in S
        /\ \A i \in 1..n : i \in 1..n - 1 \/ i = n
    BY <1>1
  <2>1. f[n] = IF e \in gone THEN p ELSE Append(p, e)
    <3>1. n \in 0..Len(list) BY <1>1
    <3>2. f[n] = KeptStep(list, gone, f, n) BY <3>1, <1>2
    <3> QED BY <3>2, <2>0, Zenon DEF KeptStep
  <2>2. /\ p \in Seq(S) /\ Distinct(p)
        /\ \A x : Holds(p, x) <=> (\E i \in 1..n - 1 : list[i] = x) /\ x \notin gone
        /\ \A i, j \in 1..n - 1 : i < j /\ list[i] \notin gone /\ list[j] \notin gone =>
              Before(p, list[i], list[j])
    BY <1>4
  <2>3. \A i \in 1..n - 1 : i \in 1..n /\ i # n /\ i \in DOMAIN list /\ n \in DOMAIN list
    BY <2>0, <1>1
  <2>4. \A x : (\E i \in 1..n : list[i] = x) <=> (\E i \in 1..n - 1 : list[i] = x) \/ x = e
    BY <2>0, <2>3
  <2> HIDE DEF p, e
  <2>5. CASE e \in gone
    <3>1. f[n] = p BY <2>1, <2>5
    <3>2. \A x : Holds(p, x) <=> (\E i \in 1..n : list[i] = x) /\ x \notin gone
      BY <2>2, <2>4, <2>5
    <3>3. \A i, j \in 1..n : i < j /\ list[i] \notin gone /\ list[j] \notin gone =>
             Before(p, list[i], list[j])
      BY <2>0, <2>2, <2>5 DEF e
    <3> QED BY <3>1, <3>2, <3>3, <2>2
  <2>6. CASE e \notin gone
    <3>1. f[n] = Append(p, e) BY <2>1, <2>6
    <3>2. ~Holds(p, e)
      BY <2>2, <2>3 DEF Distinct, e
    <3>3. /\ Append(p, e) \in Seq(S) /\ Distinct(Append(p, e))
          /\ \A x : Holds(Append(p, e), x) <=> Holds(p, x) \/ x = e
      BY <2>0, <2>2, <3>2, AppendDistinct
    <3>4. /\ \A x, y : Before(p, x, y) => Before(Append(p, e), x, y)
          /\ \A x : Holds(p, x) => Before(Append(p, e), x, e)
      BY <2>0, <2>2, AppendOrder
    <3>5. \A x : Holds(Append(p, e), x) <=> (\E i \in 1..n : list[i] = x) /\ x \notin gone
      BY <2>2, <2>4, <2>6, <3>3
    <3>6. ASSUME NEW i \in 1..n, NEW j \in 1..n, i < j, list[i] \notin gone, list[j] \notin gone
          PROVE  Before(Append(p, e), list[i], list[j])
      <4>1. i \in 1..n - 1 BY <3>6, <2>0
      <4>2. CASE j = n BY <4>1, <4>2, <2>2, <3>4, <3>6 DEF e
      <4>3. CASE j # n
        <5>1. j \in 1..n - 1 BY <4>3, <2>0
        <5> QED BY <4>1, <5>1, <3>6, <2>2, <3>4
      <4> QED BY <4>2, <4>3
    <3> HIDE DEF Part
    <3> QED BY <3>1, <3>3, <3>5, <3>6 DEF Part
  <2> QED BY <2>5, <2>6
<1> HIDE DEF Part
<1>5. Bad = {}
  <2> SUFFICES ASSUME Bad # {} PROVE FALSE
    OBVIOUS
  <2> DEFINE n == Min(Bad)
  <2>1. n \in Bad /\ \A k \in Bad : n <= k
    <3>1. Bad \in SUBSET Nat BY <1>1
    <3> HIDE DEF Bad
    <3> QED BY <3>1, LeastOf
  <2> HIDE DEF n
  <2>2. n \in 1..Len(list)
    BY <2>1, <1>1, <1>3
  <2>3. n - 1 \in 0..Len(list) /\ ~(n <= n - 1)
    BY <2>2, <1>1
  <2>4. Part(n - 1)
    BY <2>1, <2>3
  <2> QED BY <2>1, <2>2, <2>4, <1>4
<1>6. Part(Len(list))
  BY <1>1, <1>5
<1>7. ASSUME NEW x, NEW y, Before(list, x, y), x \notin gone, y \notin gone
      PROVE  Before(Kept(list, gone), x, y)
  BY <1>1, <1>2, <1>6, <1>7 DEF Part, Before
<1> QED BY <1>1, <1>2, <1>6, <1>7 DEF Part, Holds


(* Unlinking one member keeps the order of the others.                     *)
LEMMA WithoutElements ==
    ASSUME NEW S, NEW s \in Seq(S), Distinct(s), NEW x
    PROVE  /\ Without(s, x) \in Seq(S)
           /\ Distinct(Without(s, x))
           /\ \A y : Holds(Without(s, x), y) <=> Holds(s, y) /\ y # x
           /\ \A y, z : Before(s, y, z) /\ y # x /\ z # x => Before(Without(s, x), y, z)
<1>1. CASE x \notin Range(s)
  <2>1. Without(s, x) = s /\ ~Holds(s, x)
    BY <1>1, InRange DEF Without
  <2>2. \A y : Holds(s, y) => y # x
    BY <2>1
  <2> QED BY <2>1, <2>2
<1>2. CASE x \in Range(s)
  <2> DEFINE n == CHOOSE i \in DOMAIN s : s[i] = x
             r == RemoveAt(s, n)
             new(i) == IF i < n THEN i ELSE i - 1
  <2>1. Holds(s, x) BY <1>2, InRange
  <2>2. n \in DOMAIN s /\ s[n] = x
    BY <2>1 DEF Holds
  <2>3. Without(s, x) = r
    BY <1>2 DEF Without
  <2> HIDE DEF n
  <2>4. DOMAIN s = 1..Len(s) /\ Len(s) \in Nat
    BY LenProperties
  <2>5. /\ r \in Seq(S) /\ Distinct(r)
        /\ \A y : Holds(r, y) <=> Holds(s, y) /\ y # x
    BY <2>2, RemoveDistinct
  <2>6. /\ Len(r) = Len(s) - 1
        /\ \A i \in 1..Len(s) - 1 : r[i] = IF i < n THEN s[i] ELSE s[i + 1]
    BY <2>2, <2>4, RemoveAtElements
  <2> HIDE DEF r
  <2>7. DOMAIN r = 1..Len(s) - 1
    BY <2>5, <2>6, LenProperties
  <2>8. ASSUME NEW i \in DOMAIN s, i # n PROVE new(i) \in DOMAIN r /\ r[new(i)] = s[i]
    <3>1. CASE i < n
      <4>1. i \in 1..Len(s) - 1 BY <3>1, <2>2, <2>4
      <4> QED BY <4>1, <3>1, <2>6, <2>7
    <3>2. CASE i > n
      <4>1. i - 1 \in 1..Len(s) - 1 /\ ~(i - 1 < n) /\ i - 1 + 1 = i /\ ~(i < n)
        BY <3>2, <2>2, <2>4
      <4> QED BY <4>1, <2>6, <2>7
    <3> QED BY <3>1, <3>2, <2>8, <2>2, <2>4
  <2>9. \A i, j \in DOMAIN s : i # n /\ j # n /\ i < j => new(i) < new(j)
    BY <2>2, <2>4
  <2> HIDE DEF new
  <2>10. ASSUME NEW y, NEW z, Before(s, y, z), y # x, z # x PROVE Before(r, y, z)
    <3>1. PICK i \in DOMAIN s, j \in DOMAIN s : i < j /\ s[i] = y /\ s[j] = z
      BY <2>10 DEF Before
    <3>2. i # n /\ j # n BY <3>1, <2>2, <2>10
    <3> QED BY <3>1, <3>2, <2>8, <2>9 DEF Before
  <2> QED BY <2>3, <2>5, <2>10
<1> QED BY <1>1, <1>2

(* Linking a new member at the head adds exactly that one, before all      *)
(* others (llcache_object_add_to_list, llcache_object_add_user).           *)
LEMMA ConsElements ==
    ASSUME NEW S, NEW s \in Seq(S), Distinct(s), NEW e \in S, ~Holds(s, e)
    PROVE  /\ <<e>> \o s \in Seq(S)
           /\ Distinct(<<e>> \o s)
           /\ \A y : Holds(<<e>> \o s, y) <=> Holds(s, y) \/ y = e
           /\ \A y, z : Before(s, y, z) => Before(<<e>> \o s, y, z)
           /\ \A y : Holds(s, y) => Before(<<e>> \o s, e, y)
<1> DEFINE a == <<e>>
           r == a \o s
<1>1. a \in Seq(S) /\ Len(a) = 1 /\ a[1] = e
  OBVIOUS
<1>2. DOMAIN s = 1..Len(s) /\ Len(s) \in Nat
  BY LenProperties
<1> HIDE DEF a
<1>3. /\ r \in Seq(S) /\ Len(r) = 1 + Len(s)
      /\ \A i \in 1..1 : r[i] = a[i]
      /\ \A i \in 1..Len(s) : r[1 + i] = s[i]
  BY <1>1, JoinElements
<1> HIDE DEF r
<1>4. DOMAIN r = 1..1 + Len(s)
  BY <1>3, LenProperties
<1>5. r[1] = e /\ 1 \in DOMAIN r
  BY <1>1, <1>2, <1>3, <1>4
<1>6. \A i \in DOMAIN s : 1 + i \in DOMAIN r /\ r[1 + i] = s[i] /\ 1 < 1 + i
  BY <1>2, <1>3, <1>4
<1>7. ASSUME NEW i \in DOMAIN r, i # 1 PROVE i - 1 \in DOMAIN s /\ r[i] = s[i - 1]
  <2>1. i - 1 \in 1..Len(s) /\ 1 + (i - 1) = i BY <1>2, <1>4, <1>7
  <2> QED BY <2>1, <1>2, <1>3
<1>8. Distinct(r)
  <2> SUFFICES ASSUME NEW i \in DOMAIN r, NEW j \in DOMAIN r, r[i] = r[j] PROVE i = j
    BY DEF Distinct
  <2>1. CASE i = 1 \/ j = 1
    BY <2>1, <1>5, <1>7 DEF Holds
  <2>2. CASE i # 1 /\ j # 1
    <3>1. i - 1 = j - 1 BY <2>2, <1>7 DEF Distinct
    <3> QED BY <3>1, <1>2, <1>4
  <2> QED BY <2>1, <2>2
<1>9. ASSUME NEW y PROVE Holds(r, y) <=> Holds(s, y) \/ y = e
  BY <1>5, <1>6, <1>7 DEF Holds
<1>10. ASSUME NEW y, NEW z, Before(s, y, z) PROVE Before(r, y, z)
  <2>1. PICK i \in DOMAIN s, j \in DOMAIN s : i < j /\ s[i] = y /\ s[j] = z
    BY <1>10 DEF Before
  <2>2. 1 + i < 1 + j BY <2>1, <1>2
  <2> QED BY <2>1, <2>2, <1>6 DEF Before
<1>11. ASSUME NEW y, Holds(s, y) PROVE Before(r, e, y)
  BY <1>5, <1>6, <1>11 DEF Before, Holds
<1> QED BY <1>3, <1>8, <1>9, <1>10, <1>11 DEF r, a


(* The users moved by a redirect, in the order in which they are linked.   *)
LEMMA ReverseJoin ==
    ASSUME NEW S, NEW s \in Seq(S), NEW t \in Seq(S), Distinct(s), Distinct(t),
           \A x : ~(Holds(s, x) /\ Holds(t, x))
    PROVE  /\ Reverse(s) \o t \in Seq(S)
           /\ Distinct(Reverse(s) \o t)
           /\ \A x : Holds(Reverse(s) \o t, x) <=> Holds(s, x) \/ Holds(t, x)
<1> DEFINE v == Reverse(s)
           r == v \o t
           n == Len(s)
<1>1. DOMAIN s = 1..n /\ n \in Nat /\ DOMAIN t = 1..Len(t) /\ Len(t) \in Nat
      /\ \A i \in 1..n : s[i] \in S
  BY LenProperties, ElementOfSeq
<1>2. v = [i \in 1..n |-> s[n - i + 1]]
  BY DEF Reverse
<1>3. \A i \in 1..n : n - i + 1 \in 1..n
  BY <1>1
<1>4. v \in Seq(S) /\ Len(v) = n /\ \A i \in 1..n : v[i] = s[n - i + 1]
  <2>1. \A i \in 1..n : s[n - i + 1] \in S BY <1>1, <1>3
  <2> QED BY <1>1, <1>2, <2>1, IsASeq
<1> HIDE DEF v
<1>5. /\ r \in Seq(S) /\ Len(r) = n + Len(t)
      /\ \A i \in 1..n : r[i] = v[i]
      /\ \A i \in 1..Len(t) : r[n + i] = t[i]
  <2>1. /\ r \in Seq(S) /\ Len(r) = Len(v) + Len(t)
        /\ \A i \in 1..Len(v) : r[i] = v[i]
        /\ \A i \in 1..Len(t) : r[Len(v) + i] = t[i]
    <3>1. v \in Seq(S) BY <1>4
    <3> QED BY <3>1, JoinElements
  <2> HIDE DEF n, r
  <2> QED BY <2>1, <1>4
<1> HIDE DEF r, n
<1>6. DOMAIN r = 1..n + Len(t)
  BY <1>5, LenProperties
<1>7. ASSUME NEW i \in DOMAIN r
      PROVE  \/ i \in 1..n /\ n - i + 1 \in DOMAIN s /\ r[i] = s[n - i + 1]
             \/ ~(i <= n) /\ i - n \in DOMAIN t /\ r[i] = t[i - n]
  <2>1. CASE i <= n
    <3>1. i \in 1..n BY <2>1, <1>1, <1>6
    <3> QED BY <3>1, <1>1, <1>3, <1>4, <1>5
  <2>2. CASE ~(i <= n)
    <3>1. i - n \in 1..Len(t) /\ n + (i - n) = i BY <2>2, <1>1, <1>6
    <3> QED BY <3>1, <2>2, <1>1, <1>5
  <2> QED BY <2>1, <2>2
<1>8. Distinct(r)
  <2> SUFFICES ASSUME NEW i \in DOMAIN r, NEW j \in DOMAIN r, r[i] = r[j] PROVE i = j
    BY DEF Distinct
  <2>1. CASE i <= n /\ j <= n
    <3>1. n - i + 1 = n - j + 1 BY <2>1, <1>7 DEF Distinct
    <3> QED BY <3>1, <1>1, <1>6
  <2>2. CASE ~(i <= n) /\ ~(j <= n)
    <3>0. \A k \in DOMAIN r : k \in Nat /\ (k \in 1..n => k <= n) BY <1>1, <1>6
    <3>1. i - n = j - n BY <2>2, <3>0, <1>7 DEF Distinct
    <3> QED BY <3>1, <1>1, <1>6
  <2>3. CASE (i <= n /\ ~(j <= n)) \/ (~(i <= n) /\ j <= n)
    <3>0. \A k \in DOMAIN r : k \in Nat /\ (k \in 1..n => k <= n) BY <1>1, <1>6
    <3> QED BY <2>3, <3>0, <1>7 DEF Holds
  <2> QED BY <2>1, <2>2, <2>3
<1>9. ASSUME NEW x, Holds(r, x) PROVE Holds(s, x) \/ Holds(t, x)
  BY <1>7, <1>9 DEF Holds
<1>10. ASSUME NEW x, Holds(s, x) PROVE Holds(r, x)
  <2>1. PICK k \in DOMAIN s : s[k] = x BY <1>10 DEF Holds
  <2>2. n - k + 1 \in 1..n /\ n - (n - k + 1) + 1 = k /\ n - k + 1 \in DOMAIN r
    <3>1. n \in Nat /\ k \in 1..n /\ Len(t) \in Nat BY <1>1
    <3>2. n - k + 1 \in 1..n /\ n - (n - k + 1) + 1 = k BY <3>1
    <3>3. n - k + 1 \in 1..n + Len(t) BY <3>1, <3>2
    <3> QED BY <3>2, <3>3, <1>6
  <2> QED BY <2>1, <2>2, <1>4, <1>5 DEF Holds
<1>11. ASSUME NEW x, Holds(t, x) PROVE Holds(r, x)
  <2>1. PICK k \in DOMAIN t : t[k] = x BY <1>11 DEF Holds
  <2>2. n + k \in DOMAIN r BY <1>1, <1>6
  <2> QED BY <2>1, <2>2, <1>1, <1>5 DEF Holds
<1> QED BY <1>5, <1>8, <1>9, <1>10, <1>11 DEF r, v

(* A user that stays behind without its handle keeps its place.            *)
LEMMA LeftElements ==
    ASSUME NEW S, NEW s \in Seq(S), Distinct(s), NEW x, NEW g \in S, ~Holds(s, g), Holds(s, x)
    PROVE  LET r == [i \in DOMAIN s |-> IF s[i] = x THEN g ELSE s[i]]
           IN  /\ r \in Seq(S)
               /\ Distinct(r)
               /\ \A y : Holds(r, y) <=> (Holds(s, y) /\ y # x) \/ y = g
               /\ \A y : Before(s, x, y) => Before(r, g, y)
<1> DEFINE r == [i \in DOMAIN s |-> IF s[i] = x THEN g ELSE s[i]]
<1>1. DOMAIN s = 1..Len(s) /\ Len(s) \in Nat /\ \A i \in 1..Len(s) : s[i] \in S
  BY LenProperties, ElementOfSeq
<1>2. DOMAIN r = DOMAIN s /\ \A i \in DOMAIN s : r[i] = IF s[i] = x THEN g ELSE s[i]
  OBVIOUS
<1>3. r \in Seq(S)
  <2>1. \A i \in 1..Len(s) : (IF s[i] = x THEN g ELSE s[i]) \in S BY <1>1
  <2>2. r = [i \in 1..Len(s) |-> IF s[i] = x THEN g ELSE s[i]] BY <1>1
  <2> HIDE DEF r
  <2> QED BY <1>1, <2>1, <2>2, IsASeq
<1> HIDE DEF r
<1>4. Distinct(r)
  BY <1>2 DEF Distinct, Holds
<1>5. ASSUME NEW y PROVE Holds(r, y) <=> (Holds(s, y) /\ y # x) \/ y = g
  BY <1>2 DEF Holds
<1>6. ASSUME NEW y, Before(s, x, y) PROVE Before(r, g, y)
  <2>1. PICK i \in DOMAIN s, j \in DOMAIN s : i < j /\ s[i] = x /\ s[j] = y
    BY <1>6 DEF Before
  <2>2. s[j] # x BY <2>1, <1>1 DEF Distinct
  <2> QED BY <2>1, <2>2, <1>2 DEF Before
<1> QED BY <1>3, <1>4, <1>5, <1>6 DEF r

-----------------------------------------------------------------------------
(* The objects.                                                            *)

LEMMA ObjectFields ==
    ASSUME NEW O \in Object
    PROVE  /\ O.url \in Urls /\ O.users \in Seq(Handles \cup {Gone})
           /\ O.state \in 0..3 /\ O.source_len \in 0..MaxLen /\ O.total \in 0..MaxLen
           /\ O.fetch \in BOOLEAN /\ O.force \in BOOLEAN /\ O.stream \in BOOLEAN
           /\ O.candidate \in Objects \cup {NoObject}
           /\ O.candidate_count \in 0..Cardinality(Objects)
           /\ O.cache \in {"fresh", "stale", "validate"}
           /\ O.timed \in BOOLEAN /\ O.late \in BOOLEAN
  BY DEF Object, INIT, COMPLETE

LEMMA HandleFields ==
    ASSUME NEW H \in Handle
    PROVE  /\ H.object \in Objects \cup {NoObject} /\ H.state \in 0..3
           /\ H.bytes \in 0..MaxLen /\ H.got \in 0..MaxLen
  BY DEF Handle, INIT, COMPLETE

LEMMA WalkFields ==
    ASSUME NEW w \in WalkType
    PROVE  /\ w.kind \in {"none", "notify", "redirect", "error"}
           /\ w.object \in Objects \cup {NoObject}
           /\ w.user \in Handles \cup {Gone, NoHandle} /\ w.in \in BOOLEAN
           /\ w.event \in {"none", "headers", "data", "done"}
           /\ w.objstate \in 0..3 /\ w.orig \in 0..MaxLen
           /\ w.queued \in BOOLEAN /\ w.uncached \in BOOLEAN /\ w.to \in Urls \cup {NoObject}
  BY DEF WalkType, INIT, COMPLETE

LEMMA NotObjects == Free \notin Object /\ Destroyed \notin Object
<1>1. Free.url = NoObject /\ Destroyed.url = NoObject
  BY DEF Free, Destroyed
<1> QED BY <1>1, ObjectFields, LLCacheAssumption

(* The fields of an object that a step leaves alone.                       *)
Names == {"url", "users", "state", "source_len", "total", "fetch", "force", "stream",
          "candidate", "candidate_count", "cache", "timed", "late"}

Keeps(O, R, F) == R \in Object /\ \A f \in Names \ F : R[f] = O[f]

LEMMA KeepsBoth ==
    ASSUME NEW O, NEW A, NEW R, NEW F, NEW G, Keeps(O, A, F), Keeps(A, R, G)
    PROVE  Keeps(O, R, F \cup G)
  BY DEF Keeps

LEMMA SetState ==
    ASSUME NEW O \in Object, NEW v \in INIT..COMPLETE
    PROVE  Keeps(O, [O EXCEPT !.state = v], {"state"}) /\ [O EXCEPT !.state = v].state = v
<1>1. [O EXCEPT !.state = v] \in Object BY DEF Object
<1> QED BY <1>1 DEF Keeps, Object, Names

LEMMA SetFetch ==
    ASSUME NEW O \in Object, NEW v \in BOOLEAN
    PROVE  Keeps(O, [O EXCEPT !.fetch = v], {"fetch"}) /\ [O EXCEPT !.fetch = v].fetch = v
<1>1. [O EXCEPT !.fetch = v] \in Object BY DEF Object
<1> QED BY <1>1 DEF Keeps, Object, Names

LEMMA SetCache ==
    ASSUME NEW O \in Object, NEW v \in {"fresh", "stale", "validate"}
    PROVE  Keeps(O, [O EXCEPT !.cache = v], {"cache"}) /\ [O EXCEPT !.cache = v].cache = v
<1>1. [O EXCEPT !.cache = v] \in Object BY DEF Object
<1> QED BY <1>1 DEF Keeps, Object, Names

LEMMA SetTimed ==
    ASSUME NEW O \in Object, NEW v \in BOOLEAN
    PROVE  Keeps(O, [O EXCEPT !.timed = v], {"timed"}) /\ [O EXCEPT !.timed = v].timed = v
<1>1. [O EXCEPT !.timed = v] \in Object BY DEF Object
<1> QED BY <1>1 DEF Keeps, Object, Names

LEMMA SetUsers ==
    ASSUME NEW O \in Object, NEW v \in Seq(Handles \cup {Gone})
    PROVE  Keeps(O, [O EXCEPT !.users = v], {"users"}) /\ [O EXCEPT !.users = v].users = v
<1>1. [O EXCEPT !.users = v] \in Object BY DEF Object
<1> QED BY <1>1 DEF Keeps, Object, Names

LEMMA SetLate ==
    ASSUME NEW O \in Object, NEW v \in BOOLEAN
    PROVE  Keeps(O, [O EXCEPT !.late = v], {"late"}) /\ [O EXCEPT !.late = v].late = v
<1>1. [O EXCEPT !.late = v] \in Object BY DEF Object
<1> QED BY <1>1 DEF Keeps, Object, Names

LEMMA SetStream ==
    ASSUME NEW O \in Object, NEW v \in BOOLEAN
    PROVE  Keeps(O, [O EXCEPT !.stream = v], {"stream"}) /\ [O EXCEPT !.stream = v].stream = v
<1>1. [O EXCEPT !.stream = v] \in Object BY DEF Object
<1> QED BY <1>1 DEF Keeps, Object, Names

LEMMA SetSourceLen ==
    ASSUME NEW O \in Object, NEW v \in 0..MaxLen
    PROVE  Keeps(O, [O EXCEPT !.source_len = v], {"source_len"}) /\ [O EXCEPT !.source_len = v].source_len = v
<1>1. [O EXCEPT !.source_len = v] \in Object BY DEF Object
<1> QED BY <1>1 DEF Keeps, Object, Names

LEMMA SetTotal ==
    ASSUME NEW O \in Object, NEW v \in 0..MaxLen
    PROVE  Keeps(O, [O EXCEPT !.total = v], {"total"}) /\ [O EXCEPT !.total = v].total = v
<1>1. [O EXCEPT !.total = v] \in Object BY DEF Object
<1> QED BY <1>1 DEF Keeps, Object, Names

LEMMA SetCandidate ==
    ASSUME NEW O \in Object, NEW v \in Objects \cup {NoObject}
    PROVE  Keeps(O, [O EXCEPT !.candidate = v], {"candidate"}) /\ [O EXCEPT !.candidate = v].candidate = v
<1>1. [O EXCEPT !.candidate = v] \in Object BY DEF Object
<1> QED BY <1>1 DEF Keeps, Object, Names

LEMMA SetCount ==
    ASSUME NEW O \in Object, NEW v \in 0..Cardinality(Objects)
    PROVE  Keeps(O, [O EXCEPT !.candidate_count = v], {"candidate_count"}) /\ [O EXCEPT !.candidate_count = v].candidate_count = v
<1>1. [O EXCEPT !.candidate_count = v] \in Object BY DEF Object
<1> QED BY <1>1 DEF Keeps, Object, Names

LEMMA LiveIs ==
    ASSUME obj \in Shape
    PROVE  Live = LiveIn(obj)
<1>1. \A o \in Objects : obj[o] \in Object \/ obj[o] \in {Free, Destroyed}
  BY DEF Shape
<1> QED BY <1>1, NotObjects DEF Live, LiveIn

LEMMA LiveIsPrimed ==
    ASSUME obj' \in Shape
    PROVE  Live' = LiveIn(obj')
<1>1. \A o \in Objects : obj'[o] \in Object \/ obj'[o] \in {Free, Destroyed}
  BY DEF Shape
<1> QED BY <1>1, NotObjects DEF Live, LiveIn

LEMMA NoWalkType == NoWalk \in WalkType
  BY LLCacheAssumption DEF NoWalk, WalkType, INIT, COMPLETE

(* The members of a list are told apart by what is on it.                  *)
LEMMA EmptyIs ==
    ASSUME NEW S, NEW s \in Seq(S)
    PROVE  /\ s = <<>> <=> \A x : ~Holds(s, x)
           /\ s # <<>> => Head(s) = s[1] /\ 1 \in DOMAIN s /\ Holds(s, Head(s))
<1>1. DOMAIN s = 1..Len(s) /\ Len(s) \in Nat
  BY LenProperties
<1>2. CASE s = <<>>
  <2>1. DOMAIN s = {} BY <1>2
  <2> QED BY <1>2, <2>1 DEF Holds
<1>3. CASE s # <<>>
  <2>1. Len(s) # 0 BY <1>3, EmptySeq
  <2>2. 1 \in DOMAIN s BY <1>1, <2>1
  <2>3. Head(s) = s[1] BY <1>3
  <2> QED BY <1>3, <2>2, <2>3 DEF Holds
<1> QED BY <1>2, <1>3

-----------------------------------------------------------------------------
(* The loops over users and objects.                                       *)

(* The user after this one is the next of those that are still to come.    *)
LEMMA UserAfterIs ==
    ASSUME NEW o, obj[o].users \in Seq(Handles \cup {Gone}), Distinct(obj[o].users), NEW u
    PROVE  LET v == UserAfter(o, u)
               s == obj[o].users
           IN  /\ v = NoHandle => \A y : ~Before(s, u, y)
               /\ v # NoHandle => /\ Holds(s, v) /\ v # u
                                  /\ \A y : Before(s, u, y) => y = v \/ Before(s, v, y)
<1> DEFINE s == obj[o].users
           later == {i \in DOMAIN s : i > 1 /\ s[i - 1] = u}
           v == UserAfter(o, u)
<1>1. DOMAIN s = 1..Len(s) /\ Len(s) \in Nat /\ \A i \in 1..Len(s) : s[i] \in Handles \cup {Gone}
  BY LenProperties, ElementOfSeq
<1>2. v = IF later = {} THEN NoHandle ELSE s[CHOOSE i \in later : TRUE]
  BY DEF UserAfter
<1> HIDE DEF v
<1>3. ASSUME NEW y, Before(s, u, y)
      PROVE  \E i, j \in DOMAIN s : i + 1 \in later /\ i + 1 <= j /\ s[i] = u /\ s[j] = y
  <2>1. PICK i \in DOMAIN s, j \in DOMAIN s : i < j /\ s[i] = u /\ s[j] = y
    BY <1>3 DEF Before
  <2> HIDE DEF s
  <2>2. i + 1 \in DOMAIN s /\ i + 1 > 1 /\ (i + 1) - 1 = i /\ i + 1 <= j
    BY <2>1, <1>1
  <2> QED BY <2>1, <2>2
<1>4. CASE later = {}
  <2>1. v = NoHandle BY <1>2, <1>4
  <2>2. \A y : ~Before(s, u, y) BY <1>3, <1>4
  <2> QED BY <2>1, <2>2 DEF v
<1>5. CASE later # {}
  <2> DEFINE k == CHOOSE i \in later : TRUE
  <2>1. k \in later /\ v = s[k]
    BY <1>2, <1>5
  <2> HIDE DEF k, s
  <2>2. k \in DOMAIN s /\ k > 1 /\ s[k - 1] = u /\ k - 1 \in DOMAIN s /\ k \in Nat
    BY <2>1, <1>1
  <2>3. v \in Handles \cup {Gone}
    BY <2>1, <2>2, <1>1
  <2>4. v # NoHandle
    BY <2>3, LLCacheAssumption
  <2>5. v # u
    <3>1. k # k - 1 BY <2>2
    <3>2. Distinct(s) BY DEF s
    <3> QED BY <3>1, <3>2, <2>1, <2>2 DEF Distinct
  <2>6. ASSUME NEW y, Before(s, u, y) PROVE y = v \/ Before(s, v, y)
    <3>1. PICK i \in DOMAIN s, j \in DOMAIN s :
             i + 1 \in later /\ i + 1 <= j /\ s[i] = u /\ s[j] = y
      BY <1>3, <2>6 DEF s
    <3>2. i = k - 1
      <4>1. Distinct(s) BY DEF s
      <4> QED BY <3>1, <2>2, <4>1 DEF Distinct
    <3>3. k = j \/ k < j BY <3>1, <3>2, <2>2, <1>1
    <3> QED BY <3>1, <3>3, <2>1, <2>2 DEF Before
  <2> QED BY <2>1, <2>2, <2>4, <2>5, <2>6 DEF Holds, s, v
<1> QED BY <1>4, <1>5

(* What follows a member of a list.                                        *)
LEMMA SuffixElements ==
    ASSUME NEW S, NEW s \in Seq(S), Distinct(s), NEW n \in DOMAIN s
    PROVE  LET r == SubSeq(s, n + 1, Len(s))
           IN  /\ r \in Seq(S)
               /\ \A i, j \in DOMAIN r : i < j => Before(s, r[i], r[j])
               /\ \A p : Before(s, s[n], p) => Holds(r, p)
<1> DEFINE r == SubSeq(s, n + 1, Len(s))
<1>1. DOMAIN s = 1..Len(s) /\ Len(s) \in Nat
  BY LenProperties
<1>2. n \in 0..Len(s)
  BY <1>1
<1>3. r \in Seq(S) /\ Len(r) = Len(s) - n /\ \A i \in 1..Len(s) - n : r[i] = s[n + i]
  BY <1>2, CutElements
<1> HIDE DEF r
<1>4. DOMAIN r = 1..Len(s) - n
  BY <1>3, LenProperties
<1>5. \A i \in DOMAIN r : n + i \in DOMAIN s /\ r[i] = s[n + i]
  BY <1>1, <1>3, <1>4
<1>6. ASSUME NEW i \in DOMAIN r, NEW j \in DOMAIN r, i < j PROVE Before(s, r[i], r[j])
  <2>1. n + i < n + j BY <1>1, <1>4, <1>6
  <2> QED BY <2>1, <1>5 DEF Before
<1>7. ASSUME NEW p, Before(s, s[n], p) PROVE Holds(r, p)
  <2>1. PICK i \in DOMAIN s, j \in DOMAIN s : i < j /\ s[i] = s[n] /\ s[j] = p
    BY <1>7 DEF Before
  <2>2. i = n BY <2>1 DEF Distinct
  <2>3. j - n \in 1..Len(s) - n /\ n + (j - n) = j BY <2>1, <2>2, <1>1
  <2> QED BY <2>1, <2>3, <1>3, <1>4 DEF Holds
<1> QED BY <1>3, <1>6, <1>7 DEF r

(* A list along which the two lists are walked in their order.             *)
InOrder(list, cached, uncached) ==
    \A i, j \in DOMAIN list : i < j =>
        Before(cached, list[i], list[j]) \/ Before(uncached, list[i], list[j])

LEMMA OnlyListed ==
    ASSUME NEW s, NEW x, NEW y, Before(s, x, y)
    PROVE  Holds(s, x) /\ Holds(s, y)
  BY DEF Before, Holds

LEMMA AfterIs ==
    ASSUME ListsOK(obj, cached_objects, uncached_objects), NEW o \in LiveIn(obj)
    PROVE  /\ After(o) \in Seq(LiveIn(obj))
           /\ InOrder(After(o), cached_objects, uncached_objects)
           /\ \A p : Before(cached_objects, o, p) \/ Before(uncached_objects, o, p) =>
                 Holds(After(o), p)
<1> DEFINE S == LiveIn(obj)
           list == IF OnCachedList(o) THEN cached_objects ELSE uncached_objects
           n == CHOOSE k \in DOMAIN list : list[k] = o
<1>1. /\ cached_objects \in Seq(S) /\ uncached_objects \in Seq(S)
      /\ Distinct(cached_objects) /\ Distinct(uncached_objects)
      /\ Holds(cached_objects, o) <=> ~Holds(uncached_objects, o)
  BY DEF ListsOK
<1>2. OnCachedList(o) <=> Holds(cached_objects, o)
  BY DEF OnCachedList, Holds
<1>3. list \in Seq(S) /\ Distinct(list) /\ Holds(list, o)
  BY <1>1, <1>2
<1>4. After(o) = SubSeq(list, n + 1, Len(list))
  BY DEF After
<1>5. \A x, y : Before(list, x, y) => Before(cached_objects, x, y) \/ Before(uncached_objects, x, y)
  OBVIOUS
<1>6. \A p : Before(cached_objects, o, p) \/ Before(uncached_objects, o, p) => Before(list, o, p)
  BY <1>1, <1>2, OnlyListed
<1> HIDE DEF list, S
<1>7. n \in DOMAIN list /\ list[n] = o
  BY <1>3 DEF Holds
<1> HIDE DEF n
<1>8. /\ After(o) \in Seq(S)
      /\ \A i, j \in DOMAIN After(o) : i < j => Before(list, After(o)[i], After(o)[j])
      /\ \A p : Before(list, o, p) => Holds(After(o), p)
  BY <1>3, <1>4, <1>7, SuffixElements
<1> QED BY <1>5, <1>6, <1>8 DEF InOrder, S

(* The loop along a list stops at the first object that has users.         *)
LEMMA AlongIs ==
    ASSUME NEW os \in Shape, NEW list \in Seq(LiveIn(os)), NEW uncached
    PROVE  LET w == Along(os, list, uncached)
           IN  \/ w = NoWalk /\ \A p : Holds(list, p) => os[p].users = <<>>
               \/ \E n \in DOMAIN list :
                     /\ w = AtObject(os, list[n], uncached) /\ os[list[n]].users # <<>>
                     /\ \A j \in DOMAIN list : os[list[j]].users # <<>> => j = n \/ n < j
<1> DEFINE used == {i \in DOMAIN list : os[list[i]].users # <<>>}
           w == Along(os, list, uncached)
<1>1. DOMAIN list = 1..Len(list) /\ Len(list) \in Nat
  BY LenProperties
<1>2. w = IF used = {} THEN NoWalk ELSE AtObject(os, list[Min(used)], uncached)
  BY DEF Along
<1> HIDE DEF w
<1>3. CASE used = {}
  <2>1. w = NoWalk BY <1>2, <1>3
  <2>2. \A p : Holds(list, p) => os[p].users = <<>> BY <1>3 DEF Holds
  <2> QED BY <2>1, <2>2 DEF w
<1>4. CASE used # {}
  <2> DEFINE n == Min(used)
  <2>1. n \in used /\ \A j \in used : n <= j
    <3>1. used \in SUBSET Nat BY <1>1
    <3> HIDE DEF used
    <3> QED BY <3>1, <1>4, LeastOf
  <2>2. w = AtObject(os, list[n], uncached) BY <1>2, <1>4
  <2> HIDE DEF n
  <2>3. n \in DOMAIN list /\ os[list[n]].users # <<>> BY <2>1
  <2>4. \A j \in DOMAIN list : os[list[j]].users # <<>> => j = n \/ n < j
    BY <2>1, <1>1
  <2> QED BY <2>2, <2>3, <2>4 DEF w
<1> QED BY <1>3, <1>4

(* The walk is at the first user of the object.                            *)
StartsAt(os, o, uncached, w) ==
    /\ w \in WalkType /\ w # NoWalk
    /\ w.kind = "notify" /\ w.object = o /\ w.user = Head(os[o].users)
    /\ w.in = FALSE /\ w.event = "none" /\ w.objstate = os[o].state
    /\ w.queued = FALSE /\ w.uncached = uncached
    /\ Holds(os[o].users, w.user) /\ w.user # NoHandle
    /\ \A y : Holds(os[o].users, y) => y = w.user \/ Before(os[o].users, w.user, y)

LEMMA AtObjectIs ==
    ASSUME NEW os \in Shape, NEW o \in LiveIn(os), os[o].users # <<>>, NEW uncached \in BOOLEAN
    PROVE  StartsAt(os, o, uncached, AtObject(os, o, uncached))
<1> DEFINE s == os[o].users
           w == AtObject(os, o, uncached)
<1>1. o \in Objects /\ os[o] \in Object
  BY DEF LiveIn
<1>2. s \in Seq(Handles \cup {Gone}) /\ os[o].state \in 0..3
  BY <1>1, ObjectFields
<1>3. DOMAIN s = 1..Len(s) /\ Len(s) \in Nat /\ \A i \in 1..Len(s) : s[i] \in Handles \cup {Gone}
  BY <1>2, LenProperties, ElementOfSeq
<1>4. 1 \in DOMAIN s /\ Head(s) = s[1] /\ Holds(s, Head(s))
  BY <1>2, EmptyIs
<1>5. Head(s) \in Handles \cup {Gone} /\ Head(s) # NoHandle
  BY <1>3, <1>4, LLCacheAssumption
<1> DEFINE x == [NoWalk EXCEPT !.kind = "notify", !.object = o, !.user = Head(s),
                               !.objstate = os[o].state, !.uncached = uncached]
<1>6. w = x BY DEF AtObject
<1> HIDE DEF w, s
<1>7. x \in WalkType /\ x.kind = "notify" /\ x.object = o /\ x.user = Head(s)
      /\ x.in = FALSE /\ x.event = "none" /\ x.objstate = os[o].state
      /\ x.queued = FALSE /\ x.uncached = uncached
  <2> DEFINE st == os[o].state
             u == Head(s)
  <2>1. NoWalk \in WalkType /\ NoWalk.in = FALSE /\ NoWalk.event = "none" /\ NoWalk.queued = FALSE
    BY NoWalkType DEF NoWalk
  <2>2. st \in INIT..COMPLETE /\ u \in Handles \cup {Gone, NoHandle}
    BY <1>2, <1>5 DEF INIT, COMPLETE
  <2> HIDE DEF st, u
  <2> QED BY <1>1, <2>1, <2>2 DEF WalkType, st, u
<1>8. NoWalk.kind = "none" BY DEF NoWalk
<1> HIDE DEF x
<1>9. ASSUME NEW y, Holds(s, y) PROVE y = Head(s) \/ Before(s, Head(s), y)
  <2>1. PICK j \in DOMAIN s : s[j] = y BY <1>9 DEF Holds
  <2>2. j = 1 \/ 1 < j BY <1>3
  <2> QED BY <2>1, <2>2, <1>4 DEF Before
<1> QED BY <1>4, <1>5, <1>6, <1>7, <1>8, <1>9 DEF w, s, StartsAt

(* A walk that has just come to an object, or that has ended: sound, and   *)
(* between two callbacks.                                                  *)
Landed(os, hd, w) ==
    /\ w \in WalkType /\ WalkOK(os, hd, w)
    /\ w.kind \in {"none", "notify"} /\ w.event = "none" /\ w.queued = FALSE /\ w.in = FALSE
    /\ w.kind = "notify" => w.objstate = os[w.object].state

LEMMA LandsAt ==
    ASSUME NEW os \in Shape, NEW hd, NEW w0, UsersOK(os, hd, w0),
           NEW cached, NEW uncached, NEW list \in Seq(LiveIn(os)),
           InOrder(list, cached, uncached),
           NEW n \in DOMAIN list, os[list[n]].users # <<>>,
           \A j \in DOMAIN list : os[list[j]].users # <<>> => j = n \/ n < j,
           NEW unc \in BOOLEAN
    PROVE  LET w == AtObject(os, list[n], unc)
           IN  /\ Landed(os, hd, w) /\ w # NoWalk /\ w.uncached = unc /\ w.kind = "notify"
               /\ \A h \in Handles : hd[h].object # NoObject /\ Holds(list, hd[h].object) =>
                     Ahead(os, cached, uncached, w, h, hd[h].object)
<1> DEFINE o == list[n]
           w == AtObject(os, o, unc)
<1>1. o \in LiveIn(os) /\ os[o].users # <<>>
  BY ElementOfSeq, LenProperties
<1> HIDE DEF o
<1>2. /\ w \in WalkType /\ w # NoWalk
      /\ w.kind = "notify" /\ w.object = o /\ w.user = Head(os[o].users)
      /\ w.in = FALSE /\ w.event = "none" /\ w.objstate = os[o].state
      /\ w.queued = FALSE /\ w.uncached = unc
      /\ Holds(os[o].users, w.user) /\ w.user # NoHandle
      /\ \A y : Holds(os[o].users, y) => y = w.user \/ Before(os[o].users, w.user, y)
  <2>1. StartsAt(os, o, unc, w) BY <1>1, AtObjectIs, Zenon
  <2> HIDE DEF w
  <2> QED BY <2>1 DEF StartsAt
<1> HIDE DEF w
<1>3. Landed(os, hd, w)
  BY <1>1, <1>2 DEF Landed, WalkOK
<1>4. ASSUME NEW h \in Handles, hd[h].object # NoObject, Holds(list, hd[h].object)
      PROVE  Ahead(os, cached, uncached, w, h, hd[h].object)
  <2>1. hd[h].object \in LiveIn(os) /\ Holds(os[hd[h].object].users, h)
    BY <1>4 DEF UsersOK
  <2>2. PICK j \in DOMAIN list : list[j] = hd[h].object
    BY <1>4 DEF Holds
  <2>3. os[list[j]].users # <<>>
    <3>1. os[list[j]].users \in Seq(Handles \cup {Gone})
      BY <2>1, <2>2, ObjectFields DEF LiveIn
    <3> QED BY <3>1, <2>1, <2>2, EmptyIs
  <2>4. CASE j = n
    BY <2>1, <2>2, <2>4, <1>2 DEF Ahead, o
  <2>5. CASE n < j
    <3>1. Before(cached, list[n], list[j]) \/ Before(uncached, list[n], list[j])
      BY <2>5 DEF InOrder
    <3> QED BY <3>1, <2>2, <1>2 DEF Ahead, o
  <2> QED BY <2>3, <2>4, <2>5
<1> QED BY <1>2, <1>3, <1>4 DEF w, o

(* Wherever the loops of a catch-up go on, every user on the way is ahead. *)
LEMMA LoopsSound ==
    ASSUME NEW os \in Shape, NEW hd, NEW w0, UsersOK(os, hd, w0),
           ListsOK(os, cached_objects, uncached_objects),
           NEW list \in Seq(LiveIn(os)), InOrder(list, cached_objects, uncached_objects),
           NEW unc \in BOOLEAN
    PROVE  LET w == Loops(os, list, unc)
           IN  /\ Landed(os, hd, w)
               /\ \A h \in Handles :
                     /\ hd[h].object # NoObject
                     /\ Holds(list, hd[h].object) \/ (~unc /\ Holds(uncached_objects, hd[h].object))
                     => Ahead(os, cached_objects, uncached_objects, w, h, hd[h].object)
<1> DEFINE w == Loops(os, list, unc)
           a == Along(os, list, unc)
           b == Along(os, uncached_objects, TRUE)
<1>1. w = IF a = NoWalk /\ ~unc THEN b ELSE a
  BY DEF Loops
<1>2. \/ a = NoWalk /\ \A p : Holds(list, p) => os[p].users = <<>>
      \/ \E n \in DOMAIN list :
            /\ a = AtObject(os, list[n], unc) /\ os[list[n]].users # <<>>
            /\ \A j \in DOMAIN list : os[list[j]].users # <<>> => j = n \/ n < j
  BY AlongIs
<1>3. uncached_objects \in Seq(LiveIn(os))
  BY DEF ListsOK
<1>4. \/ b = NoWalk /\ \A p : Holds(uncached_objects, p) => os[p].users = <<>>
      \/ \E n \in DOMAIN uncached_objects :
            /\ b = AtObject(os, uncached_objects[n], TRUE) /\ os[uncached_objects[n]].users # <<>>
            /\ \A j \in DOMAIN uncached_objects :
                  os[uncached_objects[j]].users # <<>> => j = n \/ n < j
  BY <1>3, AlongIs
<1> HIDE DEF w, a, b
<1>5. \A h \in Handles : hd[h].object # NoObject => os[hd[h].object].users # <<>>
  <2> SUFFICES ASSUME NEW h \in Handles, hd[h].object # NoObject
               PROVE  os[hd[h].object].users # <<>>
    OBVIOUS
  <2>1. hd[h].object \in LiveIn(os) /\ Holds(os[hd[h].object].users, h)
    BY DEF UsersOK
  <2>2. os[hd[h].object].users \in Seq(Handles \cup {Gone})
    BY <2>1, ObjectFields DEF LiveIn
  <2> QED BY <2>1, <2>2, EmptyIs
<1>6. InOrder(uncached_objects, cached_objects, uncached_objects)
  BY DEF InOrder, Before
<1>7. Landed(os, hd, NoWalk)
  BY NoWalkType DEF Landed, WalkOK, NoWalk
<1>8. CASE a # NoWalk
  <2>1. PICK n \in DOMAIN list :
            /\ a = AtObject(os, list[n], unc) /\ os[list[n]].users # <<>>
            /\ \A j \in DOMAIN list : os[list[j]].users # <<>> => j = n \/ n < j
    BY <1>2, <1>8
  <2>2. /\ Landed(os, hd, a) /\ a.uncached = unc /\ a.kind = "notify"
        /\ \A h \in Handles : hd[h].object # NoObject /\ Holds(list, hd[h].object) =>
              Ahead(os, cached_objects, uncached_objects, a, h, hd[h].object)
    BY <2>1, LandsAt
  <2>3. w = a BY <1>1, <1>8
  <2>4. ASSUME NEW h \in Handles, ~unc, Holds(uncached_objects, hd[h].object)
        PROVE  Ahead(os, cached_objects, uncached_objects, a, h, hd[h].object)
    BY <2>2, <2>4 DEF Ahead
  <2> QED BY <2>2, <2>3, <2>4 DEF w
<1>9. CASE a = NoWalk
  <2>1. \A p : Holds(list, p) => os[p].users = <<>>
    <3>1. ASSUME NEW n \in DOMAIN list, a = AtObject(os, list[n], unc), os[list[n]].users # <<>>
          PROVE  FALSE
      <4> DEFINE q == list[n]
      <4>1. q \in LiveIn(os) BY ElementOfSeq, LenProperties
      <4>2. os[q].users # <<>> /\ AtObject(os, q, unc) = NoWalk BY <3>1, <1>9
      <4> HIDE DEF q
      <4>3. StartsAt(os, q, unc, AtObject(os, q, unc)) BY <4>1, <4>2, AtObjectIs, Zenon
      <4> QED BY <4>2, <4>3 DEF StartsAt
    <3> QED BY <1>2, <3>1
  <2>2. \A h \in Handles : hd[h].object # NoObject => ~Holds(list, hd[h].object)
    BY <1>5, <2>1
  <2>3. CASE unc
    <3>1. w = NoWalk BY <1>1, <1>9, <2>3
    <3> QED BY <3>1, <2>2, <2>3, <1>7 DEF w
  <2>4. CASE ~unc
    <3>1. w = b BY <1>1, <1>9, <2>4
    <3>2. CASE b = NoWalk /\ \A p : Holds(uncached_objects, p) => os[p].users = <<>>
      <4>1. \A h \in Handles : hd[h].object # NoObject => ~Holds(uncached_objects, hd[h].object)
        BY <1>5, <3>2
      <4> QED BY <3>1, <3>2, <4>1, <2>2, <1>7 DEF w
    <3>3. ASSUME NEW n \in DOMAIN uncached_objects,
                 b = AtObject(os, uncached_objects[n], TRUE), os[uncached_objects[n]].users # <<>>,
                 \A j \in DOMAIN uncached_objects :
                    os[uncached_objects[j]].users # <<>> => j = n \/ n < j
          PROVE  /\ Landed(os, hd, b)
                 /\ \A h \in Handles : hd[h].object # NoObject /\ Holds(uncached_objects, hd[h].object) =>
                       Ahead(os, cached_objects, uncached_objects, b, h, hd[h].object)
      BY <3>3, <1>3, <1>6, LandsAt
    <3> QED BY <3>1, <3>2, <3>3, <2>2, <1>4 DEF w
  <2> QED BY <2>3, <2>4
<1> QED BY <1>8, <1>9

-----------------------------------------------------------------------------
(* What a step leaves alone.                                               *)

LEMMA LiveObject ==
    ASSUME NEW os, NEW o \in LiveIn(os)
    PROVE  o \in Objects /\ os[o] \in Object /\ o # NoObject
  BY LLCacheAssumption DEF LiveIn

LEMMA UsersFrame ==
    ASSUME NEW os, NEW os2, NEW hd, NEW hd2, NEW w, NEW w2, UsersOK(os, hd, w),
           LiveIn(os2) = LiveIn(os), \A o \in LiveIn(os) : os2[o].users = os[o].users,
           \A h \in Handles : hd2[h].object = hd[h].object,
           w.queued => w2.queued /\ w2.user = w.user /\ w2.object = w.object
    PROVE  UsersOK(os2, hd2, w2)
<1>1. \A o \in LiveIn(os2) : Distinct(os2[o].users)
  BY DEF UsersOK
<1>2. ASSUME NEW h \in Handles, hd2[h].object # NoObject
      PROVE  hd2[h].object \in LiveIn(os2) /\ Holds(os2[hd2[h].object].users, h)
  BY <1>2 DEF UsersOK
<1>3. ASSUME NEW o \in LiveIn(os2), NEW u \in Handles \cup {Gone}, Holds(os2[o].users, u)
      PROVE  \/ u \in Handles /\ hd2[u].object = o
             \/ w2.queued /\ w2.user = u /\ w2.object = o
  BY <1>3 DEF UsersOK
<1> QED BY <1>1, <1>2, <1>3 DEF UsersOK

LEMMA StreamFrame ==
    ASSUME NEW os, NEW os2, NEW cached, NEW hd, NEW hd2, StreamOK(os, cached, hd),
           LiveIn(os2) = LiveIn(os),
           \A o \in LiveIn(os) : os2[o].stream = os[o].stream /\ os2[o].late = os[o].late,
           \A h \in Handles : hd2[h].object = hd[h].object
    PROVE  StreamOK(os2, cached, hd2)
  BY DEF StreamOK

LEMMA CandFrame ==
    ASSUME NEW os, NEW os2, CandOK(os), LiveIn(os2) = LiveIn(os),
           \A o \in LiveIn(os) : /\ os2[o].candidate = os[o].candidate
                                 /\ os2[o].candidate_count = os[o].candidate_count
    PROVE  CandOK(os2)
<1>1. \A c \in Objects : Namers(os2, c) = Namers(os, c)
  BY DEF Namers
<1> QED BY <1>1 DEF CandOK

(* A step that changes one object.                                         *)
Replaces(os, os2, o, R) ==
    /\ os2 \in Shape /\ LiveIn(os2) = LiveIn(os) /\ o \in LiveIn(os) /\ R \in Object
    /\ os2[o] = R /\ \A p \in Objects : p # o => os2[p] = os[p]

LEMMA OneChanged ==
    ASSUME NEW os \in Shape, NEW o \in LiveIn(os), NEW R \in Object
    PROVE  Replaces(os, [os EXCEPT ![o] = R], o, R)
<1> DEFINE os2 == [os EXCEPT ![o] = R]
<1>1. o \in Objects /\ os[o] \in Object
  BY LiveObject
<1>2. os2 \in Shape /\ os2[o] = R /\ \A p \in Objects : p # o => os2[p] = os[p]
  BY <1>1 DEF Shape
<1> HIDE DEF os2
<1>3. LiveIn(os2) = LiveIn(os)
  BY <1>1, <1>2 DEF LiveIn
<1> QED BY <1>2, <1>3 DEF os2, Replaces

(* And neither its users nor what it says of others.                       *)
Scalar(O, R) ==
    /\ R.users = O.users /\ R.late = O.late /\ R.stream = O.stream
    /\ R.candidate = O.candidate /\ R.candidate_count = O.candidate_count
    /\ ObjectOK(R)

LEMMA ScalarFrame ==
    ASSUME NEW os, NEW os2, NEW cached, NEW uncached, NEW hd,
           NEW w, NEW w2, Sound(os, cached, uncached, hd, w),
           NEW o, NEW R, Replaces(os, os2, o, R), Scalar(os[o], R),
           w.queued => w2.queued /\ w2.user = w.user /\ w2.object = w.object
    PROVE  /\ LiveIn(os2) = LiveIn(os)
           /\ ListsOK(os2, cached, uncached) /\ UsersOK(os2, hd, w2)
           /\ StreamOK(os2, cached, hd) /\ CandOK(os2)
           /\ \A p \in LiveIn(os2) : ObjectOK(os2[p])
<1> USE DEF Replaces, Scalar
<1>1. LiveIn(os2) = LiveIn(os)
  OBVIOUS
<1>2. \A p \in LiveIn(os) : /\ os2[p].users = os[p].users
                            /\ os2[p].stream = os[p].stream /\ os2[p].late = os[p].late
                            /\ os2[p].candidate = os[p].candidate
                            /\ os2[p].candidate_count = os[p].candidate_count
  BY LiveObject
<1>3. ListsOK(os2, cached, uncached)
  BY <1>1 DEF ListsOK, Sound
<1>4. UsersOK(os2, hd, w2)
  BY <1>1, <1>2, UsersFrame DEF Sound
<1>5. StreamOK(os2, cached, hd)
  BY <1>1, <1>2, StreamFrame DEF Sound
<1>6. CandOK(os2)
  BY <1>1, <1>2, CandFrame DEF Sound
<1>7. \A p \in LiveIn(os2) : ObjectOK(os2[p])
  BY <1>1, LiveObject DEF Sound
<1> QED BY <1>1, <1>3, <1>4, <1>5, <1>6, <1>7

(* The client of the user a loop is at.                                    *)
LEMMA TargetHeld ==
    ASSUME IInv, Walking, walk.user # NoHandle, ~walk.queued
    PROVE  /\ walk.object \in LiveIn(obj) /\ walk.user \in Handles
           /\ handle[walk.user].object = walk.object
           /\ Holds(obj[walk.object].users, walk.user)
           /\ walk.object \in Objects /\ walk.object # NoObject
<1>1. walk \in WalkType /\ WalkOK(obj, handle, walk) /\ UsersOK(obj, handle, walk)
  BY DEF IInv, Sound
<1>2. walk.object \in LiveIn(obj) /\ Holds(obj[walk.object].users, walk.user)
  BY <1>1 DEF WalkOK, Walking
<1>3. walk.user \in Handles \cup {Gone}
  BY <1>1, WalkFields
<1>4. walk.user \in Handles /\ handle[walk.user].object = walk.object
  BY <1>1, <1>2, <1>3 DEF UsersOK
<1> QED BY <1>2, <1>4, LiveObject

LEMMA AheadFrame ==
    ASSUME NEW os, NEW os2, NEW cached, NEW uncached, NEW w, NEW w2, NEW h, NEW o,
           Ahead(os, cached, uncached, w, h, o),
           os2[w.object].users = os[w.object].users,
           w2.kind = w.kind, w2.object = w.object, w2.user = w.user, w2.uncached = w.uncached
    PROVE  Ahead(os2, cached, uncached, w2, h, o)
  BY DEF Ahead

(* What is due, of the records.                                            *)
LEMMA DueIs ==
    ASSUME NEW h, NEW o, NEW s \in 0..3, handle[h] \in Handle, obj[o] \in Object
    PROVE  /\ DueAt(h, o, s) = "none" <=> NoneDue(handle[h], obj[o], s)
           /\ DueAt(h, o, s) = "headers" => handle[h].state \in {INIT, HEADERS}
           /\ DueAt(h, o, s) = "data" => /\ handle[h].state = DATA
                                         /\ obj[o].source_len > handle[h].bytes
           /\ DueAt(h, o, s) = "done" => /\ handle[h].state = DATA /\ s = COMPLETE
                                         /\ ~(obj[o].source_len > handle[h].bytes)
<1>1. handle[h].state \in 0..3
  BY HandleFields
<1> QED BY <1>1 DEF DueAt, NoneDue, Reached, INIT, HEADERS, DATA, COMPLETE

(* A chunk that is streamed away makes nothing due to another user.        *)
LEMMA NoneDueLess ==
    ASSUME NEW H \in Handle, NEW O \in Object, NEW P \in Object, NEW s \in 0..3,
           NoneDue(H, O, s), P.source_len <= O.source_len
    PROVE  NoneDue(H, P, s)
<1>1. H.state \in 0..3 /\ H.bytes \in Nat /\ O.source_len \in Nat /\ P.source_len \in Nat
  BY HandleFields, ObjectFields
<1> QED BY <1>1 DEF NoneDue

(* An event is sent to the user the catch-up is at.                        *)
Sends(h, os, hd, w) ==
    /\ hd \in [Handles -> Handle] /\ \A k \in Handles : hd[k].object = handle[k].object
    /\ \A k \in Handles : k # h => hd[k] = handle[k]
    /\ w \in WalkType /\ w.kind = walk.kind /\ w.object = walk.object /\ w.user = walk.user
    /\ w.queued = walk.queued /\ w.uncached = walk.uncached /\ w.objstate = walk.objstate
    /\ w.in = TRUE
    /\ os \in Shape /\ LiveIn(os) = LiveIn(obj)
    /\ \A o \in LiveIn(obj) : /\ os[o].users = obj[o].users /\ os[o].state = obj[o].state
                              /\ os[o].source_len <= obj[o].source_len

LEMMA EmitFrame ==
    ASSUME IInv, NEW h \in Handles, Notifying(h), NEW os, NEW hd, NEW w, Sends(h, os, hd, w)
    PROVE  /\ UsersOK(os, hd, w) /\ WalkOK(os, hd, w)
           /\ all_caught_up => CatchOK(os, cached_objects, uncached_objects, hd, w, missed)
<1>1. /\ walk.kind = "notify" /\ walk.user = h /\ walk.in = FALSE /\ Walking
      /\ walk \in WalkType /\ WalkOK(obj, handle, walk) /\ UsersOK(obj, handle, walk)
      /\ obj \in Shape /\ handle \in [Handles -> Handle]
  BY WalkFields DEF Notifying, IInv, Sound
<1> USE DEF Sends
<1>2. walk.queued = FALSE /\ h # NoHandle
  BY <1>1, WalkFields, LLCacheAssumption DEF WalkOK
<1>3. handle[h].object = walk.object /\ walk.object \in LiveIn(obj)
  BY <1>1, <1>2, TargetHeld
<1>4. UsersOK(os, hd, w)
  BY <1>1, <1>2, UsersFrame
<1>5. WalkOK(os, hd, w)
  BY <1>1, <1>2, <1>3 DEF WalkOK
<1>6. ASSUME all_caught_up
      PROVE  CatchOK(os, cached_objects, uncached_objects, hd, w, missed)
  <2>1. CatchOK(obj, cached_objects, uncached_objects, handle, walk, missed)
    BY <1>6 DEF IInv
  <2>2. ASSUME NEW k \in Handles, hd[k].object # NoObject, k \notin missed
        PROVE  \/ NoneDue(hd[k], os[hd[k].object], os[hd[k].object].state)
               \/ Ahead(os, cached_objects, uncached_objects, w, k, hd[k].object)
    <3>1. CASE k = h
      BY <3>1, <1>1, <1>3 DEF Ahead
    <3>2. CASE k # h
      <4> DEFINE o == handle[k].object
      <4>1. hd[k] = handle[k] /\ hd[k].object = o /\ o # NoObject
        BY <3>2, <2>2
      <4>2. o \in LiveIn(obj) /\ o \in LiveIn(os)
        BY <4>1, <1>1 DEF UsersOK
      <4> HIDE DEF o
      <4>3. obj[o] \in Object /\ os[o] \in Object /\ obj[o].state \in 0..3
        BY <4>2, LiveObject, ObjectFields
      <4>4. \/ NoneDue(handle[k], obj[o], obj[o].state)
            \/ Ahead(obj, cached_objects, uncached_objects, walk, k, o)
        BY <2>1, <2>2, <4>1, <1>1 DEF CatchOK, o
      <4>5. CASE NoneDue(handle[k], obj[o], obj[o].state)
        <5>1. handle[k] \in Handle BY <1>1
        <5>2. NoneDue(handle[k], os[o], obj[o].state) BY <4>2, <4>3, <4>5, <5>1, NoneDueLess
        <5> QED BY <5>2, <4>1, <4>2
      <4>6. CASE Ahead(obj, cached_objects, uncached_objects, walk, k, o)
        BY <4>1, <4>6, <1>3, AheadFrame
      <4> QED BY <4>4, <4>5, <4>6
    <3> QED BY <3>1, <3>2
  <2>3. w.objstate = os[w.object].state \/ \A k \in Handles : hd[k].object = w.object => k \in missed
    BY <2>1, <1>1, <1>3 DEF CatchOK
  <2> QED BY <2>2, <2>3 DEF CatchOK
<1> QED BY <1>4, <1>5, <1>6

LEMMA EmitHeadersStep ==
    ASSUME IInv, NEW h \in Handles, EmitHeaders(h)
    PROVE  IInv'
<1>1. /\ Notifying(h) /\ DueAt(h, walk.object, walk.objstate) = "headers"
      /\ handle' = [handle EXCEPT ![h].state = DATA]
      /\ walk' = [walk EXCEPT !.in = TRUE, !.event = "headers"]
      /\ obj' = obj /\ cached_objects' = cached_objects /\ uncached_objects' = uncached_objects
      /\ all_caught_up' = all_caught_up /\ missed' = missed /\ turns' = turns
  BY DEF EmitHeaders, Due, lists
<1>2. /\ Sound(obj, cached_objects, uncached_objects, handle, walk)
      /\ walk.kind = "notify" /\ walk.user = h /\ walk.in = FALSE /\ Walking
  BY <1>1, WalkFields DEF Notifying, IInv, Sound
<1>3. /\ obj \in Shape /\ handle \in [Handles -> Handle] /\ walk \in WalkType
      /\ WalkOK(obj, handle, walk) /\ FlowsOK(obj, handle, walk)
  BY <1>2 DEF Sound
<1>4. walk.queued = FALSE /\ h # NoHandle
  BY <1>2, <1>3, WalkFields, LLCacheAssumption DEF WalkOK
<1>5. handle[h].object = walk.object /\ walk.object \in LiveIn(obj) /\ obj[walk.object] \in Object
  BY <1>2, <1>4, TargetHeld, LiveObject
<1>6. handle[h].state # COMPLETE
  <2>1. walk.objstate \in 0..3 BY <1>3, WalkFields
  <2> QED BY <1>1, <1>3, <1>5, <2>1, DueIs DEF INIT, HEADERS, COMPLETE
<1>7. /\ handle' \in [Handles -> Handle] /\ \A k \in Handles : handle'[k].object = handle[k].object
      /\ \A k \in Handles : k # h => handle'[k] = handle[k]
      /\ handle'[h].state = DATA /\ handle'[h].bytes = handle[h].bytes /\ handle'[h].got = handle[h].got
  BY <1>1, <1>3 DEF Handle, INIT, DATA, COMPLETE
<1>8. /\ walk' \in WalkType /\ walk'.kind = walk.kind /\ walk'.object = walk.object
      /\ walk'.user = walk.user /\ walk'.queued = walk.queued /\ walk'.uncached = walk.uncached
      /\ walk'.objstate = walk.objstate /\ walk'.in = TRUE /\ walk'.event = "headers"
  BY <1>1, <1>3 DEF WalkType
<1>9. \A o \in LiveIn(obj) : obj[o].source_len \in Nat
  BY ObjectFields DEF LiveIn
<1>10. /\ UsersOK(obj', handle', walk') /\ WalkOK(obj', handle', walk')
       /\ all_caught_up => CatchOK(obj', cached_objects', uncached_objects', handle', walk', missed')
  <2>1. Sends(h, obj, handle', walk')
    BY <1>3, <1>7, <1>8, <1>9 DEF Sends
  <2>2. /\ UsersOK(obj, handle', walk') /\ WalkOK(obj, handle', walk')
        /\ all_caught_up => CatchOK(obj, cached_objects, uncached_objects, handle', walk', missed)
    BY <1>1, <2>1, EmitFrame
  <2> QED BY <1>1, <2>2
<1>11. StreamOK(obj', cached_objects', handle')
  BY <1>1, <1>2, <1>7, StreamFrame DEF Sound
<1>12. FlowsOK(obj', handle', walk')
  <2>1. ASSUME NEW k \in Handles, handle'[k].object # NoObject
        PROVE  FlowOK(handle'[k], obj[handle'[k].object])
    <3>1. FlowOK(handle[k], obj[handle[k].object])
      BY <1>3, <1>7, <2>1 DEF FlowsOK
    <3>2. CASE k # h BY <3>1, <3>2, <1>7
    <3>3. CASE k = h
      BY <3>1, <3>3, <1>6, <1>7 DEF FlowOK, Balanced, DATA, COMPLETE
    <3> QED BY <3>2, <3>3
  <2> QED BY <2>1, <1>1, <1>2, <1>8 DEF FlowsOK
<1> QED BY <1>1, <1>2, <1>7, <1>8, <1>10, <1>11, <1>12 DEF IInv, Sound


LEMMA EmitDoneStep ==
    ASSUME IInv, NEW h \in Handles, EmitDone(h)
    PROVE  IInv'
<1>1. /\ Notifying(h) /\ DueAt(h, walk.object, walk.objstate) = "done"
      /\ handle' = [handle EXCEPT ![h].state = COMPLETE]
      /\ walk' = [walk EXCEPT !.in = TRUE, !.event = "done"]
      /\ obj' = obj /\ cached_objects' = cached_objects /\ uncached_objects' = uncached_objects
      /\ all_caught_up' = all_caught_up /\ missed' = missed /\ turns' = turns
  BY DEF EmitDone, Due, lists
<1>2. /\ Sound(obj, cached_objects, uncached_objects, handle, walk)
      /\ walk.kind = "notify" /\ walk.user = h /\ walk.in = FALSE /\ Walking
  BY <1>1, WalkFields DEF Notifying, IInv, Sound
<1>3. /\ obj \in Shape /\ handle \in [Handles -> Handle] /\ walk \in WalkType
      /\ WalkOK(obj, handle, walk) /\ FlowsOK(obj, handle, walk)
  BY <1>2 DEF Sound
<1>4. walk.queued = FALSE /\ h # NoHandle
  BY <1>2, <1>3, WalkFields, LLCacheAssumption DEF WalkOK
<1> DEFINE o == walk.object
           O == obj[o]
<1>5. handle[h].object = o /\ o \in LiveIn(obj) /\ O \in Object /\ o # NoObject
  BY <1>2, <1>4, TargetHeld, LiveObject
<1>6. /\ handle[h].state = DATA /\ walk.objstate = COMPLETE /\ ~(O.source_len > handle[h].bytes)
      /\ O.state = COMPLETE
  <2>1. walk.objstate \in 0..3 BY <1>3, WalkFields
  <2>2. handle[h].state = DATA /\ walk.objstate = COMPLETE /\ ~(O.source_len > handle[h].bytes)
    BY <1>1, <1>3, <1>5, <2>1, DueIs
  <2> QED BY <2>2, <1>2, <1>3 DEF WalkOK
<1>7. /\ handle' \in [Handles -> Handle] /\ \A k \in Handles : handle'[k].object = handle[k].object
      /\ \A k \in Handles : k # h => handle'[k] = handle[k]
      /\ handle'[h].state = COMPLETE /\ handle'[h].bytes = handle[h].bytes
      /\ handle'[h].got = handle[h].got
  BY <1>1, <1>3 DEF Handle, INIT, COMPLETE
<1>8. /\ walk' \in WalkType /\ walk'.kind = walk.kind /\ walk'.object = walk.object
      /\ walk'.user = walk.user /\ walk'.queued = walk.queued /\ walk'.uncached = walk.uncached
      /\ walk'.objstate = walk.objstate /\ walk'.in = TRUE /\ walk'.event = "done"
  BY <1>1, <1>3 DEF WalkType
<1>9. \A p \in LiveIn(obj) : obj[p].source_len \in Nat
  BY ObjectFields DEF LiveIn
<1>10. /\ UsersOK(obj', handle', walk') /\ WalkOK(obj', handle', walk')
       /\ all_caught_up => CatchOK(obj', cached_objects', uncached_objects', handle', walk', missed')
  <2>1. Sends(h, obj, handle', walk')
    BY <1>3, <1>7, <1>8, <1>9 DEF Sends
  <2>2. /\ UsersOK(obj, handle', walk') /\ WalkOK(obj, handle', walk')
        /\ all_caught_up => CatchOK(obj, cached_objects, uncached_objects, handle', walk', missed)
    BY <1>1, <2>1, EmitFrame
  <2> QED BY <1>1, <2>2
<1>11. StreamOK(obj', cached_objects', handle')
  BY <1>1, <1>2, <1>7, StreamFrame DEF Sound
<1>12. FlowsOK(obj', handle', walk')
  <2>1. Balanced(handle[h], O)
    BY <1>3, <1>5, <1>6 DEF FlowsOK, FlowOK, DATA, COMPLETE
  <2>2. O.late \/ handle[h].got = O.total
    <3>1. handle[h].got \in Nat /\ handle[h].bytes \in Nat /\ O.source_len \in Nat /\ O.total \in Nat
      BY <1>3, <1>5, ObjectFields, HandleFields
    <3> QED BY <2>1, <3>1, <1>6 DEF Balanced
  <2> HIDE DEF O
  <2>3. Balanced(handle'[h], O)
    BY <2>1, <1>7 DEF Balanced
  <2>4. ASSUME NEW k \in Handles, handle'[k].object # NoObject
        PROVE  FlowOK(handle'[k], obj[handle'[k].object])
    <3>1. CASE k # h BY <1>3, <1>7, <2>4, <3>1 DEF FlowsOK
    <3>2. CASE k = h
      BY <3>2, <2>2, <1>5, <1>6, <1>7 DEF FlowOK, O
    <3> QED BY <3>1, <3>2
  <2> QED BY <2>3, <2>4, <1>1, <1>2, <1>8 DEF FlowsOK, O
<1> QED BY <1>1, <1>2, <1>7, <1>8, <1>10, <1>11, <1>12 DEF IInv, Sound

LEMMA EmitEventStep ==
    ASSUME IInv, NEW h \in Handles, EmitEvent(h)
    PROVE  IInv'
<1>1. /\ Walking /\ walk.in = FALSE /\ walk.kind # "notify" /\ walk.user = h
      /\ walk' = [walk EXCEPT !.in = TRUE]
      /\ obj' = obj /\ cached_objects' = cached_objects /\ uncached_objects' = uncached_objects
      /\ handle' = handle
      /\ all_caught_up' = all_caught_up /\ missed' = missed /\ turns' = turns
  BY WalkFields DEF EmitEvent, lists, IInv, Sound
<1>2. /\ Sound(obj, cached_objects, uncached_objects, handle, walk)
      /\ walk \in WalkType /\ walk.kind # "none"
  BY <1>1 DEF Sound, IInv, Walking
<1>3. /\ walk' \in WalkType /\ walk'.kind = walk.kind /\ walk'.object = walk.object
      /\ walk'.user = walk.user /\ walk'.queued = walk.queued /\ walk'.to = walk.to
      /\ walk'.objstate = walk.objstate /\ walk'.in = TRUE /\ walk'.event = walk.event
  BY <1>1, <1>2 DEF WalkType
<1>4. h # NoHandle BY LLCacheAssumption
<1>5. walk.event = "none" /\ walk.queued = FALSE
  BY <1>1, <1>2, WalkFields DEF Sound, WalkOK
<1>6. WalkOK(obj, handle, walk')
  BY <1>1, <1>2, <1>3, <1>4, <1>5 DEF Sound, WalkOK
<1>7. UsersOK(obj, handle, walk')
  BY <1>2, <1>3 DEF Sound, UsersOK
<1>8. FlowsOK(obj, handle, walk')
  BY <1>2, <1>3, <1>5 DEF Sound, FlowsOK
<1>9. CatchOK(obj, cached_objects, uncached_objects, handle, walk', missed)
  BY <1>1, <1>2, <1>3 DEF CatchOK
<1> QED BY <1>1, <1>2, <1>3, <1>6, <1>7, <1>8, <1>9 DEF IInv, Sound


(* What is left after a chunk is given to a client, and to it or to others *)
(* still to be given.                                                      *)
LEMMA ChunkGiven ==
    ASSUME NEW H \in Handle, NEW O \in Object, ObjectOK(O), Balanced(H, O), O.source_len > H.bytes
    PROVE  /\ H.got + (O.source_len - H.bytes) \in 0..MaxLen
           /\ \A G \in Handle, P \in Object :
                /\ G.got = H.got + (O.source_len - H.bytes)
                /\ G.bytes = IF O.stream THEN 0 ELSE O.source_len
                /\ P.source_len = IF O.stream THEN 0 ELSE O.source_len
                /\ P.total = O.total /\ P.fetch = O.fetch /\ P.late = O.late
                => Balanced(G, P)
<1>1. /\ H.got \in Nat /\ H.bytes \in Nat /\ O.source_len \in Nat /\ O.total \in 0..MaxLen
      /\ O.fetch \in BOOLEAN /\ O.late \in BOOLEAN /\ MaxLen \in Nat /\ O.stream \in BOOLEAN
  BY ObjectFields, HandleFields, LLCacheAssumption
<1>2. H.got + (O.source_len - H.bytes) \in 0..MaxLen
  BY <1>1 DEF Balanced
<1> QED BY <1>1, <1>2 DEF Balanced, ObjectOK

LEMMA EmitDataStep ==
    ASSUME IInv, NEW h \in Handles, EmitData(h)
    PROVE  IInv'
<1> DEFINE o == walk.object
           O == obj[o]
           R == [O EXCEPT !.source_len = IF O.stream THEN 0 ELSE @]
           more == O.source_len - handle[h].bytes
<1>1. /\ Notifying(h) /\ DueAt(h, walk.object, walk.objstate) = "data"
      /\ handle' = [handle EXCEPT ![h].bytes = IF O.stream THEN 0 ELSE O.source_len,
                                  ![h].got = @ + more]
      /\ walk' = [walk EXCEPT !.in = TRUE, !.event = "data",
                              !.orig = IF O.stream THEN 0 ELSE handle[h].bytes]
      /\ obj' = [obj EXCEPT ![o] = R]
      /\ cached_objects' = cached_objects /\ uncached_objects' = uncached_objects
      /\ all_caught_up' = all_caught_up /\ missed' = missed /\ turns' = turns
  BY DEF EmitData, Due, lists
<1>2. /\ Sound(obj, cached_objects, uncached_objects, handle, walk)
      /\ walk.kind = "notify" /\ walk.user = h /\ walk.in = FALSE /\ Walking
  BY <1>1, WalkFields DEF Notifying, IInv, Sound
<1>3. /\ obj \in Shape /\ handle \in [Handles -> Handle] /\ walk \in WalkType
      /\ WalkOK(obj, handle, walk) /\ FlowsOK(obj, handle, walk)
      /\ StreamOK(obj, cached_objects, handle)
  BY <1>2 DEF Sound
<1>4. walk.queued = FALSE /\ h # NoHandle
  BY <1>2, <1>3, WalkFields, LLCacheAssumption DEF WalkOK
<1>5. /\ handle[h].object = o /\ o \in LiveIn(obj) /\ O \in Object /\ o # NoObject /\ o \in Objects
      /\ ObjectOK(O)
  BY <1>2, <1>4, TargetHeld, LiveObject DEF Sound
<1>6. handle[h].state = DATA /\ O.source_len > handle[h].bytes
  <2>1. walk.objstate \in 0..3 BY <1>3, WalkFields
  <2> QED BY <1>1, <1>3, <1>5, <2>1, DueIs
<1>7. Balanced(handle[h], O)
  BY <1>3, <1>5, <1>6 DEF FlowsOK, FlowOK, DATA, COMPLETE
<1>8. /\ O.source_len \in 0..MaxLen /\ 0 \in 0..MaxLen /\ O.stream \in BOOLEAN
      /\ handle[h].bytes \in 0..MaxLen /\ O.total \in Nat /\ handle[h] \in Handle
  BY <1>3, <1>5, ObjectFields, HandleFields, LLCacheAssumption
<1>9. handle[h].got + more \in 0..MaxLen
  BY <1>5, <1>6, <1>7, <1>8, ChunkGiven
<1> HIDE DEF more
<1>10. /\ handle' \in [Handles -> Handle] /\ \A k \in Handles : handle'[k].object = handle[k].object
       /\ \A k \in Handles : k # h => handle'[k] = handle[k]
       /\ handle'[h].state = DATA /\ handle'[h].got = handle[h].got + more
       /\ handle'[h].bytes = IF O.stream THEN 0 ELSE O.source_len
  <2> HIDE DEF O
  <2> DEFINE b == IF O.stream THEN 0 ELSE O.source_len
             g == handle[h].got + more
  <2>1. b \in 0..MaxLen /\ g \in 0..MaxLen
    BY <1>8, <1>9
  <2>2. handle' = [handle EXCEPT ![h].bytes = b, ![h].got = g]
    BY <1>1
  <2> HIDE DEF b, g
  <2>3. /\ handle' \in [Handles -> Handle] /\ \A k \in Handles : handle'[k].object = handle[k].object
        /\ \A k \in Handles : k # h => handle'[k] = handle[k]
        /\ handle'[h].state = handle[h].state /\ handle'[h].got = g /\ handle'[h].bytes = b
    BY <2>1, <2>2, <1>3 DEF Handle
  <2> QED BY <2>3, <1>6 DEF b, g
<1>11. /\ walk' \in WalkType /\ walk'.kind = walk.kind /\ walk'.object = walk.object
       /\ walk'.user = walk.user /\ walk'.queued = walk.queued /\ walk'.uncached = walk.uncached
       /\ walk'.objstate = walk.objstate /\ walk'.in = TRUE /\ walk'.event = "data"
       /\ walk'.orig = IF O.stream THEN 0 ELSE handle[h].bytes
  <2> HIDE DEF O
  <2> DEFINE b == IF O.stream THEN 0 ELSE handle[h].bytes
  <2>1. b \in 0..MaxLen /\ walk' = [walk EXCEPT !.in = TRUE, !.event = "data", !.orig = b]
    BY <1>1, <1>8
  <2> HIDE DEF b
  <2>2. /\ walk' \in WalkType /\ walk'.kind = walk.kind /\ walk'.object = walk.object
        /\ walk'.user = walk.user /\ walk'.queued = walk.queued /\ walk'.uncached = walk.uncached
        /\ walk'.objstate = walk.objstate /\ walk'.in = TRUE /\ walk'.event = "data"
        /\ walk'.orig = b
    BY <2>1, <1>3 DEF WalkType
  <2> QED BY <2>2 DEF b
<1>12. /\ R \in Object /\ R.source_len = IF O.stream THEN 0 ELSE O.source_len
       /\ R.users = O.users /\ R.state = O.state /\ R.total = O.total /\ R.fetch = O.fetch
       /\ R.stream = O.stream /\ R.late = O.late /\ R.candidate = O.candidate
       /\ R.candidate_count = O.candidate_count
  BY <1>5, <1>8 DEF Object
<1>13. R.source_len <= O.source_len /\ ObjectOK(R)
  BY <1>5, <1>8, <1>12 DEF ObjectOK
<1> HIDE DEF R
<1>14. /\ obj' \in Shape /\ LiveIn(obj') = LiveIn(obj) /\ Replaces(obj, obj', o, R)
       /\ obj'[o] = R /\ \A p \in Objects : p # o => obj'[p] = obj[p]
  <2> HIDE DEF o
  <2>1. Replaces(obj, obj', o, R)
    BY <1>1, <1>3, <1>5, <1>12, OneChanged
  <2> QED BY <2>1 DEF Replaces
<1>15. \A p \in LiveIn(obj) : /\ obj'[p].users = obj[p].users /\ obj'[p].state = obj[p].state
                              /\ obj'[p].source_len <= obj[p].source_len
  <2>1. \A p \in LiveIn(obj) : obj[p].source_len \in Nat
    BY ObjectFields DEF LiveIn
  <2> QED BY <2>1, <1>12, <1>13, <1>14, LiveObject
<1>16. /\ WalkOK(obj', handle', walk')
       /\ all_caught_up => CatchOK(obj', cached_objects', uncached_objects', handle', walk', missed')
  <2>1. Sends(h, obj', handle', walk')
    BY <1>10, <1>11, <1>14, <1>15 DEF Sends
  <2>2. /\ WalkOK(obj', handle', walk')
        /\ all_caught_up => CatchOK(obj', cached_objects, uncached_objects, handle', walk', missed)
    BY <1>1, <2>1, EmitFrame
  <2> QED BY <1>1, <2>2
<1>17. /\ ListsOK(obj', cached_objects', uncached_objects') /\ UsersOK(obj', handle', walk')
       /\ StreamOK(obj', cached_objects', handle') /\ CandOK(obj')
       /\ \A p \in LiveIn(obj') : ObjectOK(obj'[p])
  <2>1. /\ ListsOK(obj', cached_objects, uncached_objects) /\ UsersOK(obj', handle, walk')
        /\ StreamOK(obj', cached_objects, handle) /\ CandOK(obj')
        /\ \A p \in LiveIn(obj') : ObjectOK(obj'[p])
    <3>1. Scalar(obj[o], R)
      BY <1>12, <1>13 DEF Scalar
    <3> QED BY <3>1, <1>2, <1>4, <1>14, ScalarFrame
  <2>2. UsersOK(obj', handle', walk') /\ StreamOK(obj', cached_objects, handle')
    BY <2>1, <1>10, UsersFrame, StreamFrame
  <2> QED BY <2>1, <2>2, <1>1
<1>18. FlowsOK(obj', handle', walk')
  <2>1. ASSUME NEW k \in Handles, handle'[k].object # NoObject
        PROVE  FlowOK(handle'[k], obj'[handle'[k].object])
    <3>1. handle'[k].object = handle[k].object /\ FlowOK(handle[k], obj[handle[k].object])
      BY <1>3, <1>10, <2>1 DEF FlowsOK
    <3>2. CASE k = h
      <4>1. Balanced(handle'[h], R)
        <5> HIDE DEF O
        <5> QED BY <1>5, <1>6, <1>7, <1>8, <1>10, <1>12, ChunkGiven DEF more
      <4> QED BY <4>1, <3>1, <3>2, <1>5, <1>10, <1>14 DEF FlowOK, DATA, COMPLETE
    <3>3. CASE k # h /\ handle[k].object # o
      <4>1. handle[k].object \in Objects
        BY <1>3, <2>1, <3>1, HandleFields
      <4> QED BY <4>1, <3>1, <3>3, <1>10, <1>14
    <3>4. CASE k # h /\ handle[k].object = o
      <4>1. ~O.stream \/ O.late
        BY <3>4, <1>3, <1>5 DEF StreamOK
      <4>2. FlowOK(handle[k], O) BY <3>1, <3>4
      <4>3. /\ handle[k].got \in Nat /\ handle[k].bytes \in Nat /\ MaxLen \in Nat
            /\ O.late \in BOOLEAN /\ O.fetch \in BOOLEAN
        BY <1>3, <1>5, HandleFields, ObjectFields, LLCacheAssumption
      <4> HIDE DEF O
      <4>4. FlowOK(handle[k], R)
        BY <4>1, <4>2, <4>3, <1>8, <1>12 DEF FlowOK, Balanced
      <4> QED BY <4>4, <3>1, <3>4, <1>10, <1>14
    <3> QED BY <3>2, <3>3, <3>4
  <2>2. obj'[walk'.object].source_len > walk'.orig => obj'[walk'.object].source_len = obj'[walk'.object].total
    BY <1>5, <1>8, <1>11, <1>12, <1>14 DEF ObjectOK
  <2> QED BY <2>1, <2>2, <1>2, <1>11 DEF FlowsOK
<1> QED BY <1>1, <1>10, <1>11, <1>14, <1>16, <1>17, <1>18 DEF IInv, Sound

-----------------------------------------------------------------------------
(* The walk moves on.                                                      *)

LEMMA UnqueuedUsers ==
    ASSUME NEW os, NEW hd, NEW w, NEW w2, UsersOK(os, hd, w), ~w.queued
    PROVE  UsersOK(os, hd, w2)
  BY DEF UsersOK

(* The objects and the handles with which it does.                         *)
Settled(os, hd) ==
    /\ os \in Shape /\ LiveIn(os) = LiveIn(obj)
    /\ \A o \in LiveIn(obj) : os[o].state = obj[o].state /\ os[o].source_len = obj[o].source_len
    /\ hd \in [Handles -> Handle] /\ \A h \in Handles : hd[h].object = handle[h].object
    /\ UsersOK(os, hd, NoWalk)

(* The users that are still to come, when u is the next.                   *)
ToCome(os, u, h, o) ==
    \/ o = walk.object /\ u # NoHandle /\ (h = u \/ Before(os[o].users, u, h))
    \/ Before(cached_objects, walk.object, o)
    \/ Before(uncached_objects, walk.object, o)
    \/ ~walk.uncached /\ Holds(uncached_objects, o)

Goes(os, hd, u, w) ==
    /\ w \in WalkType /\ WalkOK(os, hd, w)
    /\ w.event = "none" /\ w.queued = FALSE /\ w.in = FALSE
    /\ walk.kind # "notify" => w.kind = walk.kind /\ w.object = walk.object /\ w.user = u
    /\ w.kind = "notify" => w.objstate = os[w.object].state
    /\ walk.kind = "notify" =>
         /\ w.kind \in {"none", "notify"}
         /\ \A h \in Handles : hd[h].object # NoObject /\ ToCome(os, u, h, hd[h].object) =>
               Ahead(os, cached_objects, uncached_objects, w, h, hd[h].object)

LEMMA OnwardIs ==
    ASSUME IInv, Walking, NEW os, NEW hd, Settled(os, hd),
           NEW u \in Handles \cup {Gone, NoHandle},
           u # NoHandle => Holds(os[walk.object].users, u)
    PROVE  Goes(os, hd, u, Onward(os, u))
<1> DEFINE w == Onward(os, u)
<1>1. /\ walk \in WalkType /\ WalkOK(obj, handle, walk) /\ obj \in Shape
      /\ ListsOK(obj, cached_objects, uncached_objects)
      /\ walk.kind \in {"notify", "redirect", "error"} /\ walk.uncached \in BOOLEAN
  BY WalkFields DEF IInv, Sound, Walking
<1>2. walk.object \in LiveIn(obj) /\ obj[walk.object] \in Object /\ obj[walk.object].state \in 0..3
  BY <1>1, LiveObject, ObjectFields DEF WalkOK
<1>3. ListsOK(os, cached_objects, uncached_objects) /\ os \in Shape /\ UsersOK(os, hd, NoWalk)
  BY <1>1 DEF ListsOK, Settled
<1>4. CASE u = NoHandle /\ walk.kind = "notify"
  <2> DEFINE list == After(walk.object)
             L == Loops(os, list, walk.uncached)
  <2>1. /\ list \in Seq(LiveIn(os)) /\ InOrder(list, cached_objects, uncached_objects)
        /\ \A p : Before(cached_objects, walk.object, p) \/ Before(uncached_objects, walk.object, p) =>
              Holds(list, p)
    BY <1>1, <1>2, AfterIs DEF Settled
  <2> HIDE DEF list
  <2>2. /\ Landed(os, hd, L)
        /\ \A h \in Handles :
              /\ hd[h].object # NoObject
              /\ Holds(list, hd[h].object) \/ (~walk.uncached /\ Holds(uncached_objects, hd[h].object))
              => Ahead(os, cached_objects, uncached_objects, L, h, hd[h].object)
    BY <2>1, <1>1, <1>3, LoopsSound
  <2>3. w = L
    BY <1>4 DEF Onward, list
  <2> HIDE DEF L, w
  <2>4. ASSUME NEW h \in Handles, hd[h].object # NoObject, ToCome(os, u, h, hd[h].object)
        PROVE  Ahead(os, cached_objects, uncached_objects, w, h, hd[h].object)
    BY <2>1, <2>2, <2>3, <2>4, <1>4 DEF ToCome
  <2> QED BY <2>2, <2>3, <2>4, <1>4 DEF Goes, Landed, w
<1>5. CASE ~(u = NoHandle /\ walk.kind = "notify")
  <2> DEFINE s == IF walk.kind = "notify" THEN obj[walk.object].state ELSE INIT
  <2>1. w = [walk EXCEPT !.user = u, !.in = FALSE, !.event = "none", !.queued = FALSE,
                         !.orig = 0, !.objstate = s]
    BY <1>5 DEF Onward
  <2>2. s \in 0..3 /\ 0 \in 0..MaxLen
    BY <1>2, LLCacheAssumption DEF INIT
  <2> HIDE DEF s, w
  <2>3. /\ w \in WalkType /\ w.event = "none" /\ w.queued = FALSE /\ w.in = FALSE
        /\ w.kind = walk.kind /\ w.object = walk.object /\ w.user = u /\ w.objstate = s
        /\ w.uncached = walk.uncached /\ w.to = walk.to
    BY <2>1, <2>2, <1>1 DEF WalkType, INIT, COMPLETE
  <2>4. walk.kind = "notify" => s = os[walk.object].state /\ u # NoHandle
    BY <1>2, <1>5 DEF s, Settled
  <2>5. WalkOK(os, hd, w)
    BY <2>3, <2>4, <1>1, <1>2 DEF WalkOK, Settled
  <2>6. ASSUME walk.kind = "notify", NEW h \in Handles, ToCome(os, u, h, hd[h].object)
        PROVE  Ahead(os, cached_objects, uncached_objects, w, h, hd[h].object)
    BY <2>3, <2>6 DEF ToCome, Ahead
  <2> QED BY <2>3, <2>4, <2>5, <2>6 DEF Goes, w
<1> QED BY <1>4, <1>5

(* A catch-up that has served the user it was at, or left users out, keeps *)
(* its promise to the others.                                              *)
Served(os, hd, u, m) ==
    /\ missed \subseteq m
    /\ \A h \in Handles : hd[h].object # NoObject /\ h \notin m /\ h # walk.user => hd[h] = handle[h]
    /\ \A h \in Handles : h = walk.user /\ h \notin m /\ hd[h].object # NoObject =>
          NoneDue(hd[h], os[hd[h].object], os[hd[h].object].state)
    /\ \A h \in Handles :
          hd[h].object = walk.object /\ h \notin m /\ Before(obj[walk.object].users, walk.user, h) =>
             u # NoHandle /\ (h = u \/ Before(os[walk.object].users, u, h))

LEMMA OnwardCatch ==
    ASSUME IInv, Walking, all_caught_up, walk.kind = "notify", NEW os, NEW hd, Settled(os, hd),
           NEW u, NEW m, Served(os, hd, u, m), NEW w, Goes(os, hd, u, w)
    PROVE  CatchOK(os, cached_objects, uncached_objects, hd, w, m)
<1>1. /\ CatchOK(obj, cached_objects, uncached_objects, handle, walk, missed)
      /\ UsersOK(obj, handle, walk)
  BY DEF IInv, Sound
<1>2. ASSUME NEW h \in Handles, hd[h].object # NoObject, h \notin m
      PROVE  \/ NoneDue(hd[h], os[hd[h].object], os[hd[h].object].state)
             \/ Ahead(os, cached_objects, uncached_objects, w, h, hd[h].object)
  <2> DEFINE o == hd[h].object
  <2>1. CASE h = walk.user
    BY <1>2, <2>1 DEF Served
  <2>2. CASE h # walk.user
    <3>1. hd[h] = handle[h] /\ handle[h].object = o /\ o # NoObject /\ h \notin missed
      BY <1>2, <2>2 DEF Served
    <3>2. o \in LiveIn(obj)
      BY <3>1, <1>1 DEF UsersOK
    <3> HIDE DEF o
    <3>3. \/ NoneDue(handle[h], obj[o], obj[o].state)
          \/ Ahead(obj, cached_objects, uncached_objects, walk, h, o)
      BY <3>1, <1>1 DEF CatchOK
    <3>4. CASE NoneDue(handle[h], obj[o], obj[o].state)
      <4>1. os[o].state = obj[o].state /\ os[o].source_len = obj[o].source_len
        BY <3>2 DEF Settled
      <4>2. NoneDue(handle[h], os[o], os[o].state)
        BY <3>4, <4>1 DEF NoneDue
      <4> QED BY <4>2, <3>1 DEF o
    <3>5. CASE Ahead(obj, cached_objects, uncached_objects, walk, h, o)
      <4>1. ToCome(os, u, h, o)
        BY <3>1, <3>5, <2>2, <1>2 DEF Ahead, ToCome, Served
      <4> QED BY <4>1, <1>2 DEF Goes, o
    <3> QED BY <3>3, <3>4, <3>5
  <2> QED BY <2>1, <2>2
<1> QED BY <1>2 DEF CatchOK, Goes

(* The next user, as the loops over users find it.                         *)
Follows(u) ==
    LET s == obj[walk.object].users
    IN  /\ u \in Handles \cup {Gone, NoHandle}
        /\ u = NoHandle => \A y : ~Before(s, walk.user, y)
        /\ u # NoHandle => /\ Holds(s, u) /\ u # walk.user
                           /\ \A y : Before(s, walk.user, y) => y = u \/ Before(s, u, y)

LEMMA NextUser ==
    ASSUME IInv, Walking
    PROVE  Follows(UserAfter(walk.object, walk.user))
<1> DEFINE o == walk.object
           s == obj[o].users
           u == UserAfter(o, walk.user)
<1>1. o \in LiveIn(obj) /\ obj[o] \in Object
  BY LiveObject DEF IInv, Sound, WalkOK, Walking
<1>2. s \in Seq(Handles \cup {Gone}) /\ Distinct(s)
  BY <1>1, ObjectFields DEF IInv, Sound, UsersOK
<1>3. /\ u = NoHandle => \A y : ~Before(s, walk.user, y)
      /\ u # NoHandle => /\ Holds(s, u) /\ u # walk.user
                         /\ \A y : Before(s, walk.user, y) => y = u \/ Before(s, u, y)
  BY <1>2, UserAfterIs
<1> HIDE DEF u
<1>4. u \in Handles \cup {Gone, NoHandle}
  <2>1. CASE u = NoHandle BY <2>1
  <2>2. CASE u # NoHandle
    <3>1. PICK i \in DOMAIN s : s[i] = u BY <2>2, <1>3 DEF Holds
    <3> QED BY <3>1, <1>2, ElementOfSeq, LenProperties
  <2> QED BY <2>1, <2>2
<1> QED BY <1>3, <1>4 DEF Follows, u

(* Walks between callbacks, of which no event is under way.                *)
LEMMA QuietFlows ==
    ASSUME NEW os, NEW hd, NEW w2, w2.event = "none",
           \A h \in Handles : hd[h].object # NoObject => FlowOK(hd[h], os[hd[h].object]),
           w2.kind = "redirect" =>
              \A h \in Handles : hd[h].object = w2.object => hd[h].state # COMPLETE
    PROVE  FlowsOK(os, hd, w2)
  BY DEF FlowsOK

LEMMA NothingDueStep ==
    ASSUME IInv, NEW h \in Handles, NothingDue(h)
    PROVE  IInv'
<1> DEFINE o == walk.object
           u == UserAfter(o, walk.user)
<1>1. /\ Notifying(h) /\ DueAt(h, o, walk.objstate) = "none"
      /\ handle' = [handle EXCEPT ![h].state = Reached(h, walk.objstate)]
      /\ walk' = Onward(obj, u)
      /\ obj' = obj /\ cached_objects' = cached_objects /\ uncached_objects' = uncached_objects
      /\ all_caught_up' = all_caught_up /\ missed' = missed /\ turns' = turns
  BY DEF NothingDue, Due, lists, Notifying
<1>2. /\ Sound(obj, cached_objects, uncached_objects, handle, walk)
      /\ walk.kind = "notify" /\ walk.user = h /\ walk.in = FALSE /\ Walking
  BY <1>1, WalkFields DEF Notifying, IInv, Sound
<1>3. /\ obj \in Shape /\ handle \in [Handles -> Handle] /\ walk \in WalkType
      /\ WalkOK(obj, handle, walk) /\ FlowsOK(obj, handle, walk) /\ UsersOK(obj, handle, walk)
  BY <1>2 DEF Sound
<1>4. walk.queued = FALSE /\ h # NoHandle
  BY <1>2, <1>3, WalkFields, LLCacheAssumption DEF WalkOK
<1>5. /\ handle[h].object = o /\ o \in LiveIn(obj) /\ obj[o] \in Object /\ handle[h] \in Handle
      /\ walk.objstate \in 0..3 /\ o # NoObject
  BY <1>2, <1>3, <1>4, TargetHeld, LiveObject, WalkFields
<1>6. NoneDue(handle[h], obj[o], walk.objstate)
  BY <1>1, <1>5, DueIs
<1> DEFINE s == Reached(h, walk.objstate)
<1>7. s \in 0..3 /\ (s = handle[h].state \/ (s = HEADERS /\ handle[h].state = INIT))
      /\ (handle[h].state = INIT /\ walk.objstate > INIT => s = HEADERS)
  BY <1>5, HandleFields DEF Reached, HEADERS, INIT
<1> HIDE DEF s
<1>8. /\ handle' \in [Handles -> Handle] /\ \A k \in Handles : handle'[k].object = handle[k].object
      /\ \A k \in Handles : k # h => handle'[k] = handle[k]
      /\ handle'[h].state = s /\ handle'[h].bytes = handle[h].bytes /\ handle'[h].got = handle[h].got
  BY <1>1, <1>3, <1>7 DEF Handle, INIT, COMPLETE, s
<1>9. Settled(obj, handle')
  <2>1. UsersOK(obj, handle', NoWalk)
    BY <1>3, <1>4, <1>8, UsersFrame
  <2> QED BY <2>1, <1>3, <1>8 DEF Settled
<1>10. Follows(u)
  BY <1>2, NextUser
<1> HIDE DEF u
<1>11. Goes(obj, handle', u, walk')
  BY <1>1, <1>2, <1>9, <1>10, OnwardIs DEF Follows
<1>12. ASSUME all_caught_up
       PROVE  CatchOK(obj, cached_objects, uncached_objects, handle', walk', missed)
  <2>1. ASSUME h \notin missed PROVE NoneDue(handle'[h], obj[o], obj[o].state)
    <3>1. walk.objstate = obj[o].state
      BY <1>2, <1>5, <1>12, <2>1 DEF IInv, CatchOK
    <3> QED BY <3>1, <1>5, <1>6, <1>7, <1>8 DEF NoneDue, INIT, HEADERS, DATA
  <2>2. Served(obj, handle', u, missed)
    BY <2>1, <1>2, <1>5, <1>8, <1>10 DEF Served, Follows
  <2> QED BY <2>2, <1>2, <1>9, <1>11, <1>12, OnwardCatch
<1>13. UsersOK(obj, handle', walk') /\ StreamOK(obj, cached_objects, handle')
  BY <1>2, <1>8, <1>9, UnqueuedUsers, StreamFrame DEF Settled, Sound, NoWalk
<1>14. FlowsOK(obj, handle', walk')
  <2>1. ASSUME NEW k \in Handles, handle'[k].object # NoObject
        PROVE  FlowOK(handle'[k], obj[handle'[k].object])
    <3>1. FlowOK(handle[k], obj[handle[k].object])
      BY <1>3, <1>8, <2>1 DEF FlowsOK
    <3>2. CASE k # h BY <3>1, <3>2, <1>8
    <3>3. CASE k = h
      BY <3>1, <3>3, <1>7, <1>8 DEF FlowOK, Balanced, HEADERS, INIT, COMPLETE
    <3> QED BY <3>2, <3>3
  <2> QED BY <2>1, <1>2, <1>11, QuietFlows DEF Goes
<1> QED BY <1>1, <1>2, <1>8, <1>11, <1>12, <1>13, <1>14 DEF IInv, Sound, Goes

LEMMA ReturnOkStep ==
    ASSUME IInv, ReturnOk
    PROVE  IInv'
<1> DEFINE o == walk.object
           u == UserAfter(o, walk.user)
<1>1. /\ Walking /\ walk.in = TRUE /\ walk.queued = FALSE
      /\ handle' = handle
      /\ obj' = obj /\ cached_objects' = cached_objects /\ uncached_objects' = uncached_objects
      /\ all_caught_up' = all_caught_up /\ missed' = missed /\ turns' = turns
  BY WalkFields DEF ReturnOk, lists, InCallback, IInv, Sound
<1>2. /\ Sound(obj, cached_objects, uncached_objects, handle, walk)
      /\ obj \in Shape /\ handle \in [Handles -> Handle] /\ walk \in WalkType
      /\ WalkOK(obj, handle, walk) /\ FlowsOK(obj, handle, walk) /\ UsersOK(obj, handle, walk)
  BY DEF Sound, IInv
<1>3. CASE walk.kind = "notify"
  <2>1. walk' = [walk EXCEPT !.in = FALSE, !.event = "none", !.orig = 0]
    BY <1>3 DEF ReturnOk
  <2>2. 0 \in 0..MaxLen BY LLCacheAssumption
  <2>3. /\ walk' \in WalkType /\ walk'.kind = walk.kind /\ walk'.object = o
        /\ walk'.user = walk.user /\ walk'.queued = FALSE /\ walk'.uncached = walk.uncached
        /\ walk'.objstate = walk.objstate /\ walk'.in = FALSE /\ walk'.event = "none"
        /\ walk'.to = walk.to
    BY <2>1, <2>2, <1>1, <1>2 DEF WalkType
  <2>4. WalkOK(obj, handle, walk')
    BY <2>3, <1>1, <1>2, <1>3 DEF WalkOK
  <2>5. UsersOK(obj, handle, walk')
    BY <1>1, <1>2, UnqueuedUsers
  <2>6. FlowsOK(obj, handle, walk')
    BY <2>3, <1>2, <1>3 DEF FlowsOK
  <2>7. ASSUME all_caught_up
        PROVE  CatchOK(obj, cached_objects, uncached_objects, handle, walk', missed)
    <3>1. CatchOK(obj, cached_objects, uncached_objects, handle, walk, missed)
      BY <2>7 DEF IInv
    <3> QED BY <3>1, <2>3, <1>3 DEF CatchOK, Ahead
  <2> QED BY <2>3, <2>4, <2>5, <2>6, <2>7, <1>1, <1>2 DEF IInv, Sound
<1>4. CASE walk.kind # "notify"
  <2>1. walk' = Onward(obj, u)
    BY <1>4 DEF ReturnOk
  <2>2. Settled(obj, handle)
    BY <1>1, <1>2, UnqueuedUsers DEF Settled
  <2>3. Follows(u)
    BY <1>1, NextUser
  <2> HIDE DEF u
  <2>4. Goes(obj, handle, u, walk')
    BY <2>1, <2>2, <2>3, <1>1, OnwardIs DEF Follows
  <2>5. UsersOK(obj, handle, walk')
    BY <1>1, <1>2, UnqueuedUsers
  <2>6. FlowsOK(obj, handle, walk')
    BY <2>4, <1>2, <1>4 DEF FlowsOK, Goes
  <2>7. CatchOK(obj, cached_objects, uncached_objects, handle, walk', missed)
    BY <2>4, <1>1, <1>4 DEF CatchOK, Goes, Walking
  <2> QED BY <2>4, <2>5, <2>6, <2>7, <1>1, <1>2 DEF IInv, Sound, Goes
<1> QED BY <1>3, <1>4

(* Users are linked or unlinked; the object is otherwise the same.         *)
Relinked(O, R) ==
    /\ R.state = O.state /\ R.source_len = O.source_len /\ R.total = O.total
    /\ R.fetch = O.fetch /\ R.stream = O.stream /\ R.late = O.late
    /\ R.candidate = O.candidate /\ R.candidate_count = O.candidate_count

RelinkedSound(os2, cached, uncached, hd) ==
    /\ ListsOK(os2, cached, uncached) /\ StreamOK(os2, cached, hd) /\ CandOK(os2)
    /\ \A p \in LiveIn(os2) : ObjectOK(os2[p])
    /\ \A h \in Handles : hd[h].object # NoObject => FlowOK(hd[h], os2[hd[h].object])

LEMMA RelinkFrame ==
    ASSUME NEW os, NEW os2, NEW cached, NEW uncached, NEW hd, NEW w,
           Sound(os, cached, uncached, hd, w),
           NEW o, NEW R, Replaces(os, os2, o, R), Relinked(os[o], R)
    PROVE  RelinkedSound(os2, cached, uncached, hd)
<1>1. LiveIn(os2) = LiveIn(os) /\ o \in LiveIn(os) /\ o \in Objects
  BY LiveObject DEF Replaces
<1>2. \A p \in LiveIn(os) : Relinked(os[p], os2[p])
  <2> SUFFICES ASSUME NEW p \in LiveIn(os) PROVE Relinked(os[p], os2[p])
    OBVIOUS
  <2>1. CASE p = o BY <2>1 DEF Replaces
  <2>2. CASE p # o
    <3>1. os2[p] = os[p] BY <2>2, LiveObject DEF Replaces
    <3> QED BY <3>1 DEF Relinked
  <2> QED BY <2>1, <2>2
<1>3. ListsOK(os2, cached, uncached)
  BY <1>1 DEF ListsOK, Sound
<1>4. StreamOK(os2, cached, hd)
  BY <1>1, <1>2, StreamFrame DEF Sound, Relinked
<1>5. CandOK(os2)
  BY <1>1, <1>2, CandFrame DEF Sound, Relinked
<1>6. \A p \in LiveIn(os2) : ObjectOK(os2[p])
  BY <1>1, <1>2 DEF Sound, Relinked, ObjectOK
<1>7. ASSUME NEW h \in Handles, hd[h].object # NoObject
      PROVE  FlowOK(hd[h], os2[hd[h].object])
  <2> DEFINE p == hd[h].object
  <2>1. p \in LiveIn(os) /\ FlowOK(hd[h], os[p])
    BY <1>7 DEF Sound, UsersOK, FlowsOK
  <2> HIDE DEF p
  <2>2. FlowOK(hd[h], os2[p])
    BY <2>1, <1>2 DEF FlowOK, Balanced, Relinked
  <2> QED BY <2>2 DEF p
<1> QED BY <1>3, <1>4, <1>5, <1>6, <1>7 DEF RelinkedSound

(* llcache_object_remove_user.                                             *)
Unlinks(o, x, R) ==
    LET s == obj[o].users
    IN  /\ R \in Object /\ Relinked(obj[o], R) /\ Distinct(R.users)
        /\ \A y : Holds(R.users, y) <=> Holds(s, y) /\ y # x
        /\ \A y, z : Before(s, y, z) /\ y # x /\ z # x => Before(R.users, y, z)

LEMMA UnlinkIs ==
    ASSUME Sound(obj, cached_objects, uncached_objects, handle, walk), NEW o \in LiveIn(obj), NEW x
    PROVE  LET R == [obj[o] EXCEPT !.users = Without(@, x)]
               os == [obj EXCEPT ![o].users = Without(@, x)]
           IN  Unlinks(o, x, R) /\ Replaces(obj, os, o, R)
<1> DEFINE O == obj[o]
           t == Without(O.users, x)
           R == [O EXCEPT !.users = t]
<1>1. O \in Object /\ obj \in Shape
  BY LiveObject DEF Sound
<1>2. O.users \in Seq(Handles \cup {Gone}) /\ Distinct(O.users)
  BY <1>1, ObjectFields DEF Sound, UsersOK
<1>3. /\ t \in Seq(Handles \cup {Gone}) /\ Distinct(t)
      /\ \A y : Holds(t, y) <=> Holds(O.users, y) /\ y # x
      /\ \A y, z : Before(O.users, y, z) /\ y # x /\ z # x => Before(t, y, z)
  BY <1>2, WithoutElements
<1> HIDE DEF t
<1>4. R \in Object /\ R.users = t /\ Relinked(O, R)
  <2> HIDE DEF O
  <2> QED BY <1>1, <1>3 DEF Object, Relinked
<1>5. Unlinks(o, x, R)
  BY <1>3, <1>4 DEF Unlinks
<1>6. Replaces(obj, [obj EXCEPT ![o] = R], o, R)
  <2> HIDE DEF R
  <2> QED BY <1>1, <1>4, OneChanged
<1> QED BY <1>5, <1>6 DEF t

(* A user that was queued for deletion is deleted.                         *)
LEMMA QueuedUnlinked ==
    ASSUME IInv, Walking, walk.queued, NEW os, NEW R, Unlinks(walk.object, walk.user, R),
           Replaces(obj, os, walk.object, R)
    PROVE  Settled(os, handle) /\ RelinkedSound(os, cached_objects, uncached_objects, handle)
<1> DEFINE o == walk.object
           x == walk.user
<1>1. /\ Sound(obj, cached_objects, uncached_objects, handle, walk)
      /\ handle \in [Handles -> Handle] /\ WalkOK(obj, handle, walk) /\ UsersOK(obj, handle, walk)
  BY DEF IInv, Sound
<1>2. RelinkedSound(os, cached_objects, uncached_objects, handle)
  BY <1>1, RelinkFrame DEF Unlinks
<1>3. \A h \in Handles : x = h => handle[h].object = NoObject
  BY <1>1 DEF WalkOK
<1>4. LiveIn(os) = LiveIn(obj) /\ os \in Shape /\ o \in LiveIn(obj)
  BY DEF Replaces
<1>5. \A p \in LiveIn(obj) : /\ p # o => os[p] = obj[p]
                             /\ os[p].state = obj[p].state /\ os[p].source_len = obj[p].source_len
                             /\ Distinct(os[p].users)
                             /\ \A y : Holds(os[p].users, y) <=> Holds(obj[p].users, y) /\ ~(p = o /\ y = x)
  <2> SUFFICES ASSUME NEW p \in LiveIn(obj)
               PROVE  /\ p # o => os[p] = obj[p]
                      /\ os[p].state = obj[p].state /\ os[p].source_len = obj[p].source_len
                      /\ Distinct(os[p].users)
                      /\ \A y : Holds(os[p].users, y) <=> Holds(obj[p].users, y) /\ ~(p = o /\ y = x)
    OBVIOUS
  <2>1. CASE p = o BY <2>1 DEF Replaces, Unlinks, Relinked
  <2>2. CASE p # o
    <3>1. os[p] = obj[p] BY <2>2, LiveObject DEF Replaces
    <3> QED BY <3>1, <2>2, <1>1 DEF UsersOK
  <2> QED BY <2>1, <2>2
<1>6. UsersOK(os, handle, NoWalk)
  <2>1. \A p \in LiveIn(os) : Distinct(os[p].users)
    BY <1>4, <1>5
  <2>2. ASSUME NEW h \in Handles, handle[h].object # NoObject
        PROVE  handle[h].object \in LiveIn(os) /\ Holds(os[handle[h].object].users, h)
    <3> DEFINE p == handle[h].object
    <3>1. p \in LiveIn(obj) /\ Holds(obj[p].users, h) BY <2>2, <1>1 DEF UsersOK
    <3>2. h # x BY <2>2, <1>3
    <3> HIDE DEF p
    <3>3. p \in LiveIn(os) /\ Holds(os[p].users, h) BY <3>1, <3>2, <1>4, <1>5
    <3> QED BY <3>3 DEF p
  <2>3. ASSUME NEW p \in LiveIn(os), NEW y \in Handles \cup {Gone}, Holds(os[p].users, y)
        PROVE  y \in Handles /\ handle[y].object = p
    <3>1. p \in LiveIn(obj) BY <1>4
    <3>2. Holds(obj[p].users, y) /\ ~(p = o /\ y = x) BY <2>3, <3>1, <1>5
    <3> QED BY <3>1, <3>2, <1>1 DEF UsersOK
  <2> QED BY <2>1, <2>2, <2>3 DEF UsersOK
<1> QED BY <1>1, <1>2, <1>4, <1>5, <1>6 DEF Settled

LEMMA ReturnQueuedStep ==
    ASSUME IInv, ReturnQueued
    PROVE  IInv'
<1> DEFINE o == walk.object
           x == walk.user
           u == UserAfter(o, x)
           R == [obj[o] EXCEPT !.users = Without(@, x)]
<1>1. /\ Walking /\ walk.in = TRUE /\ walk.queued = TRUE
      /\ obj' = [obj EXCEPT ![o].users = Without(@, x)]
      /\ walk' = Onward(obj', u)
      /\ handle' = handle
      /\ cached_objects' = cached_objects /\ uncached_objects' = uncached_objects
      /\ all_caught_up' = all_caught_up /\ missed' = missed /\ turns' = turns
  BY WalkFields DEF ReturnQueued, lists, InCallback, IInv, Sound
<1>2. /\ Sound(obj, cached_objects, uncached_objects, handle, walk)
      /\ WalkOK(obj, handle, walk) /\ FlowsOK(obj, handle, walk) /\ handle \in [Handles -> Handle]
  BY DEF Sound, IInv
<1>3. o \in LiveIn(obj)
  BY <1>1, <1>2 DEF WalkOK, Walking
<1>4. Unlinks(o, x, R) /\ Replaces(obj, obj', o, R)
  BY <1>1, <1>2, <1>3, UnlinkIs
<1> HIDE DEF R
<1>5. Settled(obj', handle) /\ RelinkedSound(obj', cached_objects, uncached_objects, handle)
  BY <1>1, <1>4, QueuedUnlinked
<1>6. Follows(u)
  BY <1>1, NextUser
<1> HIDE DEF u
<1>7. u # NoHandle => Holds(obj'[o].users, u)
  BY <1>4, <1>6 DEF Follows, Unlinks, Replaces
<1>8. Goes(obj', handle, u, walk')
  BY <1>1, <1>5, <1>6, <1>7, OnwardIs DEF Follows
<1>9. ASSUME all_caught_up
      PROVE  CatchOK(obj', cached_objects, uncached_objects, handle, walk', missed)
  <2>1. CASE walk.kind # "notify"
    BY <2>1, <1>1, <1>8 DEF CatchOK, Goes, Walking
  <2>2. CASE walk.kind = "notify"
    <3>1. \A h \in Handles : x = h => handle[h].object = NoObject
      BY <1>1, <1>2 DEF WalkOK
    <3>2. ASSUME NEW h \in Handles, handle[h].object = o, Before(obj[o].users, x, h)
          PROVE  u # NoHandle /\ (h = u \/ Before(obj'[o].users, u, h))
      <4>1. h # x /\ u # NoHandle /\ u # x /\ (h = u \/ Before(obj[o].users, u, h))
        BY <3>1, <3>2, <1>3, <1>6, LiveObject DEF Follows
      <4> QED BY <4>1, <1>4 DEF Unlinks, Replaces
    <3>3. Served(obj', handle, u, missed)
      BY <3>1, <3>2 DEF Served
    <3> QED BY <3>3, <2>2, <1>1, <1>5, <1>8, <1>9, OnwardCatch
  <2> QED BY <2>1, <2>2
<1>10. UsersOK(obj', handle, walk')
  BY <1>5, UnqueuedUsers DEF Settled, NoWalk
<1>11. FlowsOK(obj', handle, walk')
  <2>1. walk'.kind = "redirect" => \A h \in Handles : handle[h].object = walk'.object => handle[h].state # COMPLETE
    BY <1>2, <1>8 DEF FlowsOK, Goes
  <2> QED BY <2>1, <1>5, <1>8, QuietFlows DEF Goes, RelinkedSound
<1> QED BY <1>1, <1>2, <1>5, <1>8, <1>9, <1>10, <1>11
        DEF IInv, Sound, Goes, RelinkedSound, Settled


(* NSERROR_NEED_DATA puts the client back to where it can be given the     *)
(* rest: what it has taken and what the object has make up the body.       *)
LEMMA Replayed ==
    ASSUME NEW H \in Handle, NEW O \in Object, O.source_len = O.total,
           H.bytes <= O.source_len, H.got = H.bytes
    PROVE  Balanced(H, O)
<1>1. /\ H.got \in Nat /\ H.bytes \in Nat /\ O.source_len \in Nat /\ O.total \in 0..MaxLen
      /\ O.fetch \in BOOLEAN /\ MaxLen \in Nat
  BY ObjectFields, HandleFields, LLCacheAssumption
<1> QED BY <1>1 DEF Balanced

LEMMA ReturnNeedDataStep ==
    ASSUME IInv, ReturnNeedData
    PROVE  IInv'
<1> DEFINE o == walk.object
           O == obj[o]
           h == walk.user
           u == UserAfter(o, h)
<1>1. /\ Walking /\ walk.in = TRUE /\ walk.queued = FALSE /\ walk.event \in {"data", "done"}
      /\ walk.event = "data" => O.source_len > walk.orig
      /\ handle' = [handle EXCEPT ![h].state = DATA,
                                  ![h].bytes = IF walk.event = "data" THEN walk.orig ELSE @,
                                  ![h].got = IF walk.event = "data" THEN walk.orig ELSE @]
      /\ walk' = Onward(obj, u)
      /\ all_caught_up' = FALSE
      /\ obj' = obj /\ cached_objects' = cached_objects /\ uncached_objects' = uncached_objects
      /\ missed' = missed /\ turns' = turns
  BY WalkFields DEF ReturnNeedData, lists, InCallback, IInv, Sound
<1>2. /\ Sound(obj, cached_objects, uncached_objects, handle, walk)
      /\ obj \in Shape /\ handle \in [Handles -> Handle] /\ walk \in WalkType
      /\ WalkOK(obj, handle, walk) /\ FlowsOK(obj, handle, walk) /\ UsersOK(obj, handle, walk)
  BY DEF Sound, IInv
<1>3. walk.kind = "notify" /\ h # NoHandle
  BY <1>1, <1>2 DEF WalkOK
<1>4. /\ handle[h].object = o /\ o \in LiveIn(obj) /\ O \in Object /\ h \in Handles
      /\ o # NoObject /\ handle[h] \in Handle
  BY <1>1, <1>2, <1>3, TargetHeld, LiveObject
<1>5. walk.orig \in 0..MaxLen /\ handle[h].bytes \in 0..MaxLen /\ handle[h].got \in 0..MaxLen
  BY <1>2, <1>4, WalkFields, HandleFields
<1> DEFINE b == IF walk.event = "data" THEN walk.orig ELSE handle[h].bytes
           g == IF walk.event = "data" THEN walk.orig ELSE handle[h].got
<1>6. handle' = [handle EXCEPT ![h].state = DATA, ![h].bytes = b, ![h].got = g]
  BY <1>1
<1>7. b \in 0..MaxLen /\ g \in 0..MaxLen
  BY <1>5
<1> HIDE DEF b, g, h
<1>8. /\ handle' \in [Handles -> Handle] /\ \A k \in Handles : handle'[k].object = handle[k].object
      /\ \A k \in Handles : k # h => handle'[k] = handle[k]
      /\ handle'[h].state = DATA /\ handle'[h].bytes = b /\ handle'[h].got = g
  <2> DEFINE G == [handle[h] EXCEPT !.state = DATA, !.bytes = b, !.got = g]
  <2>1. handle' = [handle EXCEPT ![h] = G]
    BY <1>6
  <2>2. /\ G \in Handle /\ G.state = DATA /\ G.bytes = b /\ G.got = g
        /\ G.object = handle[h].object
    <3> DEFINE H == handle[h]
    <3>1. H \in Handle /\ DATA \in INIT..COMPLETE BY <1>4 DEF INIT, DATA, COMPLETE
    <3> HIDE DEF H
    <3>2. [H EXCEPT !.state = DATA, !.bytes = b, !.got = g] \in Handle
      BY <3>1, <1>7 DEF Handle
    <3> QED BY <3>1, <3>2 DEF H, Handle
  <2> HIDE DEF G
  <2> QED BY <2>1, <2>2, <1>2, <1>4
<1>9. Balanced(handle'[h], O)
  <2>1. CASE walk.event = "data"
    <3>1. O.source_len = O.total
      BY <1>1, <1>2, <2>1 DEF FlowsOK
    <3>2. handle'[h].bytes = walk.orig /\ handle'[h].got = walk.orig /\ handle'[h] \in Handle
      BY <1>4, <1>8, <2>1 DEF b, g
    <3>3. O.source_len \in Nat BY <1>4, ObjectFields
    <3>4. handle'[h].bytes <= O.source_len
      BY <3>2, <3>3, <1>1, <1>5, <2>1
    <3> HIDE DEF O
    <3> QED BY <3>1, <3>2, <3>4, <1>4, Replayed
  <2>2. CASE walk.event # "data"
    <3>1. Balanced(handle[h], O)
      BY <1>1, <1>2, <2>2 DEF FlowsOK, h
    <3> HIDE DEF O
    <3> QED BY <3>1, <1>8, <2>2 DEF Balanced, b, g
  <2> QED BY <2>1, <2>2
<1>10. Settled(obj, handle')
  <2>1. UsersOK(obj, handle', NoWalk)
    BY <1>1, <1>2, <1>8, UsersFrame
  <2> QED BY <2>1, <1>2, <1>8 DEF Settled
<1>11. Follows(u)
  BY <1>1, NextUser DEF h
<1> HIDE DEF u
<1>12. Goes(obj, handle', u, walk')
  BY <1>1, <1>10, <1>11, OnwardIs DEF Follows
<1>13. UsersOK(obj, handle', walk') /\ StreamOK(obj, cached_objects, handle')
  BY <1>2, <1>8, <1>10, UnqueuedUsers, StreamFrame DEF Settled, Sound, NoWalk
<1>14. FlowsOK(obj, handle', walk')
  <2>1. ASSUME NEW k \in Handles, handle'[k].object # NoObject
        PROVE  FlowOK(handle'[k], obj[handle'[k].object])
    <3>1. CASE k # h BY <1>2, <1>8, <2>1, <3>1 DEF FlowsOK
    <3>2. CASE k = h
      BY <3>2, <1>4, <1>8, <1>9 DEF FlowOK, DATA, COMPLETE
    <3> QED BY <3>1, <3>2
  <2> QED BY <2>1, <1>3, <1>12, QuietFlows DEF Goes
<1> QED BY <1>1, <1>2, <1>8, <1>12, <1>13, <1>14 DEF IInv, Sound, Goes

LEMMA ReturnErrorStep ==
    ASSUME IInv, ReturnError
    PROVE  IInv'
<1> DEFINE o == walk.object
           x == walk.user
           R == [obj[o] EXCEPT !.users = Without(@, x)]
<1>1. /\ Walking /\ walk.in = TRUE /\ walk.kind = "notify"
      /\ obj' = IF walk.queued THEN [obj EXCEPT ![o].users = Without(@, x)] ELSE obj
      /\ missed' = missed \cup {h \in Held : handle[h].object = o}
      /\ walk' = Onward(obj', NoHandle)
      /\ handle' = handle
      /\ cached_objects' = cached_objects /\ uncached_objects' = uncached_objects
      /\ all_caught_up' = all_caught_up /\ turns' = turns
  BY WalkFields DEF ReturnError, lists, InCallback, IInv, Sound
<1>2. /\ Sound(obj, cached_objects, uncached_objects, handle, walk)
      /\ obj \in Shape /\ handle \in [Handles -> Handle] /\ walk \in WalkType
      /\ WalkOK(obj, handle, walk) /\ FlowsOK(obj, handle, walk) /\ UsersOK(obj, handle, walk)
  BY DEF Sound, IInv
<1>3. o \in LiveIn(obj) /\ o # NoObject /\ x # NoHandle
  BY <1>1, <1>2, LiveObject DEF WalkOK, Walking
<1>4. Settled(obj', handle) /\ RelinkedSound(obj', cached_objects, uncached_objects, handle)
  <2>1. CASE walk.queued
    <3>1. Unlinks(o, x, R) /\ Replaces(obj, obj', o, R)
      BY <1>1, <1>2, <1>3, <2>1, UnlinkIs
    <3> HIDE DEF R
    <3> QED BY <3>1, <1>1, <2>1, QueuedUnlinked
  <2>2. CASE ~walk.queued
    <3>1. obj' = obj BY <1>1, <2>2
    <3>2. Settled(obj, handle)
      BY <1>2, <2>2, UnqueuedUsers DEF Settled
    <3>3. RelinkedSound(obj, cached_objects, uncached_objects, handle)
      BY <1>2 DEF Sound, RelinkedSound, FlowsOK
    <3> QED BY <3>1, <3>2, <3>3
  <2> QED BY <2>1, <2>2
<1>5. Goes(obj', handle, NoHandle, walk')
  BY <1>1, <1>4, OnwardIs
<1>6. ASSUME all_caught_up
      PROVE  CatchOK(obj', cached_objects, uncached_objects, handle, walk', missed')
  <2>1. \A h \in Handles : handle[h].object = o => h \in missed'
    BY <1>1, <1>3 DEF Held
  <2>2. \A h \in Handles : h = x /\ handle[h].object # NoObject => h \in missed'
    <3>1. CASE walk.queued BY <3>1, <1>2 DEF WalkOK
    <3>2. CASE ~walk.queued BY <3>2, <2>1, <1>1, <1>3, TargetHeld
    <3> QED BY <3>1, <3>2
  <2>3. Served(obj', handle, NoHandle, missed')
    BY <2>1, <2>2, <1>1 DEF Served
  <2> QED BY <2>3, <1>1, <1>4, <1>5, <1>6, OnwardCatch
<1>7. UsersOK(obj', handle, walk')
  BY <1>4, UnqueuedUsers DEF Settled, NoWalk
<1>8. FlowsOK(obj', handle, walk')
  BY <1>1, <1>4, <1>5, QuietFlows DEF Goes, RelinkedSound
<1>9. missed' \in SUBSET Handles
  BY <1>1 DEF IInv, Held
<1> QED BY <1>1, <1>2, <1>4, <1>5, <1>6, <1>7, <1>8, <1>9
        DEF IInv, Sound, Goes, RelinkedSound, Settled

LEMMA CatchUpStep ==
    ASSUME IInv, CatchUp
    PROVE  IInv'
<1>1. /\ walk.kind = "none" /\ walk' = Loops(obj, cached_objects, FALSE) /\ missed' = {}
      /\ obj' = obj /\ handle' = handle /\ turns' = turns /\ all_caught_up' = TRUE
      /\ cached_objects' = cached_objects /\ uncached_objects' = uncached_objects
  BY DEF CatchUp, Walking, lists
<1>2. /\ Sound(obj, cached_objects, uncached_objects, handle, walk)
      /\ obj \in Shape /\ handle \in [Handles -> Handle]
      /\ FlowsOK(obj, handle, walk) /\ UsersOK(obj, handle, walk) /\ walk = NoWalk
      /\ ListsOK(obj, cached_objects, uncached_objects)
  BY <1>1 DEF Sound, IInv, WalkOK
<1>3. cached_objects \in Seq(LiveIn(obj)) /\ InOrder(cached_objects, cached_objects, uncached_objects)
  BY <1>2 DEF ListsOK, InOrder, Before
<1> DEFINE w == Loops(obj, cached_objects, FALSE)
<1>4. /\ Landed(obj, handle, w)
      /\ \A h \in Handles :
            /\ handle[h].object # NoObject
            /\ Holds(cached_objects, handle[h].object) \/ (~FALSE /\ Holds(uncached_objects, handle[h].object))
            => Ahead(obj, cached_objects, uncached_objects, w, h, handle[h].object)
  BY <1>2, <1>3, LoopsSound
<1> HIDE DEF w
<1>5. ASSUME NEW h \in Handles, handle[h].object # NoObject
      PROVE  Ahead(obj, cached_objects, uncached_objects, w, h, handle[h].object)
  BY <1>2, <1>4, <1>5 DEF UsersOK, ListsOK
<1>6. CatchOK(obj, cached_objects, uncached_objects, handle, w, {})
  BY <1>4, <1>5 DEF CatchOK, Landed
<1>7. UsersOK(obj, handle, w)
  BY <1>2, UnqueuedUsers DEF NoWalk
<1>8. FlowsOK(obj, handle, w)
  BY <1>2, <1>4 DEF FlowsOK, Landed
<1> QED BY <1>1, <1>2, <1>4, <1>6, <1>7, <1>8 DEF IInv, Sound, Landed, w

-----------------------------------------------------------------------------
(* Steps that change one object, and neither its users nor its body.       *)

Changes(O, R) ==
    /\ Scalar(O, R) /\ R.source_len = O.source_len /\ R.total = O.total
    /\ R.fetch => O.fetch
    /\ O.state = COMPLETE => R.state = COMPLETE

LEMMA FlowChanges ==
    ASSUME NEW H \in Handle, NEW O \in Object, NEW R \in Object, Changes(O, R)
    PROVE  /\ FlowOK(H, O) => FlowOK(H, R)
           /\ Balanced(H, O) => Balanced(H, R)
<1>1. /\ H.got \in Nat /\ H.bytes \in Nat /\ O.source_len \in Nat /\ O.total \in 0..MaxLen
      /\ O.fetch \in BOOLEAN /\ R.fetch \in BOOLEAN /\ MaxLen \in Nat
  BY ObjectFields, HandleFields, LLCacheAssumption
<1>2. Balanced(H, O) => Balanced(H, R)
  BY <1>1 DEF Balanced, Changes, Scalar
<1> QED BY <1>2 DEF FlowOK, Changes, Scalar

LEMMA ScalarStep ==
    ASSUME NEW os, NEW os2, NEW cached, NEW uncached, NEW hd, NEW w,
           Sound(os, cached, uncached, hd, w),
           NEW o, NEW R, Replaces(os, os2, o, R), Changes(os[o], R),
           w.kind # "none" => R.state = os[o].state \/ R.state = COMPLETE
    PROVE  Sound(os2, cached, uncached, hd, w)
<1>1. /\ os2 \in Shape /\ LiveIn(os2) = LiveIn(os) /\ o \in LiveIn(os) /\ R \in Object
      /\ hd \in [Handles -> Handle] /\ w \in WalkType
  BY DEF Replaces, Sound
<1>2. /\ LiveIn(os2) = LiveIn(os)
      /\ ListsOK(os2, cached, uncached) /\ UsersOK(os2, hd, w)
      /\ StreamOK(os2, cached, hd) /\ CandOK(os2)
      /\ \A p \in LiveIn(os2) : ObjectOK(os2[p])
  BY ScalarFrame DEF Changes
<1>3. \A p \in LiveIn(os) : /\ os2[p].users = os[p].users
                            /\ os2[p].source_len = os[p].source_len /\ os2[p].total = os[p].total
                            /\ w.kind # "none" => os2[p].state = os[p].state \/ os2[p].state = COMPLETE
                            /\ \A H \in Handle : /\ FlowOK(H, os[p]) => FlowOK(H, os2[p])
                                                 /\ Balanced(H, os[p]) => Balanced(H, os2[p])
  <2> SUFFICES ASSUME NEW p \in LiveIn(os)
               PROVE  /\ os2[p].users = os[p].users
                      /\ os2[p].source_len = os[p].source_len /\ os2[p].total = os[p].total
                      /\ w.kind # "none" => os2[p].state = os[p].state \/ os2[p].state = COMPLETE
                      /\ \A H \in Handle : /\ FlowOK(H, os[p]) => FlowOK(H, os2[p])
                                           /\ Balanced(H, os[p]) => Balanced(H, os2[p])
    OBVIOUS
  <2>1. CASE p # o BY <2>1, LiveObject DEF Replaces
  <2>2. CASE p = o
    <3>1. os[o] \in Object /\ os2[o] = R BY <1>1, LiveObject DEF Replaces
    <3>2. \A H \in Handle : /\ FlowOK(H, os[o]) => FlowOK(H, R)
                            /\ Balanced(H, os[o]) => Balanced(H, R)
      BY <3>1, <1>1, FlowChanges
    <3> QED BY <3>1, <3>2, <2>2 DEF Changes, Scalar
  <2> QED BY <2>1, <2>2
<1>4. WalkOK(os, hd, w) /\ FlowsOK(os, hd, w) /\ UsersOK(os, hd, w)
  BY DEF Sound
<1>5. w.kind # "none" => w.object \in LiveIn(os)
  BY <1>4 DEF WalkOK
<1>6. WalkOK(os2, hd, w)
  BY <1>1, <1>3, <1>4, <1>5 DEF WalkOK
<1>7. FlowsOK(os2, hd, w)
  <2>1. ASSUME NEW h \in Handles, hd[h].object # NoObject PROVE FlowOK(hd[h], os2[hd[h].object])
    <3>1. hd[h].object \in LiveIn(os) /\ FlowOK(hd[h], os[hd[h].object]) /\ hd[h] \in Handle
      BY <2>1, <1>1, <1>4 DEF UsersOK, FlowsOK
    <3> QED BY <3>1, <1>3
  <2>2. ASSUME w.event # "none" PROVE w.object \in LiveIn(os)
    BY <2>2, <1>4, <1>5 DEF WalkOK
  <2>3. ASSUME w.event = "done", ~w.queued PROVE Balanced(hd[w.user], os2[w.object])
    <3>1. w.object \in LiveIn(os) /\ Balanced(hd[w.user], os[w.object])
      BY <2>2, <2>3, <1>4 DEF FlowsOK
    <3>2. w.user \in Handles
      <4>1. w.user # NoHandle /\ w.kind # "none" /\ w.user \in Handles \cup {Gone, NoHandle}
        BY <2>3, <1>1, <1>4, WalkFields DEF WalkOK
      <4>2. Holds(os[w.object].users, w.user) BY <4>1, <1>4 DEF WalkOK
      <4> QED BY <4>1, <4>2, <3>1, <2>3, <1>4 DEF UsersOK
    <3>3. hd[w.user] \in Handle BY <3>2, <1>1
    <3> QED BY <3>1, <3>3, <1>3
  <2>4. w.event = "data" /\ os2[w.object].source_len > w.orig => os2[w.object].source_len = os2[w.object].total
    BY <2>2, <1>3, <1>4 DEF FlowsOK
  <2>5. w.kind = "redirect" => \A h \in Handles : hd[h].object = w.object => hd[h].state # COMPLETE
    BY <1>4 DEF FlowsOK
  <2> QED BY <2>1, <2>3, <2>4, <2>5 DEF FlowsOK
<1> QED BY <1>1, <1>2, <1>6, <1>7 DEF Sound

LEMMA FetchHeaderStep ==
    ASSUME IInv, NEW o \in Objects, NEW cache \in {"fresh", "validate"}, FetchHeader(o, cache)
    PROVE  IInv'
<1> DEFINE O == obj[o]
           R == [O EXCEPT !.state = HEADERS, !.cache = cache]
<1>1. /\ Sound(obj, cached_objects, uncached_objects, handle, walk) /\ obj \in Shape
      /\ walk.kind = "none" /\ O.state = INIT
      /\ obj' = [obj EXCEPT ![o].state = HEADERS, ![o].cache = cache]
      /\ all_caught_up' = FALSE
      /\ cached_objects' = cached_objects /\ uncached_objects' = uncached_objects
      /\ handle' = handle /\ walk' = walk /\ missed' = missed /\ turns' = turns
  BY DEF FetchHeader, Fetching, lists, Walking, IInv, Sound
<1>2. o \in LiveIn(obj) /\ O \in Object /\ ObjectOK(O)
  BY <1>1, LiveIs, LiveObject DEF FetchHeader, Fetching, Sound
<1>3. obj' = [obj EXCEPT ![o] = R]
  BY <1>1 DEF Shape
<1>4. R \in Object /\ Changes(O, R)
  <2> HIDE DEF O
  <2> DEFINE A == [O EXCEPT !.state = HEADERS]
             B == [A EXCEPT !.cache = cache]
  <2>0. HEADERS \in INIT..COMPLETE /\ cache \in {"fresh", "stale", "validate"}
    BY DEF INIT, HEADERS, COMPLETE
  <2>1. Keeps(O, A, {"state"}) /\ A.state = HEADERS
    BY <2>0, <1>2, SetState
  <2>2. R = B /\ A \in Object
    BY <2>1 DEF Keeps
  <2> HIDE DEF A
  <2>3. Keeps(A, B, {"cache"})
    BY <2>0, <2>2, SetCache
  <2> HIDE DEF B
  <2> QED BY <2>1, <2>2, <2>3, <1>1, <1>2
          DEF Keeps, Names, Changes, Scalar, ObjectOK, INIT, HEADERS, COMPLETE, O
<1> HIDE DEF R
<1>5. Replaces(obj, obj', o, R)
  <2>1. Replaces(obj, [obj EXCEPT ![o] = R], o, R)
    BY <1>1, <1>2, <1>4, OneChanged
  <2> QED BY <2>1, <1>3
<1>6. Sound(obj', cached_objects, uncached_objects, handle, walk)
  BY <1>1, <1>4, <1>5, ScalarStep
<1> QED BY <1>1, <1>6 DEF IInv

LEMMA FetchFinishedStep ==
    ASSUME IInv, NEW o \in Objects, FetchFinished(o)
    PROVE  IInv'
<1> DEFINE O == obj[o]
           R == [O EXCEPT !.state = COMPLETE, !.fetch = FALSE]
<1>1. /\ Sound(obj, cached_objects, uncached_objects, handle, walk) /\ obj \in Shape
      /\ walk.kind = "none"
      /\ obj' = [obj EXCEPT ![o].state = COMPLETE, ![o].fetch = FALSE]
      /\ all_caught_up' = FALSE
      /\ cached_objects' = cached_objects /\ uncached_objects' = uncached_objects
      /\ handle' = handle /\ walk' = walk /\ missed' = missed /\ turns' = turns
  BY DEF FetchFinished, Fetching, lists, Walking, IInv, Sound
<1>2. o \in LiveIn(obj) /\ O \in Object /\ ObjectOK(O)
  BY <1>1, LiveIs, LiveObject DEF FetchFinished, Fetching, Sound
<1>3. obj' = [obj EXCEPT ![o] = R]
  BY <1>1 DEF Shape
<1>4. R \in Object /\ Changes(O, R)
  <2> HIDE DEF O
  <2> DEFINE A == [O EXCEPT !.state = COMPLETE]
             B == [A EXCEPT !.fetch = FALSE]
  <2>0. COMPLETE \in INIT..COMPLETE /\ FALSE \in BOOLEAN
    BY DEF INIT, COMPLETE
  <2>1. Keeps(O, A, {"state"}) /\ A.state = COMPLETE
    BY <2>0, <1>2, SetState
  <2>2. R = B /\ A \in Object
    BY <2>1 DEF Keeps
  <2> HIDE DEF A
  <2>3. Keeps(A, B, {"fetch"}) /\ B.fetch = FALSE
    BY <2>0, <2>2, SetFetch
  <2> HIDE DEF B
  <2> QED BY <2>1, <2>2, <2>3, <1>2 DEF Keeps, Names, Changes, Scalar, ObjectOK, O
<1> HIDE DEF R
<1>5. Replaces(obj, obj', o, R)
  <2>1. Replaces(obj, [obj EXCEPT ![o] = R], o, R)
    BY <1>1, <1>2, <1>4, OneChanged
  <2> QED BY <2>1, <1>3
<1>6. Sound(obj', cached_objects, uncached_objects, handle, walk)
  BY <1>1, <1>4, <1>5, ScalarStep
<1> QED BY <1>1, <1>6 DEF IInv

(* What a step leaves of what the catch-up has done and is still to do.    *)
LEMMA CatchFrame ==
    ASSUME NEW os, NEW os2, NEW cached, NEW uncached, NEW hd, NEW w, NEW m, NEW m2,
           UsersOK(os, hd, w), WalkOK(os, hd, w), CatchOK(os, cached, uncached, hd, w, m),
           m \subseteq m2,
           \A o \in LiveIn(os) : os2[o].users = os[o].users,
           \A o \in LiveIn(os) :
              \/ os2[o].state = os[o].state /\ os2[o].source_len = os[o].source_len
              \/ \A h \in Handles : hd[h].object = o => h \in m2
    PROVE  CatchOK(os2, cached, uncached, hd, w, m2)
<1>1. ASSUME w.kind \in {"none", "notify"}, NEW h \in Handles, hd[h].object # NoObject, h \notin m2
      PROVE  \/ NoneDue(hd[h], os2[hd[h].object], os2[hd[h].object].state)
             \/ Ahead(os2, cached, uncached, w, h, hd[h].object)
  <2> DEFINE o == hd[h].object
  <2>1. /\ o \in LiveIn(os)
        /\ \/ NoneDue(hd[h], os[o], os[o].state)
           \/ Ahead(os, cached, uncached, w, h, o)
    BY <1>1 DEF UsersOK, CatchOK
  <2>2. os2[o].state = os[o].state /\ os2[o].source_len = os[o].source_len
    BY <2>1, <1>1
  <2> HIDE DEF o
  <2>3. NoneDue(hd[h], os[o], os[o].state) => NoneDue(hd[h], os2[o], os2[o].state)
    BY <2>2 DEF NoneDue
  <2>4. Ahead(os, cached, uncached, w, h, o) => Ahead(os2, cached, uncached, w, h, o)
    BY <2>1 DEF Ahead
  <2> QED BY <2>1, <2>3, <2>4 DEF o
<1>2. ASSUME w.kind = "notify"
      PROVE  w.objstate = os2[w.object].state \/ \A h \in Handles : hd[h].object = w.object => h \in m2
  <2>1. w.object \in LiveIn(os) BY <1>2 DEF WalkOK
  <2> QED BY <2>1, <1>2 DEF CatchOK
<1> QED BY <1>1, <1>2 DEF CatchOK


(* llcache_object_fetch is aborted: llcache_handle_abort, an error.        *)
Aborted(O) == [Invalidated(O) EXCEPT !.fetch = FALSE, !.state = COMPLETE]

LEMMA AbortedIs ==
    ASSUME NEW O \in Object, ObjectOK(O)
    PROVE  /\ Aborted(O) \in Object /\ Aborted(O).state = COMPLETE /\ Aborted(O).fetch = FALSE
           /\ Changes(O, Aborted(O)) /\ Invalidated(O) \in Object /\ Changes(O, Invalidated(O))
           /\ Invalidated(O).fetch = O.fetch /\ Invalidated(O).state = O.state
<1> DEFINE A == [O EXCEPT !.cache = "stale"]
           B == [A EXCEPT !.timed = FALSE]
           C == [B EXCEPT !.fetch = FALSE]
           D == [C EXCEPT !.state = COMPLETE]
<1>1. COMPLETE \in INIT..COMPLETE /\ FALSE \in BOOLEAN /\ "stale" \in {"fresh", "stale", "validate"}
  BY DEF INIT, COMPLETE
<1>2. Invalidated(O) = B /\ Aborted(O) = D
  BY DEF Aborted, Invalidated
<1>3. Keeps(O, A, {"cache"})
  BY <1>1, SetCache
<1>4. A \in Object BY <1>3 DEF Keeps
<1> HIDE DEF A
<1>5. Keeps(A, B, {"timed"})
  BY <1>1, <1>4, SetTimed
<1>6. B \in Object BY <1>5 DEF Keeps
<1> HIDE DEF B
<1>7. Keeps(B, C, {"fetch"}) /\ C.fetch = FALSE
  BY <1>1, <1>6, SetFetch
<1>8. C \in Object BY <1>7 DEF Keeps
<1> HIDE DEF C
<1>9. Keeps(C, D, {"state"}) /\ D.state = COMPLETE
  BY <1>1, <1>8, SetState
<1> HIDE DEF D
<1>10. Keeps(O, B, {"cache"} \cup {"timed"})
  BY <1>3, <1>5, KeepsBoth
<1>11. Keeps(O, C, ({"cache"} \cup {"timed"}) \cup {"fetch"})
  BY <1>7, <1>10, KeepsBoth
<1>12. Keeps(O, D, (({"cache"} \cup {"timed"}) \cup {"fetch"}) \cup {"state"})
  BY <1>9, <1>11, KeepsBoth
<1>13. B \in Object /\ Changes(O, B) /\ B.fetch = O.fetch /\ B.state = O.state
  BY <1>10 DEF Keeps, Names, Changes, Scalar, ObjectOK
<1>14. D.fetch = FALSE
  BY <1>7, <1>9 DEF Keeps, Names
<1>15. D \in Object /\ Changes(O, D)
  BY <1>9, <1>12, <1>14 DEF Keeps, Names, Changes, Scalar, ObjectOK
<1> QED BY <1>2, <1>9, <1>13, <1>14, <1>15

(* The only user of an object.                                             *)
LEMMA AloneIs ==
    ASSUME IInv, NEW h \in Handles, h \in Held, AllAlone(h)
    PROVE  /\ handle[h].object \in LiveIn(obj)
           /\ \A y : Holds(obj[handle[h].object].users, y) => y = h
           /\ \A k \in Handles : handle[k].object = handle[h].object => k = h
<1> DEFINE o == handle[h].object
           s == obj[o].users
<1>1. UsersOK(obj, handle, walk) /\ o # NoObject
  BY DEF IInv, Sound, Held
<1>2. o \in LiveIn(obj) /\ Holds(s, h)
  BY <1>1 DEF UsersOK
<1>3. s \in Seq(Handles \cup {Gone}) /\ Len(s) = 1
  BY <1>2, LiveObject, ObjectFields DEF AllAlone
<1>4. DOMAIN s = 1..1
  BY <1>3, LenProperties
<1>5. ASSUME NEW y, Holds(s, y) PROVE y = h
  <2>1. \A i, j \in 1..1 : i = j OBVIOUS
  <2> HIDE DEF s
  <2> QED BY <2>1, <1>2, <1>4, <1>5 DEF Holds
<1>6. ASSUME NEW k \in Handles, handle[k].object = o PROVE k = h
  BY <1>1, <1>5, <1>6 DEF UsersOK
<1> QED BY <1>2, <1>5, <1>6

LEMMA HeldLive ==
    ASSUME Sound(obj, cached_objects, uncached_objects, handle, walk), NEW h \in Handles, h \in Held
    PROVE  /\ handle[h].object \in LiveIn(obj) /\ Holds(obj[handle[h].object].users, h)
           /\ handle[h].object # NoObject /\ handle[h].object \in Objects
  BY LiveObject DEF Sound, UsersOK, Held

(* An object's cache data changes.                                         *)
LEMMA CacheStep ==
    ASSUME IInv, NEW o \in LiveIn(obj), NEW c \in {"fresh", "stale", "validate"},
           obj' = [obj EXCEPT ![o].cache = c], turns' \in 0..MaxTurns,
           cached_objects' = cached_objects, uncached_objects' = uncached_objects,
           handle' = handle, walk' = walk, missed' = missed, all_caught_up' = all_caught_up
    PROVE  IInv'
<1> DEFINE O == obj[o]
           R == [O EXCEPT !.cache = c]
<1>1. Sound(obj, cached_objects, uncached_objects, handle, walk) /\ obj \in Shape
  BY DEF IInv, Sound
<1>2. O \in Object /\ ObjectOK(O)
  BY <1>1, LiveObject DEF Sound
<1>3. obj' = [obj EXCEPT ![o] = R]
  OBVIOUS
<1>4. Keeps(O, R, {"cache"})
  <2> HIDE DEF O
  <2> QED BY <1>2, SetCache
<1> HIDE DEF R
<1>5. R \in Object /\ Changes(O, R) /\ R.state = O.state
  BY <1>2, <1>4 DEF Keeps, Names, Changes, Scalar, ObjectOK
<1>6. Replaces(obj, obj', o, R)
  <2>1. Replaces(obj, [obj EXCEPT ![o] = R], o, R)
    BY <1>1, <1>5, OneChanged
  <2> QED BY <2>1, <1>3
<1>7. Sound(obj', cached_objects, uncached_objects, handle, walk)
  BY <1>1, <1>5, <1>6, ScalarStep
<1>8. ASSUME all_caught_up
      PROVE  CatchOK(obj', cached_objects, uncached_objects, handle, walk, missed)
  <2>1. \A p \in LiveIn(obj) : /\ obj'[p].users = obj[p].users
                               /\ obj'[p].state = obj[p].state /\ obj'[p].source_len = obj[p].source_len
    BY <1>5, <1>6, LiveObject DEF Replaces, Changes, Scalar
  <2>2. CatchOK(obj, cached_objects, uncached_objects, handle, walk, missed)
    BY <1>8 DEF IInv
  <2>3. UsersOK(obj, handle, walk) /\ WalkOK(obj, handle, walk) /\ missed \subseteq missed
    BY DEF IInv, Sound
  <2> DEFINE os2 == obj'
  <2>4. /\ \A p \in LiveIn(obj) : os2[p].users = obj[p].users
        /\ \A p \in LiveIn(obj) :
              \/ os2[p].state = obj[p].state /\ os2[p].source_len = obj[p].source_len
              \/ \A h \in Handles : handle[h].object = p => h \in missed
    BY <2>1
  <2> HIDE DEF os2
  <2>5. CatchOK(os2, cached_objects, uncached_objects, handle, walk, missed)
    BY <2>2, <2>3, <2>4, CatchFrame
  <2> QED BY <2>5 DEF os2
<1> QED BY <1>7, <1>8 DEF IInv

LEMMA TurnIs ==
    ASSUME IInv, Turn
    PROVE  turns' \in 0..MaxTurns
  BY LLCacheAssumption DEF IInv, Turn

LEMMA ExpireStep ==
    ASSUME IInv, NEW o \in Objects, Expire(o)
    PROVE  IInv'
<1>1. obj \in Shape BY DEF IInv, Sound
<1>2. o \in LiveIn(obj)
  BY <1>1, LiveIs DEF Expire
<1>3. turns' \in 0..MaxTurns
  BY TurnIs DEF Expire
<1> QED BY <1>2, <1>3, CacheStep DEF Expire, lists

LEMMA InvalidateStep ==
    ASSUME IInv, NEW h \in Handles, llcache_handle_invalidate_cache_data(h)
    PROVE  IInv'
<1> DEFINE o == handle[h].object
<1>1. Sound(obj, cached_objects, uncached_objects, handle, walk) /\ h \in Held
  BY DEF IInv, llcache_handle_invalidate_cache_data
<1>2. o \in LiveIn(obj)
  BY <1>1, HeldLive
<1>3. turns' \in 0..MaxTurns
  BY TurnIs DEF llcache_handle_invalidate_cache_data, MayCall
<1>4. obj' = [obj EXCEPT ![o].cache = "validate"]
  BY DEF llcache_handle_invalidate_cache_data
<1> HIDE DEF o
<1> QED BY <1>2, <1>3, <1>4, CacheStep DEF llcache_handle_invalidate_cache_data, lists

LEMMA AbortFetchStep ==
    ASSUME IInv, NEW h \in Handles, AbortFetch(h)
    PROVE  IInv'
<1> DEFINE o == handle[h].object
           O == obj[o]
           R == Aborted(O)
<1>1. /\ Sound(obj, cached_objects, uncached_objects, handle, walk) /\ obj \in Shape
      /\ obj' = [obj EXCEPT ![o] = R] /\ missed' = missed \cup {h}
      /\ cached_objects' = cached_objects /\ uncached_objects' = uncached_objects
      /\ handle' = handle /\ walk' = walk /\ all_caught_up' = all_caught_up
      /\ h \in Held /\ AllAlone(h) /\ turns' \in 0..MaxTurns
  BY TurnIs DEF AbortFetch, MayCall, lists, IInv, Sound, Aborted
<1>2. o \in LiveIn(obj) /\ \A k \in Handles : handle[k].object = o => k = h
  BY <1>1, AloneIs
<1>3. O \in Object /\ ObjectOK(O)
  BY <1>1, <1>2, LiveObject DEF Sound
<1>4. R \in Object /\ Changes(O, R) /\ R.state = COMPLETE
  BY <1>3, AbortedIs
<1> HIDE DEF R, O, o
<1>5. Replaces(obj, obj', o, R)
  BY <1>1, <1>2, <1>4, OneChanged
<1>6. Sound(obj', cached_objects, uncached_objects, handle, walk)
  BY <1>1, <1>4, <1>5, ScalarStep DEF O
<1>7. ASSUME all_caught_up
      PROVE  CatchOK(obj', cached_objects, uncached_objects, handle, walk, missed')
  <2>1. \A p \in LiveIn(obj) : obj'[p].users = obj[p].users /\ (p # o => obj'[p] = obj[p])
    BY <1>4, <1>5, LiveObject DEF Replaces, Changes, Scalar, O
  <2>2. \A p \in LiveIn(obj) :
           \/ obj'[p].state = obj[p].state /\ obj'[p].source_len = obj[p].source_len
           \/ \A k \in Handles : handle[k].object = p => k \in missed'
    BY <2>1, <1>1, <1>2
  <2>3. missed \subseteq missed' BY <1>1
  <2>4. CatchOK(obj, cached_objects, uncached_objects, handle, walk, missed)
    BY <1>7 DEF IInv
  <2>5. UsersOK(obj, handle, walk) /\ WalkOK(obj, handle, walk)
    BY DEF IInv, Sound
  <2> QED BY <2>1, <2>2, <2>3, <2>4, <2>5, CatchFrame
<1> QED BY <1>1, <1>6, <1>7 DEF IInv

-----------------------------------------------------------------------------
(* Events to all users of an object.                                       *)

LEMMA EventsDoneStep ==
    ASSUME IInv, EventsDone
    PROVE  IInv'
<1>1. /\ walk' = NoWalk /\ all_caught_up' = FALSE /\ obj' = obj /\ handle' = handle
      /\ cached_objects' = cached_objects /\ uncached_objects' = uncached_objects
      /\ missed' = missed /\ turns' = turns /\ walk.in = FALSE
  BY WalkFields DEF EventsDone, lists, IInv, Sound
<1>2. Sound(obj, cached_objects, uncached_objects, handle, walk)
  BY DEF IInv
<1>3. ~walk.queued
  BY <1>1, <1>2 DEF Sound, WalkOK
<1>4. UsersOK(obj, handle, NoWalk) /\ WalkOK(obj, handle, NoWalk) /\ FlowsOK(obj, handle, NoWalk)
  BY <1>2, <1>3, UnqueuedUsers DEF Sound, WalkOK, FlowsOK, NoWalk
<1> QED BY <1>1, <1>2, <1>4, NoWalkType DEF IInv, Sound

(* llcache_send_event_to_users begins at the first user.                   *)
LEMMA EventsStart ==
    ASSUME NEW os, NEW hd, NEW w, NEW cached, NEW uncached, Sound(os, cached, uncached, hd, w),
           ~w.queued, NEW o \in LiveIn(os), os[o].users = obj[o].users,
           NEW kind \in {"redirect", "error"}, NEW to \in Urls \cup {NoObject},
           kind = "redirect" => to \in Urls,
           kind = "redirect" => \A h \in Handles : hd[h].object = o => hd[h].state # COMPLETE
    PROVE  Sound(os, cached, uncached, hd, StartEvents(o, kind, to)) /\ StartEvents(o, kind, to).kind = kind
<1> DEFINE s == obj[o].users
           u == IF s = <<>> THEN NoHandle ELSE Head(s)
           e == StartEvents(o, kind, to)
<1>1. o \in Objects /\ os[o] \in Object
  BY LiveObject
<1>2. s \in Seq(Handles \cup {Gone})
  BY <1>1, ObjectFields
<1>3. u \in Handles \cup {Gone, NoHandle} /\ (u # NoHandle => Holds(s, u))
  <2>1. CASE s = <<>> BY <2>1
  <2>2. CASE s # <<>>
    <3>1. Head(s) = s[1] /\ 1 \in DOMAIN s /\ Holds(s, Head(s))
      BY <1>2, <2>2, EmptyIs
    <3>2. Head(s) \in Handles \cup {Gone}
      BY <1>2, <3>1, ElementOfSeq, LenProperties
    <3> QED BY <3>1, <3>2, <2>2
  <2> QED BY <2>1, <2>2
<1>4. e = [NoWalk EXCEPT !.kind = kind, !.object = o, !.to = to, !.user = u]
  BY DEF StartEvents
<1> HIDE DEF e, u, s
<1>5. /\ e \in WalkType /\ e.kind = kind /\ e.object = o /\ e.to = to /\ e.user = u
      /\ e.in = NoWalk.in /\ e.event = NoWalk.event /\ e.queued = NoWalk.queued
  BY <1>1, <1>3, <1>4, NoWalkType DEF WalkType
<1>6. e.in = FALSE /\ e.event = "none" /\ e.queued = FALSE
  BY <1>5 DEF NoWalk
<1>7. WalkOK(os, hd, e)
  BY <1>3, <1>5, <1>6 DEF WalkOK, s
<1>8. UsersOK(os, hd, e)
  BY UnqueuedUsers DEF Sound
<1>9. FlowsOK(os, hd, e)
  BY <1>5, <1>6 DEF FlowsOK, Sound
<1> QED BY <1>5, <1>7, <1>8, <1>9 DEF Sound, e

LEMMA RedirectFailsStep ==
    ASSUME IInv, RedirectFails
    PROVE  IInv'
<1> DEFINE e == StartEvents(walk.object, "error", NoObject)
<1>1. /\ Walking /\ walk.in = FALSE /\ walk' = e /\ all_caught_up' = all_caught_up
      /\ obj' = obj /\ handle' = handle
      /\ cached_objects' = cached_objects /\ uncached_objects' = uncached_objects
      /\ missed' = missed /\ turns' = turns
  BY WalkFields DEF RedirectFails, lists, IInv, Sound
<1>2. Sound(obj, cached_objects, uncached_objects, handle, walk)
  BY DEF IInv
<1>3. ~walk.queued /\ walk.object \in LiveIn(obj)
  BY <1>1, <1>2 DEF Sound, WalkOK, Walking
<1>4. Sound(obj, cached_objects, uncached_objects, handle, e) /\ e.kind = "error"
  BY <1>2, <1>3, EventsStart
<1> HIDE DEF e
<1>5. CatchOK(obj, cached_objects, uncached_objects, handle, e, missed)
  BY <1>4 DEF CatchOK
<1> QED BY <1>1, <1>4, <1>5 DEF IInv

(* The objects that name a candidate are finitely many.                    *)
LEMMA NamersFinite ==
    ASSUME NEW os, NEW c
    PROVE  IsFiniteSet(Namers(os, c)) /\ Cardinality(Namers(os, c)) \in Nat
<1>1. Namers(os, c) \in SUBSET Objects
  BY DEF Namers, LiveIn
<1> QED BY <1>1, LLCacheAssumption, FS_Subset, FS_CardinalityType

(* The candidate of a fetch that has its answer is released.               *)
OnlyCandidates(os, os2) ==
    /\ os2 \in Shape /\ LiveIn(os2) = LiveIn(os)
    /\ \A p \in LiveIn(os) : Keeps(os[p], os2[p], {"candidate", "candidate_count"})

LEMMA CandidatesFrame ==
    ASSUME NEW os, NEW os2, NEW cached, NEW uncached, NEW hd, NEW w,
           Sound(os, cached, uncached, hd, w), OnlyCandidates(os, os2), CandOK(os2)
    PROVE  Sound(os2, cached, uncached, hd, w)
<1>1. /\ os2 \in Shape /\ LiveIn(os2) = LiveIn(os) /\ hd \in [Handles -> Handle] /\ w \in WalkType
      /\ UsersOK(os, hd, w) /\ WalkOK(os, hd, w) /\ FlowsOK(os, hd, w)
  BY DEF OnlyCandidates, Sound
<1>3. \A p \in LiveIn(os) : /\ os2[p].users = os[p].users /\ os2[p].state = os[p].state
                            /\ os2[p].source_len = os[p].source_len /\ os2[p].total = os[p].total
                            /\ os2[p].fetch = os[p].fetch /\ os2[p].stream = os[p].stream
                            /\ os2[p].late = os[p].late
  BY DEF OnlyCandidates, Keeps, Names
<1>4. ListsOK(os2, cached, uncached)
  BY <1>1 DEF ListsOK, Sound
<1>5. UsersOK(os2, hd, w)
  BY <1>1, <1>3, UsersFrame
<1>6. StreamOK(os2, cached, hd)
  BY <1>1, <1>3, StreamFrame DEF Sound
<1>7. \A p \in LiveIn(os2) : ObjectOK(os2[p])
  BY <1>1, <1>3 DEF Sound, ObjectOK
<1>8. w.kind # "none" => w.object \in LiveIn(os)
  BY <1>1 DEF WalkOK
<1>9. WalkOK(os2, hd, w)
  BY <1>1, <1>3, <1>8 DEF WalkOK
<1>10. FlowsOK(os2, hd, w)
  <2>1. \A p \in LiveIn(os) : \A H : /\ FlowOK(H, os[p]) <=> FlowOK(H, os2[p])
                                     /\ Balanced(H, os[p]) <=> Balanced(H, os2[p])
    BY <1>3 DEF FlowOK, Balanced
  <2>2. w.event # "none" => w.object \in LiveIn(os)
    BY <1>1, <1>8 DEF WalkOK
  <2>3. ASSUME NEW h \in Handles, hd[h].object # NoObject PROVE FlowOK(hd[h], os2[hd[h].object])
    BY <2>1, <2>3, <1>1 DEF UsersOK, FlowsOK
  <2>4. w.event = "data" /\ os2[w.object].source_len > w.orig => os2[w.object].source_len = os2[w.object].total
    BY <2>2, <1>1, <1>3 DEF FlowsOK
  <2>5. w.event = "done" /\ ~w.queued => Balanced(hd[w.user], os2[w.object])
    BY <2>1, <2>2, <1>1 DEF FlowsOK
  <2> QED BY <2>3, <2>4, <2>5, <1>1 DEF FlowsOK
<1> QED BY <1>1, <1>4, <1>5, <1>6, <1>7, <1>9, <1>10 DEF Sound

LEMMA CandidateReleased ==
    ASSUME NEW os \in Shape, CandOK(os), NEW o \in LiveIn(os)
    PROVE  /\ OnlyCandidates(os, ReleaseCandidate(os, o)) /\ CandOK(ReleaseCandidate(os, o))
<1> DEFINE c == os[o].candidate
           r == ReleaseCandidate(os, o)
<1>1. o \in Objects /\ os[o] \in Object /\ c \in Objects \cup {NoObject}
  BY LiveObject, ObjectFields
<1>2. CASE c = NoObject
  <2>1. r = os BY <1>2 DEF ReleaseCandidate
  <2> HIDE DEF r
  <2> QED BY <2>1, LiveObject DEF OnlyCandidates, Keeps, r
<1>3. CASE c # NoObject
  <2> DEFINE C == os[c]
             n == C.candidate_count - 1
             A == [C EXCEPT !.candidate_count = n]
             os1 == [os EXCEPT ![c] = A]
             O == os1[o]
             B == [O EXCEPT !.candidate = NoObject]
             os2 == [os1 EXCEPT ![o] = B]
  <2>1. r = os2
    BY <1>3 DEF ReleaseCandidate
  <2>2. o \in Namers(os, c) /\ c \in Objects
    BY <1>1, <1>3 DEF Namers
  <2>3. IsFiniteSet(Namers(os, c)) /\ Cardinality(Namers(os, c)) \in Nat
    BY NamersFinite
  <2>4. Cardinality(Namers(os, c)) # 0
    BY <2>2, <2>3, FS_EmptySet
  <2>5. c \in LiveIn(os) /\ C \in Object /\ C.candidate_count >= Cardinality(Namers(os, c))
    BY <2>2, LiveObject DEF CandOK
  <2>6. n \in 0..Cardinality(Objects)
    <3>1. C.candidate_count \in 0..Cardinality(Objects) BY <2>5, ObjectFields
    <3>2. Cardinality(Objects) \in Nat BY LLCacheAssumption, FS_CardinalityType
    <3> QED BY <3>1, <3>2, <2>3, <2>4, <2>5
  <2>7. n + 1 = C.candidate_count
    <3>1. C.candidate_count \in Nat BY <2>5, ObjectFields
    <3> QED BY <3>1
  <2> HIDE DEF r, n, C
  <2>8. Keeps(C, A, {"candidate_count"}) /\ A.candidate_count = n
    BY <2>5, <2>6, SetCount
  <2>9. A \in Object BY <2>8 DEF Keeps
  <2> HIDE DEF A, c
  <2>10. Replaces(os, os1, c, A)
    BY <2>5, <2>9, OneChanged
  <2> HIDE DEF os1
  <2>11. os1 \in Shape /\ LiveIn(os1) = LiveIn(os) /\ O \in Object
    BY <2>10, LiveObject DEF Replaces
  <2> HIDE DEF O
  <2>12. Keeps(O, B, {"candidate"}) /\ B.candidate = NoObject
    BY <2>11, SetCandidate
  <2>13. B \in Object BY <2>12 DEF Keeps
  <2> HIDE DEF B
  <2>14. Replaces(os1, os2, o, B)
    BY <2>11, <2>13, OneChanged
  <2> HIDE DEF os2
  <2>15. LiveIn(os2) = LiveIn(os) /\ os2 \in Shape
    BY <2>11, <2>14 DEF Replaces
  <2>16. ASSUME NEW p \in LiveIn(os)
         PROVE  /\ Keeps(os[p], os2[p], {"candidate", "candidate_count"})
                /\ os2[p].candidate = IF p = o THEN NoObject ELSE os[p].candidate
                /\ os2[p].candidate_count = IF p = c THEN n ELSE os[p].candidate_count
    <3>1. p \in Objects /\ os[p] \in Object BY LiveObject
    <3>2. /\ Keeps(os[p], os1[p], {"candidate_count"})
          /\ os1[p].candidate_count = IF p = c THEN n ELSE os[p].candidate_count
      <4>1. CASE p = c BY <4>1, <2>8, <2>10 DEF Replaces, C
      <4>2. CASE p # c BY <4>2, <3>1, <2>10 DEF Replaces, Keeps
      <4> QED BY <4>1, <4>2
    <3>3. /\ Keeps(os1[p], os2[p], {"candidate"})
          /\ os2[p].candidate = IF p = o THEN NoObject ELSE os1[p].candidate
      <4>1. CASE p = o BY <4>1, <2>12, <2>14 DEF Replaces, O
      <4>2. CASE p # o BY <4>2, <3>1, <3>2, <2>14 DEF Replaces, Keeps
      <4> QED BY <4>1, <4>2
    <3>4. os1[p].candidate = os[p].candidate BY <3>2 DEF Keeps, Names
    <3>5. os2[p].candidate_count = os1[p].candidate_count BY <3>3 DEF Keeps, Names
    <3>6. Keeps(os[p], os2[p], {"candidate_count"} \cup {"candidate"})
      BY <3>2, <3>3, KeepsBoth
    <3>7. {"candidate_count"} \cup {"candidate"} = {"candidate", "candidate_count"} OBVIOUS
    <3> QED BY <3>2, <3>3, <3>4, <3>5, <3>6, <3>7
  <2>17. OnlyCandidates(os, os2)
    BY <2>15, <2>16 DEF OnlyCandidates
  <2>18. ASSUME NEW x \in Objects, Namers(os2, x) # {}
         PROVE  x \in LiveIn(os2) /\ os2[x].candidate_count >= Cardinality(Namers(os2, x))
    <3>1. x # NoObject BY LLCacheAssumption
    <3>2. CASE x = c
      <4>1. Namers(os2, c) = Namers(os, c) \ {o}
        BY <2>15, <2>16, <3>1, <3>2 DEF Namers
      <4>2. Cardinality(Namers(os, c) \ {o}) = Cardinality(Namers(os, c)) - 1
        BY <2>2, <2>3, FS_RemoveElement
      <4>3. os2[c].candidate_count = n BY <2>5, <2>16
      <4>4. n >= Cardinality(Namers(os, c)) - 1
        BY <2>3, <2>5, <2>6, <2>7
      <4> QED BY <4>1, <4>2, <4>3, <4>4, <3>2, <2>5, <2>15
    <3>3. CASE x # c
      <4>1. Namers(os2, x) = Namers(os, x)
        BY <2>15, <2>16, <3>1, <3>3, <1>1 DEF Namers, c
      <4>2. x \in LiveIn(os) /\ os[x].candidate_count >= Cardinality(Namers(os, x))
        BY <4>1, <2>18 DEF CandOK
      <4> QED BY <4>1, <4>2, <3>3, <2>15, <2>16
    <3> QED BY <3>2, <3>3
  <2>19. CandOK(os2)
    BY <2>18 DEF CandOK
  <2> QED BY <2>1, <2>17, <2>19 DEF r
<1> QED BY <1>2, <1>3

(* The fetch is over: its candidate is released and its cache data gone.   *)
LEMMA StoppedIs ==
    ASSUME Sound(obj, cached_objects, uncached_objects, handle, walk), walk.kind = "none",
           NEW o \in LiveIn(obj)
    PROVE  /\ Sound(Stopped(o), cached_objects, uncached_objects, handle, walk)
           /\ o \in LiveIn(Stopped(o)) /\ Stopped(o)[o].users = obj[o].users
<1> DEFINE os == ReleaseCandidate(obj, o)
           R == Aborted(os[o])
           os2 == [os EXCEPT ![o] = R]
<1>1. obj \in Shape /\ CandOK(obj)
  BY DEF Sound
<1>2. Stopped(o) = os2
  BY DEF Stopped, Aborted
<1>3. OnlyCandidates(obj, os) /\ CandOK(os)
  BY <1>1, CandidateReleased
<1> HIDE DEF os
<1>4. Sound(os, cached_objects, uncached_objects, handle, walk)
  BY <1>3, CandidatesFrame
<1>5. os \in Shape /\ o \in LiveIn(os) /\ os[o] \in Object /\ ObjectOK(os[o]) /\ os[o].users = obj[o].users
  BY <1>3, <1>4, LiveObject DEF OnlyCandidates, Sound, Keeps, Names
<1>6. R \in Object /\ Changes(os[o], R) /\ R.state = COMPLETE
  BY <1>5, AbortedIs
<1> HIDE DEF R
<1>7. Replaces(os, os2, o, R)
  BY <1>5, <1>6, OneChanged
<1> HIDE DEF os2
<1>8. Sound(os2, cached_objects, uncached_objects, handle, walk)
  BY <1>4, <1>6, <1>7, ScalarStep
<1>9. o \in LiveIn(os2) /\ os2[o].users = obj[o].users
  BY <1>5, <1>6, <1>7 DEF Replaces, Changes, Scalar
<1> QED BY <1>2, <1>8, <1>9

(* FETCH_ERROR and a redirect, up to the users' events.                    *)
LEMMA StopStep ==
    ASSUME IInv, NEW o, NEW kind \in {"redirect", "error"}, NEW to \in Urls \cup {NoObject},
           kind = "redirect" => to \in Urls,
           Fetching(o), Turn, obj' = Stopped(o), walk' = StartEvents(o, kind, to),
           UNCHANGED <<lists, handle, all_caught_up, missed>>
    PROVE  IInv'
<1>1. /\ Sound(obj, cached_objects, uncached_objects, handle, walk) /\ obj \in Shape
      /\ walk.kind = "none" /\ obj[o].fetch
      /\ cached_objects' = cached_objects /\ uncached_objects' = uncached_objects
      /\ handle' = handle /\ missed' = missed /\ all_caught_up' = all_caught_up
      /\ turns' \in 0..MaxTurns
  BY TurnIs DEF Fetching, lists, Walking, IInv, Sound
<1>2. o \in LiveIn(obj)
  BY <1>1, LiveIs DEF Fetching
<1>3. /\ Sound(obj', cached_objects, uncached_objects, handle, walk)
      /\ o \in LiveIn(obj') /\ obj'[o].users = obj[o].users
  BY <1>1, <1>2, StoppedIs
<1>4. ~walk.queued
  <2>1. walk = NoWalk BY <1>1 DEF Sound, WalkOK
  <2> QED BY <2>1 DEF NoWalk
<1>5. ASSUME NEW h \in Handles, handle[h].object = o PROVE handle[h].state # COMPLETE
  <2>1. ObjectOK(obj[o]) /\ FlowOK(handle[h], obj[o])
    BY <1>1, <1>2, <1>5, LiveObject DEF Sound, FlowsOK
  <2> QED BY <2>1, <1>1 DEF ObjectOK, FlowOK
<1>6. Sound(obj', cached_objects, uncached_objects, handle, walk') /\ walk'.kind = kind
  BY <1>3, <1>4, <1>5, EventsStart
<1>7. CatchOK(obj', cached_objects, uncached_objects, handle, walk', missed)
  BY <1>6 DEF CatchOK
<1> QED BY <1>1, <1>6, <1>7 DEF IInv

LEMMA FetchErrorStep ==
    ASSUME IInv, NEW o \in Objects, FetchError(o)
    PROVE  IInv'
  BY StopStep DEF FetchError

LEMMA FetchRedirectStep ==
    ASSUME IInv, NEW o \in Objects, NEW url \in Urls, FetchRedirect(o, url)
    PROVE  IInv'
<1>1. /\ Fetching(o) /\ Turn /\ obj' = Stopped(o)
      /\ UNCHANGED <<lists, handle, all_caught_up, missed>>
      /\ walk' = StartEvents(o, "redirect", url) \/ walk' = StartEvents(o, "error", NoObject)
  BY DEF FetchRedirect
<1>2. CASE walk' = StartEvents(o, "redirect", url) BY <1>1, <1>2, StopStep
<1>3. CASE walk' = StartEvents(o, "error", NoObject) BY <1>1, <1>3, StopStep
<1> QED BY <1>1, <1>2, <1>3

(* A chunk is received.                                                    *)
LEMMA ChunkStep ==
    ASSUME NEW os, NEW cached, NEW uncached, NEW hd, NEW w, Sound(os, cached, uncached, hd, w),
           w.kind = "none", NEW o \in LiveIn(os), os[o].fetch, os[o].total < MaxLen
    PROVE  Sound([os EXCEPT ![o].state = DATA, ![o].source_len = @ + 1, ![o].total = @ + 1],
                 cached, uncached, hd, w)
<1> DEFINE O == os[o]
           n == O.source_len + 1
           t == O.total + 1
           A == [O EXCEPT !.state = DATA]
           B == [A EXCEPT !.source_len = n]
           R == [B EXCEPT !.total = t]
           os2 == [os EXCEPT ![o] = R]
<1>1. /\ os \in Shape /\ hd \in [Handles -> Handle] /\ w \in WalkType
      /\ WalkOK(os, hd, w) /\ FlowsOK(os, hd, w) /\ UsersOK(os, hd, w)
  BY DEF Sound
<1>2. O \in Object /\ ObjectOK(O) /\ o \in Objects
  BY LiveObject DEF Sound
<1>3. [os EXCEPT ![o].state = DATA, ![o].source_len = @ + 1, ![o].total = @ + 1] = os2
  <2>1. os = [p \in Objects |-> os[p]] BY <1>1 DEF Shape
  <2>2. A.source_len = O.source_len /\ A.total = O.total BY <1>2 DEF Object
  <2> QED BY <2>1, <2>2, <1>2 DEF Object
<1>4. O.source_len \in Nat /\ O.total \in Nat /\ MaxLen \in Nat
  BY <1>2, ObjectFields, LLCacheAssumption
<1>5. n \in 0..MaxLen /\ t \in 0..MaxLen /\ DATA \in INIT..COMPLETE
  BY <1>2, <1>4 DEF ObjectOK, DATA, INIT, COMPLETE
<1> HIDE DEF n, t, O
<1>6. Keeps(O, A, {"state"}) /\ A.state = DATA
  BY <1>2, <1>5, SetState
<1>7. A \in Object BY <1>6 DEF Keeps
<1> HIDE DEF A
<1>8. Keeps(A, B, {"source_len"}) /\ B.source_len = n
  BY <1>5, <1>7, SetSourceLen
<1>9. B \in Object BY <1>8 DEF Keeps
<1> HIDE DEF B
<1>10. Keeps(B, R, {"total"}) /\ R.total = t
  BY <1>5, <1>9, SetTotal
<1>11. R \in Object BY <1>10 DEF Keeps
<1> HIDE DEF R
<1>12. /\ R.state = DATA /\ R.source_len = n /\ R.total = t /\ R.fetch = O.fetch
       /\ R.users = O.users /\ R.late = O.late /\ R.stream = O.stream
       /\ R.candidate = O.candidate /\ R.candidate_count = O.candidate_count
  BY <1>6, <1>8, <1>10 DEF Keeps, Names
<1>13. Replaces(os, os2, o, R)
  BY <1>1, <1>11, OneChanged
<1> HIDE DEF os2
<1>14. O.fetch /\ O.state # COMPLETE /\ O.stream \in BOOLEAN /\ O.late \in BOOLEAN
  BY <1>2, ObjectFields DEF ObjectOK, O
<1>15. Scalar(os[o], R)
  <2>1. ObjectOK(R)
    BY <1>2, <1>4, <1>12, <1>14 DEF ObjectOK, n, t, DATA, COMPLETE
  <2> QED BY <2>1, <1>12 DEF Scalar, O
<1>16. /\ LiveIn(os2) = LiveIn(os)
       /\ ListsOK(os2, cached, uncached) /\ UsersOK(os2, hd, w)
       /\ StreamOK(os2, cached, hd) /\ CandOK(os2)
       /\ \A p \in LiveIn(os2) : ObjectOK(os2[p])
  BY <1>13, <1>15, ScalarFrame
<1>17. w = NoWalk
  BY <1>1 DEF WalkOK
<1>18. WalkOK(os2, hd, w)
  BY <1>1, <1>17 DEF WalkOK, NoWalk
<1>19. FlowsOK(os2, hd, w)
  <2>1. ASSUME NEW h \in Handles, hd[h].object # NoObject PROVE FlowOK(hd[h], os2[hd[h].object])
    <3>1. FlowOK(hd[h], os[hd[h].object]) /\ hd[h] \in Handle /\ hd[h].object \in Objects
      BY <2>1, <1>1, HandleFields DEF FlowsOK
    <3>2. CASE hd[h].object # o BY <3>1, <3>2, <1>13 DEF Replaces
    <3>3. CASE hd[h].object = o
      <4>1. hd[h].got \in Nat /\ hd[h].bytes \in Nat BY <3>1, HandleFields
      <4>2. hd[h].state # COMPLETE /\ Balanced(hd[h], O)
        BY <3>1, <3>3, <1>14 DEF FlowOK, O
      <4>3. Balanced(hd[h], R)
        BY <4>1, <4>2, <1>4, <1>12, <1>14 DEF Balanced, n, t
      <4> QED BY <4>2, <4>3, <3>3, <1>13 DEF FlowOK, Replaces
    <3> QED BY <3>2, <3>3
  <2> QED BY <2>1, <1>17 DEF FlowsOK, NoWalk
<1>20. os2 \in Shape BY <1>13 DEF Replaces
<1> QED BY <1>1, <1>3, <1>16, <1>18, <1>19, <1>20 DEF Sound

LEMMA FetchDataStep ==
    ASSUME IInv, NEW o \in Objects, NEW cachable \in BOOLEAN, FetchData(o, cachable)
    PROVE  IInv'
<1> DEFINE first == obj[o].state # DATA
           R == Invalidated(obj[o])
           kept == IF cachable THEN obj ELSE [obj EXCEPT ![o] = R]
           os == IF first THEN ReleaseCandidate(kept, o) ELSE obj
<1>1. /\ Sound(obj, cached_objects, uncached_objects, handle, walk) /\ obj \in Shape
      /\ walk.kind = "none" /\ obj[o].fetch /\ obj[o].total < MaxLen
      /\ obj' = [os EXCEPT ![o].state = DATA, ![o].source_len = @ + 1, ![o].total = @ + 1]
      /\ all_caught_up' = FALSE
      /\ cached_objects' = cached_objects /\ uncached_objects' = uncached_objects
      /\ handle' = handle /\ walk' = walk /\ missed' = missed /\ turns' = turns
  BY DEF FetchData, Fetching, lists, Walking, IInv, Sound
<1>2. o \in LiveIn(obj) /\ obj[o] \in Object /\ ObjectOK(obj[o])
  BY <1>1, LiveIs, LiveObject DEF FetchData, Fetching, Sound
<1>3. /\ Sound(kept, cached_objects, uncached_objects, handle, walk)
      /\ o \in LiveIn(kept) /\ kept[o].fetch /\ kept[o].total = obj[o].total
  <2>1. CASE cachable BY <2>1, <1>1, <1>2
  <2>2. CASE ~cachable
    <3>1. R \in Object /\ Changes(obj[o], R) /\ R.fetch = obj[o].fetch /\ R.state = obj[o].state
      BY <1>2, AbortedIs
    <3> HIDE DEF R
    <3> DEFINE k == [obj EXCEPT ![o] = R]
    <3>2. kept = k BY <2>2
    <3>3. Replaces(obj, k, o, R)
      BY <1>1, <1>2, <3>1, OneChanged
    <3> HIDE DEF k, kept
    <3>4. Sound(k, cached_objects, uncached_objects, handle, walk)
      BY <1>1, <3>1, <3>3, ScalarStep
    <3> QED BY <3>1, <3>2, <3>3, <3>4, <1>1, <1>2 DEF Replaces, Changes
  <2> QED BY <2>1, <2>2
<1> HIDE DEF kept
<1>4. /\ Sound(os, cached_objects, uncached_objects, handle, walk)
      /\ o \in LiveIn(os) /\ os[o].fetch /\ os[o].total < MaxLen
  <2>1. CASE ~first BY <2>1, <1>1, <1>2
  <2>2. CASE first
    <3> DEFINE r == ReleaseCandidate(kept, o)
    <3>1. os = r BY <2>2
    <3>2. kept \in Shape /\ CandOK(kept) BY <1>3 DEF Sound
    <3>3. OnlyCandidates(kept, r) /\ CandOK(r)
      BY <1>3, <3>2, CandidateReleased
    <3> HIDE DEF r, os
    <3>4. Sound(r, cached_objects, uncached_objects, handle, walk)
      BY <1>3, <3>3, CandidatesFrame
    <3>5. o \in LiveIn(r) /\ r[o].fetch = kept[o].fetch /\ r[o].total = kept[o].total
      BY <1>3, <3>3 DEF OnlyCandidates, Keeps, Names
    <3> QED BY <3>1, <3>4, <3>5, <1>1, <1>3
  <2> QED BY <2>1, <2>2
<1> HIDE DEF os
<1>5. Sound(obj', cached_objects, uncached_objects, handle, walk)
  BY <1>1, <1>4, ChunkStep
<1> QED BY <1>1, <1>5 DEF IInv

-----------------------------------------------------------------------------
(* Objects are destroyed.                                                  *)

LEMMA SeqNarrow ==
    ASSUME NEW S, NEW T, NEW s \in Seq(S), \A x : Holds(s, x) => x \in T
    PROVE  s \in Seq(T)
<1>1. DOMAIN s = 1..Len(s) /\ Len(s) \in Nat /\ s = [i \in 1..Len(s) |-> s[i]]
  BY LenProperties
<1>2. \A i \in 1..Len(s) : s[i] \in T
  BY <1>1 DEF Holds
<1>3. [i \in 1..Len(s) |-> s[i]] \in Seq(T)
  BY <1>1, <1>2, IsASeq
<1> QED BY <1>1, <1>3

(* What is destroyed has neither users nor fetches to revalidate it.       *)
Disposable(os, w, gone) ==
    /\ gone \subseteq LiveIn(os)
    /\ \A o \in gone : os[o].users = <<>> /\ os[o].candidate_count = 0
    /\ w.kind # "none" => w.object \notin gone

LEMMA CleanedIs ==
    ASSUME NEW os, NEW cached, NEW uncached, NEW hd, NEW w, Sound(os, cached, uncached, hd, w),
           NEW gone, Disposable(os, w, gone)
    PROVE  Sound(CleanedObjects(os, gone), Kept(cached, gone), Kept(uncached, gone), hd, w)
<1> DEFINE os2 == CleanedObjects(os, gone)
           c2 == Kept(cached, gone)
           u2 == Kept(uncached, gone)
<1>1. /\ os \in Shape /\ hd \in [Handles -> Handle] /\ w \in WalkType
      /\ WalkOK(os, hd, w) /\ FlowsOK(os, hd, w) /\ UsersOK(os, hd, w)
      /\ ListsOK(os, cached, uncached) /\ CandOK(os) /\ StreamOK(os, cached, hd)
  BY DEF Sound
<1>2. /\ os2 \in Shape /\ \A o \in Objects \ gone : os2[o] = os[o]
      /\ \A o \in gone : os2[o] = Destroyed
  <2>1. gone \subseteq Objects BY DEF Disposable, LiveIn
  <2> QED BY <2>1, <1>1 DEF Shape, CleanedObjects
<1> HIDE DEF os2
<1>3. LiveIn(os2) = LiveIn(os) \ gone
  BY <1>2, NotObjects DEF LiveIn
<1>4. \A o \in LiveIn(os2) : o \in LiveIn(os) /\ os2[o] = os[o]
  BY <1>2, <1>3 DEF LiveIn
<1>5. /\ cached \in Seq(LiveIn(os)) /\ uncached \in Seq(LiveIn(os))
      /\ Distinct(cached) /\ Distinct(uncached)
      /\ \A o \in LiveIn(os) : Holds(cached, o) <=> ~Holds(uncached, o)
  BY <1>1 DEF ListsOK
<1>6. /\ c2 \in Seq(LiveIn(os)) /\ Distinct(c2)
      /\ \A x : Holds(c2, x) <=> Holds(cached, x) /\ x \notin gone
  BY <1>5, KeptElements
<1>7. /\ u2 \in Seq(LiveIn(os)) /\ Distinct(u2)
      /\ \A x : Holds(u2, x) <=> Holds(uncached, x) /\ x \notin gone
  BY <1>5, KeptElements
<1> HIDE DEF c2, u2
<1>8. \A s \in Seq(LiveIn(os)) : \A x : Holds(s, x) => x \in LiveIn(os)
  BY LenProperties, ElementOfSeq DEF Holds
<1>9. c2 \in Seq(LiveIn(os2)) /\ u2 \in Seq(LiveIn(os2))
  <2>1. \A x : Holds(c2, x) => x \in LiveIn(os2) BY <1>3, <1>6, <1>8
  <2>2. \A x : Holds(u2, x) => x \in LiveIn(os2) BY <1>3, <1>7, <1>8
  <2> QED BY <2>1, <2>2, <1>6, <1>7, SeqNarrow
<1>10. ListsOK(os2, c2, u2)
  BY <1>3, <1>5, <1>6, <1>7, <1>9 DEF ListsOK
<1>11. ASSUME NEW h \in Handles, hd[h].object # NoObject
       PROVE  hd[h].object \in LiveIn(os2) /\ Holds(os[hd[h].object].users, h)
  <2>1. hd[h].object \in LiveIn(os) /\ Holds(os[hd[h].object].users, h)
    BY <1>1, <1>11 DEF UsersOK
  <2>2. ~Holds(<<>>, h) BY DEF Holds
  <2> QED BY <2>1, <2>2, <1>3 DEF Disposable
<1>12. UsersOK(os2, hd, w)
  BY <1>1, <1>4, <1>11 DEF UsersOK
<1>13. w.kind # "none" => w.object \in LiveIn(os2)
  BY <1>1, <1>3 DEF WalkOK, Disposable
<1>14. WalkOK(os2, hd, w)
  BY <1>1, <1>4, <1>13 DEF WalkOK
<1>15. \A o \in LiveIn(os2) : ObjectOK(os2[o])
  BY <1>4 DEF Sound
<1>16. StreamOK(os2, c2, hd)
  BY <1>1, <1>4, <1>6 DEF StreamOK
<1>17. CandOK(os2)
  <2>1. ASSUME NEW c \in Objects, Namers(os2, c) # {}
        PROVE  c \in LiveIn(os2) /\ os2[c].candidate_count >= Cardinality(Namers(os2, c))
    <3>1. Namers(os2, c) \in SUBSET Namers(os, c)
      BY <1>4 DEF Namers
    <3>2. /\ IsFiniteSet(Namers(os, c)) /\ Cardinality(Namers(os, c)) \in Nat
          /\ Cardinality(Namers(os2, c)) \in Nat
      BY NamersFinite
    <3>3. Cardinality(Namers(os2, c)) <= Cardinality(Namers(os, c))
      BY <3>1, <3>2, FS_Subset
    <3>4. c \in LiveIn(os) /\ os[c].candidate_count >= Cardinality(Namers(os, c))
      BY <2>1, <3>1, <1>1 DEF CandOK
    <3>5. Cardinality(Namers(os, c)) # 0
      BY <2>1, <3>1, <3>2, FS_EmptySet
    <3>6. os[c].candidate_count \in Nat
      BY <3>4, LiveObject, ObjectFields
    <3>7. c \notin gone
      BY <3>2, <3>4, <3>5 DEF Disposable
    <3>8. c \in LiveIn(os2) /\ os2[c] = os[c]
      BY <3>4, <3>7, <1>3, <1>4
    <3> QED BY <3>2, <3>3, <3>4, <3>6, <3>8
  <2> QED BY <2>1 DEF CandOK
<1>18. FlowsOK(os2, hd, w)
  <2>1. ASSUME NEW h \in Handles, hd[h].object # NoObject PROVE FlowOK(hd[h], os2[hd[h].object])
    BY <2>1, <1>1, <1>4, <1>11 DEF FlowsOK
  <2>2. w.event # "none" => w.object \in LiveIn(os2)
    BY <1>1, <1>13 DEF WalkOK
  <2>3. w.event # "none" => os2[w.object] = os[w.object]
    BY <2>2, <1>4
  <2> QED BY <2>1, <2>3, <1>1 DEF FlowsOK
<1> QED BY <1>1, <1>2, <1>10, <1>12, <1>14, <1>15, <1>16, <1>17, <1>18 DEF Sound, os2, c2, u2

(* Users of what is not destroyed keep their places in the catch-up.       *)
LEMMA CleanedCatch ==
    ASSUME NEW os, NEW cached, NEW uncached, NEW hd, NEW w, Sound(os, cached, uncached, hd, w),
           NEW gone, Disposable(os, w, gone), NEW m, CatchOK(os, cached, uncached, hd, w, m)
    PROVE  CatchOK(CleanedObjects(os, gone), Kept(cached, gone), Kept(uncached, gone), hd, w, m)
<1> DEFINE os2 == CleanedObjects(os, gone)
           c2 == Kept(cached, gone)
           u2 == Kept(uncached, gone)
<1>1. WalkOK(os, hd, w) /\ UsersOK(os, hd, w) /\ ListsOK(os, cached, uncached)
  BY DEF Sound
<1>2. \A o \in LiveIn(os) \ gone : os2[o] = os[o]
  BY DEF CleanedObjects, LiveIn
<1>3. /\ cached \in Seq(LiveIn(os)) /\ uncached \in Seq(LiveIn(os))
      /\ Distinct(cached) /\ Distinct(uncached)
  BY <1>1 DEF ListsOK
<1>4. \A x, y : Before(cached, x, y) /\ x \notin gone /\ y \notin gone => Before(c2, x, y)
  BY <1>3, KeptElements
<1>5. /\ \A x, y : Before(uncached, x, y) /\ x \notin gone /\ y \notin gone => Before(u2, x, y)
      /\ \A x : Holds(u2, x) <=> Holds(uncached, x) /\ x \notin gone
  BY <1>3, KeptElements
<1> HIDE DEF os2, c2, u2
<1>6. ASSUME w.kind \in {"none", "notify"}, NEW h \in Handles, hd[h].object # NoObject, h \notin m
      PROVE  \/ NoneDue(hd[h], os2[hd[h].object], os2[hd[h].object].state)
             \/ Ahead(os2, c2, u2, w, h, hd[h].object)
  <2> DEFINE o == hd[h].object
  <2>1. o \in LiveIn(os) /\ Holds(os[o].users, h)
    BY <1>1, <1>6 DEF UsersOK
  <2>2. o \notin gone
    <3>1. ~Holds(<<>>, h) BY DEF Holds
    <3> QED BY <3>1, <2>1 DEF Disposable
  <2>3. os2[o] = os[o] BY <1>2, <2>1, <2>2
  <2>4. \/ NoneDue(hd[h], os[o], os[o].state)
        \/ Ahead(os, cached, uncached, w, h, o)
    BY <1>6 DEF CatchOK
  <2> HIDE DEF o
  <2>5. ASSUME Ahead(os, cached, uncached, w, h, o) PROVE Ahead(os2, c2, u2, w, h, o)
    <3>1. w.kind = "notify" BY <2>5 DEF Ahead
    <3>2. w.object \notin gone BY <3>1 DEF Disposable
    <3> QED BY <3>1, <3>2, <2>2, <2>3, <2>5, <1>4, <1>5 DEF Ahead
  <2> QED BY <2>3, <2>4, <2>5 DEF o
<1>7. ASSUME w.kind = "notify"
      PROVE  w.objstate = os2[w.object].state \/ \A h \in Handles : hd[h].object = w.object => h \in m
  <2>1. w.object \in LiveIn(os) \ gone BY <1>1, <1>7 DEF WalkOK, Disposable
  <2> QED BY <2>1, <1>2, <1>7 DEF CatchOK
<1>8. CatchOK(os2, c2, u2, hd, w, m)
  BY <1>6, <1>7 DEF CatchOK
<1> QED BY <1>8 DEF os2, c2, u2

LEMMA CleanStep ==
    ASSUME IInv, NEW purge \in BOOLEAN, llcache_clean(purge)
    PROVE  IInv'
<1>1. PICK gone \in SUBSET Live :
          /\ Cleaned(purge, gone)
          /\ obj' = CleanedObjects(obj, gone)
          /\ cached_objects' = Kept(cached_objects, gone)
          /\ uncached_objects' = Kept(uncached_objects, gone)
  BY DEF llcache_clean
<1>2. /\ Sound(obj, cached_objects, uncached_objects, handle, walk) /\ obj \in Shape
      /\ WalkOK(obj, handle, walk)
      /\ handle' = handle /\ walk' = walk /\ missed' = missed /\ all_caught_up' = all_caught_up
      /\ turns' \in 0..MaxTurns /\ (Walking => walk.in)
  BY TurnIs DEF llcache_clean, MayCall, IInv, Sound
<1>3. Disposable(obj, walk, gone)
  <2>1. gone \subseteq LiveIn(obj) /\ \A o \in gone : obj[o].users = <<>> /\ obj[o].candidate_count = 0
    BY <1>1, <1>2, LiveIs DEF Cleaned, Unused
  <2>2. ASSUME walk.kind # "none" PROVE Holds(obj[walk.object].users, walk.user)
    BY <2>2, <1>2 DEF WalkOK, Walking
  <2>3. ~Holds(<<>>, walk.user) BY DEF Holds
  <2> QED BY <2>1, <2>2, <2>3 DEF Disposable
<1>4. Sound(obj', cached_objects', uncached_objects', handle, walk)
  BY <1>1, <1>2, <1>3, CleanedIs
<1>5. ASSUME all_caught_up
      PROVE  CatchOK(obj', cached_objects', uncached_objects', handle, walk, missed)
  BY <1>1, <1>2, <1>3, <1>5, CleanedCatch DEF IInv
<1> QED BY <1>2, <1>4, <1>5 DEF IInv

LEMMA FetchNoMemoryStep ==
    ASSUME IInv, NEW o \in Objects, FetchNoMemory(o)
    PROVE  IInv'
<1> DEFINE R == Aborted(obj[o])
           os == [obj EXCEPT ![o] = R]
<1>1. PICK gone \in SUBSET Live :
          /\ Cleaned(TRUE, gone)
          /\ obj' = CleanedObjects(os, gone)
          /\ cached_objects' = Kept(cached_objects, gone)
          /\ uncached_objects' = Kept(uncached_objects, gone)
  BY DEF FetchNoMemory, Aborted
<1>2. /\ Sound(obj, cached_objects, uncached_objects, handle, walk) /\ obj \in Shape
      /\ walk.kind = "none" /\ o \in Live
      /\ handle' = handle /\ walk' = walk /\ missed' = missed /\ all_caught_up' = FALSE
      /\ turns' \in 0..MaxTurns
  BY TurnIs DEF FetchNoMemory, Fetching, Walking, IInv, Sound
<1>3. o \in LiveIn(obj) /\ obj[o] \in Object /\ ObjectOK(obj[o])
  BY <1>2, LiveIs, LiveObject DEF Sound
<1>4. R \in Object /\ Changes(obj[o], R) /\ R.state = COMPLETE
  BY <1>3, AbortedIs
<1> HIDE DEF R
<1>5. Replaces(obj, os, o, R)
  BY <1>2, <1>3, <1>4, OneChanged
<1> HIDE DEF os
<1>6. Sound(os, cached_objects, uncached_objects, handle, walk)
  BY <1>2, <1>4, <1>5, ScalarStep
<1>7. Disposable(os, walk, gone)
  <2>1. gone \subseteq LiveIn(obj) /\ \A p \in gone : obj[p].users = <<>> /\ obj[p].candidate_count = 0
    BY <1>1, <1>2, LiveIs DEF Cleaned, Unused
  <2>2. \A p \in LiveIn(obj) : os[p].users = obj[p].users /\ os[p].candidate_count = obj[p].candidate_count
    BY <1>4, <1>5, LiveObject DEF Replaces, Changes, Scalar
  <2> QED BY <2>1, <2>2, <1>2, <1>5 DEF Disposable, Replaces
<1>8. Sound(obj', cached_objects', uncached_objects', handle, walk)
  BY <1>1, <1>6, <1>7, CleanedIs
<1> QED BY <1>2, <1>8 DEF IInv

-----------------------------------------------------------------------------
(* What clients do with their handles.                                     *)

LEMMA ReleasedIs ==
    ASSUME NEW hd \in [Handles -> Handle], NEW h \in Handles
    PROVE  LET hd2 == [hd EXCEPT ![h] = Released]
           IN  /\ hd2 \in [Handles -> Handle] /\ hd2[h].object = NoObject
               /\ \A k \in Handles : k # h => hd2[k] = hd[k]
<1>1. Released \in Handle /\ Released.object = NoObject
  BY LLCacheAssumption DEF Released, Handle, INIT, COMPLETE
<1> QED BY <1>1

LEMMA StreamFewer ==
    ASSUME NEW os, NEW cached, NEW hd, NEW hd2, StreamOK(os, cached, hd),
           \A k \in Handles : hd2[k].object = NoObject \/ hd2[k].object = hd[k].object
    PROVE  StreamOK(os, cached, hd2)
  BY LiveObject DEF StreamOK

(* The target of a loop is the handle of its object.                       *)
LEMMA TargetIs ==
    ASSUME IInv, NEW h \in Handles, h \in Held, IsTarget(h)
    PROVE  /\ walk.queued = FALSE /\ walk.object = handle[h].object /\ walk.in = TRUE
           /\ walk.kind # "none" /\ walk.user = h /\ Walking
<1>1. walk \in WalkType /\ WalkOK(obj, handle, walk) /\ Walking /\ walk.user = h /\ walk.in
  BY DEF IInv, Sound, IsTarget
<1>2. walk.queued = FALSE /\ walk.in = TRUE
  BY <1>1, WalkFields DEF WalkOK, Held
<1>3. h # NoHandle BY LLCacheAssumption
<1> QED BY <1>1, <1>2, <1>3, TargetHeld DEF Walking

LEMMA NotTarget ==
    ASSUME IInv, MayCall, NEW h \in Handles, ~IsTarget(h)
    PROVE  walk.kind # "none" => walk.user # h
  BY DEF MayCall, IsTarget, Walking

(* The handle is released, or moves on, and its user is removed.           *)
Lets(hd, h) ==
    /\ hd \in [Handles -> Handle] /\ hd[h].object = NoObject
    /\ \A k \in Handles : k # h => hd[k] = handle[k]

LEMMA HandleUnlinked ==
    ASSUME IInv, NEW h \in Handles, h \in Held, walk.kind # "none" => walk.user # h,
           NEW os2, NEW R, Unlinks(handle[h].object, h, R), Replaces(obj, os2, handle[h].object, R),
           NEW hd2, Lets(hd2, h), NEW m2, missed \ {h} \subseteq m2
    PROVE  /\ Sound(os2, cached_objects, uncached_objects, hd2, walk)
           /\ all_caught_up => CatchOK(os2, cached_objects, uncached_objects, hd2, walk, m2)
<1> DEFINE o == handle[h].object
<1>1. Sound(obj, cached_objects, uncached_objects, handle, walk) /\ missed \ {h} \subseteq m2
  BY DEF IInv
<1>2. /\ obj \in Shape /\ handle \in [Handles -> Handle] /\ walk \in WalkType
      /\ WalkOK(obj, handle, walk) /\ FlowsOK(obj, handle, walk) /\ UsersOK(obj, handle, walk)
      /\ StreamOK(obj, cached_objects, handle)
  BY <1>1 DEF Sound
<1>3. o \in LiveIn(obj) /\ o # NoObject /\ Holds(obj[o].users, h)
  BY <1>1, HeldLive
<1>4. /\ hd2 \in [Handles -> Handle] /\ hd2[h].object = NoObject
      /\ \A k \in Handles : k # h => hd2[k] = handle[k]
  BY DEF Lets
<1>5. \A k \in Handles : hd2[k].object # NoObject => k # h /\ hd2[k] = handle[k]
  BY <1>4
<1>6. \A k \in Handles : hd2[k].object = NoObject \/ hd2[k].object = handle[k].object
  BY <1>4
<1>7. Unlinks(o, h, R) /\ Replaces(obj, os2, o, R)
  OBVIOUS
<1>8. RelinkedSound(os2, cached_objects, uncached_objects, handle)
  BY <1>7, <1>1, RelinkFrame DEF Unlinks
<1>9. walk.kind # "none" => walk.user # h
  OBVIOUS
<1>10. LiveIn(os2) = LiveIn(obj) /\ os2 \in Shape
  BY <1>7 DEF Replaces
<1>11. \A p \in LiveIn(obj) :
                             /\ os2[p].state = obj[p].state /\ os2[p].source_len = obj[p].source_len
                             /\ os2[p].total = obj[p].total /\ os2[p].fetch = obj[p].fetch
                             /\ os2[p].late = obj[p].late
                             /\ Distinct(os2[p].users)
                             /\ \A y : Holds(os2[p].users, y) <=> Holds(obj[p].users, y) /\ ~(p = o /\ y = h)
                             /\ \A y, z : Before(obj[p].users, y, z) /\ y # h /\ z # h => Before(os2[p].users, y, z)
  <2> SUFFICES ASSUME NEW p \in LiveIn(obj)
               PROVE  /\ os2[p].state = obj[p].state /\ os2[p].source_len = obj[p].source_len
                      /\ os2[p].total = obj[p].total /\ os2[p].fetch = obj[p].fetch
                      /\ os2[p].late = obj[p].late
                      /\ Distinct(os2[p].users)
                      /\ \A y : Holds(os2[p].users, y) <=> Holds(obj[p].users, y) /\ ~(p = o /\ y = h)
                      /\ \A y, z : Before(obj[p].users, y, z) /\ y # h /\ z # h => Before(os2[p].users, y, z)
    OBVIOUS
  <2>1. CASE p = o BY <2>1, <1>7 DEF Replaces, Unlinks, Relinked
  <2>2. CASE p # o
    <3>1. os2[p] = obj[p] BY <2>2, <1>7, LiveObject DEF Replaces
    <3> QED BY <3>1, <2>2, <1>2 DEF UsersOK
  <2> QED BY <2>1, <2>2
<1>12. \A p \in LiveIn(obj) : \A y : Holds(obj[p].users, y) /\ y # h => Holds(os2[p].users, y)
  BY <1>11
<1>13. \A p \in LiveIn(obj) : \A y, z : Before(obj[p].users, y, z) /\ y # h /\ z # h => Before(os2[p].users, y, z)
  BY <1>11
<1>14. UsersOK(os2, hd2, walk)
  <2>1. ASSUME NEW k \in Handles, hd2[k].object # NoObject
        PROVE  hd2[k].object \in LiveIn(os2) /\ Holds(os2[hd2[k].object].users, k)
    <3>1. k # h /\ hd2[k] = handle[k] /\ handle[k].object # NoObject BY <2>1, <1>5
    <3>2. handle[k].object \in LiveIn(obj) /\ Holds(obj[handle[k].object].users, k)
      BY <3>1, <1>2 DEF UsersOK
    <3>3. Holds(os2[handle[k].object].users, k)
      BY <3>1, <3>2, <1>12
    <3> QED BY <3>1, <3>2, <3>3, <1>10
  <2>2. ASSUME NEW p \in LiveIn(os2), NEW u \in Handles \cup {Gone}, Holds(os2[p].users, u)
        PROVE  \/ u \in Handles /\ hd2[u].object = p
               \/ walk.queued /\ walk.user = u /\ walk.object = p
    <3>1. Holds(obj[p].users, u) /\ ~(p = o /\ u = h) BY <2>2, <1>10, <1>11
    <3>2. \/ u \in Handles /\ handle[u].object = p
          \/ walk.queued /\ walk.user = u /\ walk.object = p
      BY <3>1, <2>2, <1>10, <1>2 DEF UsersOK
    <3> QED BY <3>1, <3>2, <1>4
  <2> QED BY <2>1, <2>2, <1>10, <1>11 DEF UsersOK
<1>15. walk.kind # "none" => walk.object \in LiveIn(obj)
  BY <1>2 DEF WalkOK
<1>16. WalkOK(os2, hd2, walk)
  <2>1. walk.kind # "none" /\ walk.user # NoHandle => Holds(os2[walk.object].users, walk.user)
    BY <1>9, <1>15, <1>12, <1>2 DEF WalkOK
  <2>2. walk.kind = "notify" => os2[walk.object].state = obj[walk.object].state
    BY <1>15, <1>11
  <2>3. \A k \in Handles : handle[k].object = NoObject => hd2[k].object = NoObject
    BY <1>5
  <2> QED BY <2>1, <2>2, <2>3, <1>10, <1>15, <1>2 DEF WalkOK
<1>17. StreamOK(os2, cached_objects, hd2)
  BY <1>8, <1>6, StreamFewer DEF RelinkedSound
<1>18. FlowsOK(os2, hd2, walk)
  <2>1. \A k \in Handles : hd2[k].object # NoObject => FlowOK(hd2[k], os2[hd2[k].object])
    BY <1>8, <1>5 DEF RelinkedSound
  <2>2. walk.event # "none" => walk.kind # "none" /\ walk.object \in LiveIn(obj) /\ walk.user # h
    BY <1>9, <1>15, <1>2 DEF WalkOK
  <2>3. walk.event = "data" /\ os2[walk.object].source_len > walk.orig =>
           os2[walk.object].source_len = os2[walk.object].total
    BY <2>2, <1>11, <1>2 DEF FlowsOK
  <2>4. ASSUME walk.event = "done", ~walk.queued PROVE Balanced(hd2[walk.user], os2[walk.object])
    <3>1. Balanced(handle[walk.user], obj[walk.object]) /\ walk.object \in LiveIn(obj)
      BY <2>2, <2>4, <1>2 DEF FlowsOK
    <3>2. walk.user \in Handles /\ walk.user # h
      <4>1. walk.user # NoHandle /\ Walking BY <2>2, <2>4, <1>2 DEF WalkOK, Walking
      <4> QED BY <4>1, <2>2, <2>4, TargetHeld
    <3>3. hd2[walk.user] = handle[walk.user] BY <3>2, <1>4
    <3>4. Balanced(handle[walk.user], os2[walk.object])
      BY <3>1, <1>11 DEF Balanced
    <3> QED BY <3>3, <3>4
  <2>5. walk.kind = "redirect" => \A k \in Handles : hd2[k].object = walk.object => hd2[k].state # COMPLETE
    <3>1. walk.kind = "redirect" => walk.object # NoObject BY <1>15, LiveObject
    <3> QED BY <3>1, <1>2, <1>5 DEF FlowsOK
  <2> QED BY <2>1, <2>3, <2>4, <2>5 DEF FlowsOK
<1>19. ASSUME all_caught_up
       PROVE  CatchOK(os2, cached_objects, uncached_objects, hd2, walk, m2)
  <2>1. CatchOK(obj, cached_objects, uncached_objects, handle, walk, missed)
    BY <1>19 DEF IInv
  <2>2. ASSUME walk.kind \in {"none", "notify"}, NEW k \in Handles, hd2[k].object # NoObject, k \notin m2
        PROVE  \/ NoneDue(hd2[k], os2[hd2[k].object], os2[hd2[k].object].state)
               \/ Ahead(os2, cached_objects, uncached_objects, walk, k, hd2[k].object)
    <3> DEFINE p == handle[k].object
    <3>1. k # h /\ hd2[k] = handle[k] /\ k \notin missed /\ p # NoObject
      BY <2>2, <1>1, <1>5
    <3>2. p \in LiveIn(obj) BY <3>1, <1>2 DEF UsersOK
    <3>3. \/ NoneDue(handle[k], obj[p], obj[p].state)
          \/ Ahead(obj, cached_objects, uncached_objects, walk, k, p)
      BY <2>1, <2>2, <3>1 DEF CatchOK
    <3> HIDE DEF p
    <3>4. NoneDue(handle[k], obj[p], obj[p].state) => NoneDue(handle[k], os2[p], os2[p].state)
      BY <3>2, <1>11 DEF NoneDue
    <3>5. Ahead(obj, cached_objects, uncached_objects, walk, k, p) =>
          Ahead(os2, cached_objects, uncached_objects, walk, k, p)
      <4> SUFFICES ASSUME Ahead(obj, cached_objects, uncached_objects, walk, k, p)
                   PROVE  Ahead(os2, cached_objects, uncached_objects, walk, k, p)
        OBVIOUS
      <4>1. walk.user # h BY <1>9 DEF Ahead
      <4>2. Before(obj[p].users, walk.user, k) => Before(os2[p].users, walk.user, k)
        BY <4>1, <3>1, <3>2, <1>13
      <4> QED BY <4>2 DEF Ahead
    <3> QED BY <3>1, <3>3, <3>4, <3>5 DEF p
  <2>3. walk.kind = "notify" =>
           \/ walk.objstate = os2[walk.object].state
           \/ \A k \in Handles : hd2[k].object = walk.object => k \in m2
    <3>1. walk.kind = "notify" => walk.object \in LiveIn(obj) /\ walk.object # NoObject
      BY <1>15, LiveObject
    <3> QED BY <2>1, <3>1, <1>11, <1>1, <1>5 DEF CatchOK
  <2> QED BY <2>2, <2>3 DEF CatchOK
<1> QED BY <1>8, <1>10, <1>14, <1>16, <1>17, <1>18, <1>19, <1>2, <1>4
        DEF Sound, RelinkedSound

LEMMA ReleaseStep ==
    ASSUME IInv, NEW h \in Handles, llcache_handle_release(h)
    PROVE  IInv'
<1> DEFINE o == handle[h].object
           R == [obj[o] EXCEPT !.users = Without(@, h)]
<1>1. /\ Sound(obj, cached_objects, uncached_objects, handle, walk) /\ h \in Held /\ MayCall
      /\ cached_objects' = cached_objects /\ uncached_objects' = uncached_objects
      /\ handle' = [handle EXCEPT ![h] = Released] /\ missed' = missed \ {h}
      /\ all_caught_up' = all_caught_up /\ turns' \in 0..MaxTurns
      /\ missed' \in SUBSET Handles
  BY TurnIs DEF llcache_handle_release, MayCall, lists, IInv
<1>2. /\ obj \in Shape /\ handle \in [Handles -> Handle] /\ walk \in WalkType
      /\ WalkOK(obj, handle, walk) /\ FlowsOK(obj, handle, walk) /\ UsersOK(obj, handle, walk)
      /\ StreamOK(obj, cached_objects, handle)
  BY <1>1 DEF Sound
<1>3. o \in LiveIn(obj) /\ o # NoObject /\ Holds(obj[o].users, h)
  BY <1>1, HeldLive
<1>4. /\ handle' \in [Handles -> Handle] /\ handle'[h].object = NoObject
      /\ \A k \in Handles : k # h => handle'[k] = handle[k]
  BY <1>1, <1>2, ReleasedIs
<1>5. \A k \in Handles : handle'[k].object # NoObject => k # h /\ handle'[k] = handle[k]
  BY <1>4
<1>6. \A k \in Handles : handle'[k].object = NoObject \/ handle'[k].object = handle[k].object
  BY <1>4
<1>7. CASE IsTarget(h)
  <2>1. obj' = obj /\ walk' = [walk EXCEPT !.queued = TRUE]
    BY <1>7 DEF llcache_handle_release
  <2>2. /\ walk.queued = FALSE /\ walk.object = o /\ walk.in = TRUE
        /\ walk.kind # "none" /\ walk.user = h
    BY <1>1, <1>7, TargetIs
  <2>3. /\ walk' \in WalkType /\ walk'.kind = walk.kind /\ walk'.object = o
        /\ walk'.user = h /\ walk'.queued = TRUE /\ walk'.uncached = walk.uncached
        /\ walk'.objstate = walk.objstate /\ walk'.in = TRUE /\ walk'.event = walk.event
        /\ walk'.to = walk.to /\ walk'.orig = walk.orig
    BY <2>1, <2>2, <1>2 DEF WalkType
  <2>4. UsersOK(obj, handle', walk')
    <3>1. ASSUME NEW p \in LiveIn(obj), NEW u \in Handles \cup {Gone}, Holds(obj[p].users, u)
          PROVE  \/ u \in Handles /\ handle'[u].object = p
                 \/ walk'.queued /\ walk'.user = u /\ walk'.object = p
      BY <3>1, <2>2, <2>3, <1>2, <1>4 DEF UsersOK
    <3> QED BY <3>1, <1>2, <1>5 DEF UsersOK
  <2>5. WalkOK(obj, handle', walk')
    BY <2>2, <2>3, <1>2, <1>4 DEF WalkOK
  <2>6. StreamOK(obj, cached_objects, handle')
    BY <1>2, <1>6, StreamFewer
  <2>7. FlowsOK(obj, handle', walk')
    <3>1. \A k \in Handles : handle'[k].object # NoObject => FlowOK(handle'[k], obj[handle'[k].object])
      BY <1>2, <1>5 DEF FlowsOK
    <3>2. walk'.kind = "redirect" => \A k \in Handles : handle'[k].object = walk'.object => handle'[k].state # COMPLETE
      BY <2>2, <2>3, <1>2, <1>3, <1>5 DEF FlowsOK
    <3> QED BY <3>1, <3>2, <2>2, <2>3, <1>2 DEF FlowsOK
  <2>8. ASSUME all_caught_up
        PROVE  CatchOK(obj, cached_objects, uncached_objects, handle', walk', missed')
    <3>1. CatchOK(obj, cached_objects, uncached_objects, handle, walk, missed)
      BY <2>8 DEF IInv
    <3>2. ASSUME walk'.kind \in {"none", "notify"}, NEW k \in Handles, handle'[k].object # NoObject, k \notin missed'
          PROVE  \/ NoneDue(handle'[k], obj[handle'[k].object], obj[handle'[k].object].state)
                 \/ Ahead(obj, cached_objects, uncached_objects, walk', k, handle'[k].object)
      <4>1. k # h /\ handle'[k] = handle[k] /\ k \notin missed BY <3>2, <1>1, <1>5
      <4>2. \/ NoneDue(handle[k], obj[handle[k].object], obj[handle[k].object].state)
            \/ Ahead(obj, cached_objects, uncached_objects, walk, k, handle[k].object)
        BY <3>1, <3>2, <4>1, <2>3 DEF CatchOK
      <4> QED BY <4>1, <4>2, <2>2, <2>3, AheadFrame
    <3>3. walk'.kind = "notify" =>
             \/ walk'.objstate = obj[walk'.object].state
             \/ \A k \in Handles : handle'[k].object = walk'.object => k \in missed'
      BY <3>1, <2>2, <2>3, <1>1, <1>3, <1>5 DEF CatchOK
    <3> QED BY <3>2, <3>3 DEF CatchOK
  <2> QED BY <2>1, <2>3, <2>4, <2>5, <2>6, <2>7, <2>8, <1>1, <1>4 DEF IInv, Sound
<1>8. CASE ~IsTarget(h)
  <2>1. obj' = [obj EXCEPT ![o].users = Without(@, h)] /\ walk' = walk
    BY <1>8 DEF llcache_handle_release
  <2>2. Unlinks(o, h, R) /\ Replaces(obj, obj', o, R)
    BY <2>1, <1>1, <1>3, UnlinkIs
  <2> HIDE DEF R
  <2>3. walk.kind # "none" => walk.user # h
    BY <1>1, <1>8, NotTarget
  <2>4. missed \ {h} \subseteq missed'
    BY <1>1
  <2>5. /\ Sound(obj', cached_objects, uncached_objects, handle', walk)
        /\ all_caught_up => CatchOK(obj', cached_objects, uncached_objects, handle', walk, missed')
    <3>1. Lets(handle', h) BY <1>4 DEF Lets
    <3> QED BY <3>1, <2>2, <2>3, <2>4, <1>1, HandleUnlinked
  <2> QED BY <2>1, <2>5, <1>1 DEF IInv
<1> QED BY <1>7, <1>8


(* llcache_handle_force_stream.                                            *)
LEMMA ForceStreamStep ==
    ASSUME IInv, NEW h \in Handles, llcache_handle_force_stream(h)
    PROVE  IInv'
<1> DEFINE o == handle[h].object
           O == obj[o]
           R == [O EXCEPT !.stream = TRUE]
           rest == {p \in Live : \E i, j \in DOMAIN cached_objects :
                                    i < j /\ cached_objects[i] = o /\ cached_objects[j] = p}
<1>1. /\ Sound(obj, cached_objects, uncached_objects, handle, walk) /\ h \in Held
      /\ AllAlone(h) /\ IsTarget(h) /\ walk.kind = "notify"
      /\ obj' = [obj EXCEPT ![o].stream = TRUE]
      /\ IF OnCachedList(o)
         THEN /\ cached_objects' = Without(cached_objects, o)
              /\ uncached_objects' = <<o>> \o uncached_objects
              /\ missed' = missed \cup {k \in Held : handle[k].object \in rest}
         ELSE /\ cached_objects' = cached_objects /\ uncached_objects' = uncached_objects
              /\ missed' = missed
      /\ walk' = walk /\ handle' = handle
      /\ all_caught_up' = all_caught_up /\ turns' \in 0..MaxTurns
  BY TurnIs DEF llcache_handle_force_stream, MayCall, lists, IInv
<1>2. /\ obj \in Shape /\ handle \in [Handles -> Handle] /\ walk \in WalkType
      /\ WalkOK(obj, handle, walk) /\ FlowsOK(obj, handle, walk) /\ UsersOK(obj, handle, walk)
      /\ StreamOK(obj, cached_objects, handle) /\ ListsOK(obj, cached_objects, uncached_objects)
      /\ CandOK(obj)
  BY <1>1 DEF Sound
<1>3. /\ o \in LiveIn(obj) /\ o # NoObject /\ O \in Object /\ ObjectOK(O)
      /\ \A k \in Handles : handle[k].object = o => k = h
  BY <1>1, HeldLive, LiveObject, AloneIs DEF Sound
<1>4. walk.object = o
  BY <1>1, TargetIs
<1>5. rest = {p \in Live : Before(cached_objects, o, p)} /\ Live = LiveIn(obj)
  BY <1>2, LiveIs DEF Before
<1>6. OnCachedList(o) <=> Holds(cached_objects, o)
  BY DEF OnCachedList, Holds
<1>7. /\ cached_objects \in Seq(LiveIn(obj)) /\ uncached_objects \in Seq(LiveIn(obj))
      /\ Distinct(cached_objects) /\ Distinct(uncached_objects)
      /\ \A p \in LiveIn(obj) : Holds(cached_objects, p) <=> ~Holds(uncached_objects, p)
  BY <1>2 DEF ListsOK
<1>8. obj' = [obj EXCEPT ![o] = R] BY <1>1
<1> HIDE DEF rest, O, o
<1>9. Keeps(O, R, {"stream"}) /\ R.stream = TRUE
  BY <1>3, SetStream
<1>10. R \in Object BY <1>9 DEF Keeps
<1> HIDE DEF R
<1>11. Replaces(obj, obj', o, R)
  <2>1. Replaces(obj, [obj EXCEPT ![o] = R], o, R)
    BY <1>2, <1>3, <1>10, OneChanged
  <2> QED BY <2>1, <1>8
<1>12. LiveIn(obj') = LiveIn(obj) /\ obj' \in Shape
  BY <1>11 DEF Replaces
<1>13. \A p \in LiveIn(obj) : /\ Keeps(obj[p], obj'[p], {"stream"})
                              /\ p # o => obj'[p] = obj[p]
  <2> SUFFICES ASSUME NEW p \in LiveIn(obj)
               PROVE  Keeps(obj[p], obj'[p], {"stream"}) /\ (p # o => obj'[p] = obj[p])
    OBVIOUS
  <2>1. CASE p = o BY <2>1, <1>9, <1>11 DEF Replaces, O
  <2>2. CASE p # o BY <2>2, <1>11, LiveObject DEF Replaces, Keeps
  <2> QED BY <2>1, <2>2
<1>14. \A p \in LiveIn(obj) :
          /\ obj'[p].users = obj[p].users /\ obj'[p].state = obj[p].state
          /\ obj'[p].source_len = obj[p].source_len /\ obj'[p].total = obj[p].total
          /\ obj'[p].fetch = obj[p].fetch /\ obj'[p].late = obj[p].late
          /\ obj'[p].candidate = obj[p].candidate
          /\ obj'[p].candidate_count = obj[p].candidate_count
  BY <1>13 DEF Keeps, Names
<1>15. /\ cached_objects' \in Seq(LiveIn(obj)) /\ uncached_objects' \in Seq(LiveIn(obj))
       /\ Distinct(cached_objects') /\ Distinct(uncached_objects')
       /\ \A p : Holds(cached_objects', p) <=> Holds(cached_objects, p) /\ p # o
       /\ \A p : Holds(uncached_objects', p) <=> Holds(uncached_objects, p) \/ p = o
       /\ \A p : Holds(uncached_objects, p) /\ Holds(cached_objects, o) => Before(uncached_objects', o, p)
  <2>1. CASE OnCachedList(o)
    <3>1. ~Holds(uncached_objects, o) /\ Holds(cached_objects, o) BY <2>1, <1>3, <1>6, <1>7
    <3>2. /\ Without(cached_objects, o) \in Seq(LiveIn(obj)) /\ Distinct(Without(cached_objects, o))
          /\ \A p : Holds(Without(cached_objects, o), p) <=> Holds(cached_objects, p) /\ p # o
      BY <1>7, WithoutElements
    <3>3. /\ <<o>> \o uncached_objects \in Seq(LiveIn(obj)) /\ Distinct(<<o>> \o uncached_objects)
          /\ \A p : Holds(<<o>> \o uncached_objects, p) <=> Holds(uncached_objects, p) \/ p = o
          /\ \A p : Holds(uncached_objects, p) => Before(<<o>> \o uncached_objects, o, p)
      BY <3>1, <1>3, <1>7, ConsElements
    <3>4. cached_objects' = Without(cached_objects, o) /\ uncached_objects' = <<o>> \o uncached_objects
      BY <2>1, <1>1
    <3> QED BY <3>2, <3>3, <3>4
  <2>2. CASE ~OnCachedList(o)
    <3>1. Holds(uncached_objects, o) /\ ~Holds(cached_objects, o) BY <2>2, <1>3, <1>6, <1>7
    <3>2. cached_objects' = cached_objects /\ uncached_objects' = uncached_objects
      BY <2>2, <1>1
    <3> QED BY <3>1, <3>2, <1>7
  <2> QED BY <2>1, <2>2
<1>16. ListsOK(obj', cached_objects', uncached_objects')
  BY <1>7, <1>12, <1>15 DEF ListsOK
<1>17. UsersOK(obj', handle, walk)
  BY <1>2, <1>12, <1>14, UsersFrame
<1>18. walk.kind # "none" => walk.object \in LiveIn(obj)
  BY <1>2 DEF WalkOK
<1>19. WalkOK(obj', handle, walk)
  BY <1>2, <1>12, <1>14, <1>18 DEF WalkOK
<1>20. \A p \in LiveIn(obj') : ObjectOK(obj'[p])
  <2>1. ObjectOK(obj'[o])
    BY <1>3, <1>9, <1>11, <1>14 DEF ObjectOK, Replaces, O
  <2> QED BY <2>1, <1>1, <1>12, <1>13 DEF Sound
<1>21. StreamOK(obj', cached_objects', handle)
  BY <1>2, <1>3, <1>12, <1>13, <1>15 DEF StreamOK
<1>22. CandOK(obj')
  BY <1>2, <1>12, <1>14, CandFrame
<1>23. FlowsOK(obj', handle, walk)
  <2>1. \A p \in LiveIn(obj) : \A H : /\ FlowOK(H, obj[p]) <=> FlowOK(H, obj'[p])
                                      /\ Balanced(H, obj[p]) <=> Balanced(H, obj'[p])
    BY <1>14 DEF FlowOK, Balanced
  <2>2. walk.object \in LiveIn(obj) BY <1>3, <1>4
  <2>3. ASSUME NEW k \in Handles, handle[k].object # NoObject PROVE FlowOK(handle[k], obj'[handle[k].object])
    BY <2>1, <2>3, <1>2 DEF UsersOK, FlowsOK
  <2> QED BY <2>1, <2>2, <2>3, <1>2, <1>14 DEF FlowsOK
<1>24. ASSUME all_caught_up
       PROVE  CatchOK(obj', cached_objects', uncached_objects', handle, walk, missed')
  <2>1. CatchOK(obj, cached_objects, uncached_objects, handle, walk, missed)
    BY <1>24 DEF IInv
  <2>2. ASSUME NEW k \in Handles, handle[k].object # NoObject, k \notin missed'
        PROVE  \/ NoneDue(handle[k], obj'[handle[k].object], obj'[handle[k].object].state)
               \/ Ahead(obj', cached_objects', uncached_objects', walk, k, handle[k].object)
    <3> DEFINE p == handle[k].object
    <3>1. p \in LiveIn(obj) /\ k \notin missed
      BY <2>2, <1>1, <1>2 DEF UsersOK
    <3>2. \/ NoneDue(handle[k], obj[p], obj[p].state)
          \/ Ahead(obj, cached_objects, uncached_objects, walk, k, p)
      BY <2>1, <2>2, <3>1, <1>1 DEF CatchOK
    <3>3. Holds(cached_objects, o) => ~Before(cached_objects, o, p)
      <4> SUFFICES ASSUME Holds(cached_objects, o), Before(cached_objects, o, p) PROVE FALSE
        OBVIOUS
      <4>1. p \in rest BY <3>1, <1>5
      <4>2. k \in Held BY <2>2 DEF Held
      <4> QED BY <4>1, <4>2, <2>2, <1>1, <1>6
    <3> HIDE DEF p
    <3>4. NoneDue(handle[k], obj[p], obj[p].state) => NoneDue(handle[k], obj'[p], obj'[p].state)
      BY <3>1, <1>14 DEF NoneDue
    <3>5. ASSUME Ahead(obj, cached_objects, uncached_objects, walk, k, p)
          PROVE  Ahead(obj', cached_objects', uncached_objects', walk, k, p)
      <4>1. CASE Holds(cached_objects, o)
        <5>1. ~Holds(uncached_objects, o) BY <4>1, <1>3, <1>7
        <5>2. ~Before(uncached_objects, o, p) BY <5>1, OnlyListed
        <5> QED BY <5>2, <4>1, <3>1, <3>3, <3>5, <1>4, <1>14, <1>15 DEF Ahead
      <4>2. CASE ~Holds(cached_objects, o)
        <5>1. cached_objects' = cached_objects /\ uncached_objects' = uncached_objects
          BY <4>2, <1>1, <1>6
        <5> QED BY <5>1, <3>1, <3>5, <1>14 DEF Ahead
      <4> QED BY <4>1, <4>2
    <3> QED BY <3>2, <3>4, <3>5 DEF p
  <2>3. missed \subseteq missed' BY <1>1
  <2>4. \/ walk.objstate = obj'[walk.object].state
        \/ \A k \in Handles : handle[k].object = walk.object => k \in missed'
    BY <2>1, <2>3, <1>1, <1>3, <1>4, <1>14 DEF CatchOK
  <2> QED BY <2>2, <2>4 DEF CatchOK
<1>25. missed' \in SUBSET Handles
  BY <1>1 DEF IInv, Held
<1> QED BY <1>1, <1>2, <1>12, <1>16, <1>17, <1>19, <1>20, <1>21, <1>22, <1>23, <1>24, <1>25
        DEF IInv, Sound

-----------------------------------------------------------------------------
(* Objects are made.                                                       *)

LEMMA NewIdIs ==
    ASSUME obj \in Shape, HasRoom
    PROVE  NewId \in Objects /\ obj[NewId] = Free /\ NewId \notin LiveIn(obj)
<1>1. Unmade \in SUBSET Nat /\ Unmade # {} /\ Unmade \subseteq Objects
  BY LLCacheAssumption DEF HasRoom, Unmade
<1>2. \E o \in Unmade : \A p \in Unmade : o <= p
  BY <1>1, LeastOf
<1>3. NewId \in Unmade
  BY <1>2 DEF NewId
<1> QED BY <1>1, <1>3, NotObjects DEF Unmade, LiveIn

Adds(os, os2, id, R) ==
    /\ os2 \in Shape /\ id \in Objects /\ id \notin LiveIn(os) /\ R \in Object
    /\ LiveIn(os2) = LiveIn(os) \cup {id}
    /\ os2[id] = R /\ \A p \in Objects : p # id => os2[p] = os[p]

LEMMA AddIs ==
    ASSUME NEW os \in Shape, NEW id \in Objects, id \notin LiveIn(os), NEW R \in Object
    PROVE  Adds(os, [os EXCEPT ![id] = R], id, R)
<1> DEFINE os2 == [os EXCEPT ![id] = R]
<1>1. os2 \in Shape /\ os2[id] = R /\ \A p \in Objects : p # id => os2[p] = os[p]
  BY DEF Shape
<1> HIDE DEF os2
<1>2. LiveIn(os2) = LiveIn(os) \cup {id}
  BY <1>1 DEF LiveIn
<1> QED BY <1>1, <1>2 DEF os2, Adds

(* llcache_object_add_to_list.                                             *)
Linked(s, t, id) ==
    /\ \A p : Holds(t, p) <=> Holds(s, p) \/ p = id
    /\ \A x, y : Before(s, x, y) => Before(t, x, y)

LEMMA ListsAdd ==
    ASSUME NEW os, NEW os2, NEW id, NEW R, Adds(os, os2, id, R),
           NEW c, NEW u, ListsOK(os, c, u)
    PROVE  /\ ListsOK(os2, <<id>> \o c, u) /\ ListsOK(os2, c, <<id>> \o u)
           /\ Linked(c, <<id>> \o c, id) /\ Linked(u, <<id>> \o u, id)
           /\ ~Holds(c, id) /\ ~Holds(u, id)
<1> DEFINE L == LiveIn(os)
           L2 == LiveIn(os2)
<1>1. /\ c \in Seq(L) /\ u \in Seq(L) /\ Distinct(c) /\ Distinct(u)
      /\ \A o \in L : Holds(c, o) <=> ~Holds(u, o)
      /\ L2 = L \cup {id} /\ id \notin L
  BY DEF ListsOK, Adds
<1> HIDE DEF L, L2
<1>2. \A s \in Seq(L) : \A x : Holds(s, x) => x \in L
  BY LenProperties, ElementOfSeq DEF Holds
<1>3. ~Holds(c, id) /\ ~Holds(u, id)
  BY <1>1, <1>2
<1>4. c \in Seq(L2) /\ u \in Seq(L2) /\ id \in L2
  <2>1. (\A x : Holds(c, x) => x \in L2) /\ (\A x : Holds(u, x) => x \in L2)
    BY <1>1, <1>2
  <2> QED BY <2>1, <1>1, SeqNarrow
<1>5. /\ <<id>> \o c \in Seq(L2) /\ Distinct(<<id>> \o c)
      /\ \A y : Holds(<<id>> \o c, y) <=> Holds(c, y) \/ y = id
      /\ \A y, z : Before(c, y, z) => Before(<<id>> \o c, y, z)
  BY <1>1, <1>3, <1>4, ConsElements
<1>6. /\ <<id>> \o u \in Seq(L2) /\ Distinct(<<id>> \o u)
      /\ \A y : Holds(<<id>> \o u, y) <=> Holds(u, y) \/ y = id
      /\ \A y, z : Before(u, y, z) => Before(<<id>> \o u, y, z)
  BY <1>1, <1>3, <1>4, ConsElements
<1> DEFINE c2 == <<id>> \o c
           u2 == <<id>> \o u
<1> HIDE DEF c2, u2
<1>7. ListsOK(os2, c2, u)
  BY <1>1, <1>2, <1>3, <1>4, <1>5 DEF ListsOK, L2, c2
<1>8. ListsOK(os2, c, u2)
  BY <1>1, <1>2, <1>3, <1>4, <1>6 DEF ListsOK, L2, u2
<1> QED BY <1>3, <1>5, <1>6, <1>7, <1>8 DEF Linked, c2, u2

(* A new object that names no candidate.                                   *)
LEMMA CandAdd ==
    ASSUME NEW os, NEW os2, NEW id, NEW R, Adds(os, os2, id, R), CandOK(os),
           R.candidate = NoObject
    PROVE  CandOK(os2)
<1>1. LiveIn(os2) = LiveIn(os) \cup {id} /\ id \notin LiveIn(os)
      /\ \A p \in LiveIn(os) : os2[p] = os[p]
  BY LiveObject DEF Adds
<1>2. ASSUME NEW c \in Objects PROVE Namers(os2, c) = Namers(os, c)
  <2>1. c # NoObject BY LLCacheAssumption
  <2>2. os2[id].candidate = NoObject BY DEF Adds
  <2> QED BY <2>1, <2>2, <1>1 DEF Namers
<1> QED BY <1>1, <1>2 DEF CandOK

Created(N, stream) ==
    /\ N \in Object /\ N.users = <<>> /\ N.state = INIT /\ N.source_len = 0
    /\ N.total = 0 /\ N.fetch = TRUE /\ N.stream = stream /\ N.candidate = NoObject
    /\ N.candidate_count = 0 /\ N.late = FALSE

LEMMA NewObjectIs ==
    \A url \in Urls, force \in BOOLEAN, stream \in BOOLEAN : Created(NewObject(url, force, stream), stream)
<1> TAKE url \in Urls, force \in BOOLEAN, stream \in BOOLEAN
<1>1. 0 \in 0..Cardinality(Objects) /\ 0 \in 0..MaxLen
  BY LLCacheAssumption, FS_CardinalityType
<1>2. <<>> \in Seq(Handles \cup {Gone}) OBVIOUS
<1>3. NewObject(url, force, stream) \in Object
  BY <1>1, <1>2 DEF NewObject, Object, INIT, COMPLETE
<1> QED BY <1>3 DEF Created, NewObject

(* What a snapshot takes over.                                             *)
Snaps(O, S) ==
    /\ S \in Object /\ S.users = <<>> /\ S.state = COMPLETE /\ S.fetch = FALSE
    /\ S.stream = FALSE /\ S.candidate = NoObject
    /\ S.source_len = O.source_len /\ S.total = O.source_len
    /\ S.late = (O.late \/ O.stream)

LEMMA SnapshotIs ==
    ASSUME NEW o, obj[o] \in Object
    PROVE  Snaps(obj[o], Snapshot(o))
<1> DEFINE O == obj[o]
           l == O.late \/ O.stream
           n == O.source_len
           N == NewObject(O.url, FALSE, FALSE)
           A == [N EXCEPT !.fetch = FALSE]
           B == [A EXCEPT !.state = COMPLETE]
           C == [B EXCEPT !.timed = FALSE]
           D == [C EXCEPT !.source_len = n]
           E == [D EXCEPT !.total = n]
           F == [E EXCEPT !.late = l]
<1>1. Snapshot(o) = F
  BY DEF Snapshot
<1>2. n \in 0..MaxLen /\ l \in BOOLEAN /\ O.url \in Urls
      /\ FALSE \in BOOLEAN /\ COMPLETE \in INIT..COMPLETE
  BY ObjectFields DEF INIT, COMPLETE
<1>3. N \in Object /\ N.stream = FALSE /\ N.candidate = NoObject /\ N.users = <<>>
  <2>1. Created(N, FALSE) BY <1>2, NewObjectIs
  <2> QED BY <2>1 DEF Created
<1> HIDE DEF N, n, l
<1>4. Keeps(N, A, {"fetch"}) /\ A.fetch = FALSE
  BY <1>2, <1>3, SetFetch
<1>5. A \in Object BY <1>4 DEF Keeps
<1> HIDE DEF A
<1>6. Keeps(A, B, {"state"}) /\ B.state = COMPLETE
  BY <1>2, <1>5, SetState
<1>7. B \in Object BY <1>6 DEF Keeps
<1> HIDE DEF B
<1>8. Keeps(B, C, {"timed"})
  BY <1>2, <1>7, SetTimed
<1>9. C \in Object BY <1>8 DEF Keeps
<1> HIDE DEF C
<1>10. Keeps(C, D, {"source_len"}) /\ D.source_len = n
  BY <1>2, <1>9, SetSourceLen
<1>11. D \in Object BY <1>10 DEF Keeps
<1> HIDE DEF D
<1>12. Keeps(D, E, {"total"}) /\ E.total = n
  BY <1>2, <1>11, SetTotal
<1>13. E \in Object BY <1>12 DEF Keeps
<1> HIDE DEF E
<1>14. Keeps(E, F, {"late"}) /\ F.late = l
  BY <1>2, <1>13, SetLate
<1>15. F \in Object BY <1>14 DEF Keeps
<1> HIDE DEF F
<1>17. C.stream = FALSE /\ C.candidate = NoObject /\ C.fetch = FALSE /\ C.state = COMPLETE /\ C.users = <<>>
  BY <1>3, <1>4, <1>6, <1>8 DEF Keeps, Names
<1>18. /\ F \in Object /\ F.stream = C.stream /\ F.candidate = C.candidate /\ F.fetch = C.fetch
       /\ F.state = C.state /\ F.source_len = n /\ F.total = n /\ F.late = l /\ F.users = C.users
  BY <1>10, <1>12, <1>14 DEF Keeps, Names
<1> QED BY <1>1, <1>17, <1>18 DEF Snaps, n, l

-----------------------------------------------------------------------------
(* Objects are added to the lists, and handles to the users of an object.  *)

(* Only new objects, which have no users, and counts of candidates.        *)
Grows(os, os2, c, c2, u, u2) ==
    /\ os2 \in Shape /\ LiveIn(os) \subseteq LiveIn(os2)
    /\ \A p \in LiveIn(os) : Keeps(os[p], os2[p], {"candidate_count"})
    /\ \A p \in LiveIn(os2) \ LiveIn(os) : ObjectOK(os2[p]) /\ os2[p].users = <<>>
    /\ ListsOK(os2, c2, u2) /\ CandOK(os2)
    /\ \A p \in LiveIn(os) : (Holds(c2, p) <=> Holds(c, p)) /\ (Holds(u, p) => Holds(u2, p))
    /\ \A x, y : (Before(c, x, y) => Before(c2, x, y)) /\ (Before(u, x, y) => Before(u2, x, y))

LEMMA KeepsFlow ==
    ASSUME NEW O, NEW R, Keeps(O, R, {"candidate_count"})
    PROVE  /\ R.users = O.users /\ R.state = O.state /\ R.source_len = O.source_len
           /\ R.total = O.total /\ R.fetch = O.fetch /\ R.stream = O.stream /\ R.late = O.late
           /\ ObjectOK(O) => ObjectOK(R)
           /\ \A H : (FlowOK(H, O) => FlowOK(H, R)) /\ (Balanced(H, O) => Balanced(H, R))
<1>1. /\ R.users = O.users /\ R.state = O.state /\ R.source_len = O.source_len
      /\ R.total = O.total /\ R.fetch = O.fetch /\ R.stream = O.stream /\ R.late = O.late
  BY DEF Keeps, Names
<1>2. \A H : (FlowOK(H, O) => FlowOK(H, R)) /\ (Balanced(H, O) => Balanced(H, R))
  BY <1>1 DEF FlowOK, Balanced
<1> QED BY <1>1, <1>2 DEF ObjectOK

(* What the users of the old objects have is left alone.                   *)
LEMMA GrowsSound ==
    ASSUME NEW os, NEW os2, NEW c, NEW c2, NEW u, NEW u2, NEW hd, NEW w,
           Sound(os, c, u, hd, w), Grows(os, os2, c, c2, u, u2),
           \A p \in LiveIn(os2) \ LiveIn(os) : os2[p].stream => ~Holds(c2, p)
    PROVE  /\ Sound(os2, c2, u2, hd, w)
           /\ \A m : CatchOK(os, c, u, hd, w, m) => CatchOK(os2, c2, u2, hd, w, m)
<1>1. /\ os \in Shape /\ hd \in [Handles -> Handle] /\ w \in WalkType
      /\ UsersOK(os, hd, w) /\ WalkOK(os, hd, w) /\ FlowsOK(os, hd, w)
      /\ StreamOK(os, c, hd) /\ \A p \in LiveIn(os) : ObjectOK(os[p])
  BY DEF Sound
<1>2. /\ os2 \in Shape /\ LiveIn(os) \subseteq LiveIn(os2)
      /\ \A p \in LiveIn(os) : Keeps(os[p], os2[p], {"candidate_count"})
      /\ \A p \in LiveIn(os2) \ LiveIn(os) : ObjectOK(os2[p]) /\ os2[p].users = <<>>
      /\ ListsOK(os2, c2, u2) /\ CandOK(os2)
  BY DEF Grows
<1>3. /\ \A p \in LiveIn(os) : (Holds(c2, p) <=> Holds(c, p)) /\ (Holds(u, p) => Holds(u2, p))
      /\ \A x, y : (Before(c, x, y) => Before(c2, x, y)) /\ (Before(u, x, y) => Before(u2, x, y))
  BY DEF Grows
<1>4. \A p \in LiveIn(os) :
         /\ os2[p].users = os[p].users /\ os2[p].state = os[p].state
         /\ os2[p].source_len = os[p].source_len /\ os2[p].total = os[p].total
         /\ os2[p].stream = os[p].stream /\ os2[p].late = os[p].late /\ ObjectOK(os2[p])
  BY <1>1, <1>2, KeepsFlow
<1>5. \A p \in LiveIn(os) : \A H : (FlowOK(H, os[p]) => FlowOK(H, os2[p]))
                                   /\ (Balanced(H, os[p]) => Balanced(H, os2[p]))
  BY <1>2, KeepsFlow
<1>6. \A p \in LiveIn(os2) \ LiveIn(os) : (\A x : ~Holds(os2[p].users, x)) /\ Distinct(os2[p].users)
  BY <1>2 DEF Holds, Distinct
<1>7. \A h \in Handles : hd[h].object # NoObject => hd[h].object \in LiveIn(os)
  BY <1>1 DEF UsersOK
<1>8. w.kind # "none" => w.object \in LiveIn(os)
  BY <1>1 DEF WalkOK
<1>9. \A p \in LiveIn(os2) : p # NoObject /\ (p \in LiveIn(os) \/ p \in LiveIn(os2) \ LiveIn(os))
  BY LiveObject
<1>10. UsersOK(os2, hd, w)
  <2>1. \A p \in LiveIn(os2) : Distinct(os2[p].users)
    BY <1>1, <1>4, <1>6, <1>9 DEF UsersOK
  <2>2. ASSUME NEW h \in Handles, hd[h].object # NoObject
        PROVE  hd[h].object \in LiveIn(os2) /\ Holds(os2[hd[h].object].users, h)
    BY <2>2, <1>1, <1>2, <1>4 DEF UsersOK
  <2>3. ASSUME NEW p \in LiveIn(os2), NEW x \in Handles \cup {Gone}, Holds(os2[p].users, x)
        PROVE  \/ x \in Handles /\ hd[x].object = p
               \/ w.queued /\ w.user = x /\ w.object = p
    <3>1. p \in LiveIn(os) BY <2>3, <1>6
    <3>2. Holds(os[p].users, x) BY <3>1, <2>3, <1>4
    <3> QED BY <3>1, <3>2, <1>1 DEF UsersOK
  <2> QED BY <2>1, <2>2, <2>3 DEF UsersOK
<1>11. WalkOK(os2, hd, w)
  <2>1. w.kind # "none" => /\ w.object \in LiveIn(os2) /\ os2[w.object].users = os[w.object].users
                           /\ os2[w.object].state = os[w.object].state
    BY <1>2, <1>4, <1>8
  <2> QED BY <2>1, <1>1 DEF WalkOK
<1>12. \A p \in LiveIn(os2) : ObjectOK(os2[p])
  BY <1>2, <1>4, <1>9
<1>13. StreamOK(os2, c2, hd)
  <2> SUFFICES ASSUME NEW p \in LiveIn(os2), os2[p].stream, ~os2[p].late
               PROVE  /\ ~Holds(c2, p)
                      /\ \A h, k \in Handles : hd[h].object = p /\ hd[k].object = p => h = k
    BY DEF StreamOK
  <2>1. CASE p \in LiveIn(os)
    <3>1. os[p].stream /\ ~os[p].late BY <2>1, <1>4
    <3> QED BY <3>1, <2>1, <1>1, <1>3 DEF StreamOK
  <2>2. CASE p \notin LiveIn(os)
    <3>1. ~Holds(c2, p) BY <2>2
    <3>2. \A h \in Handles : hd[h].object # p BY <2>2, <1>7, <1>9
    <3> QED BY <3>1, <3>2
  <2> QED BY <2>1, <2>2
<1>14. FlowsOK(os2, hd, w)
  <2>1. \A h \in Handles : hd[h].object # NoObject => FlowOK(hd[h], os2[hd[h].object])
    BY <1>1, <1>5, <1>7 DEF FlowsOK
  <2>2. w.event # "none" => w.kind # "none" /\ w.object \in LiveIn(os)
    BY <1>1, <1>8 DEF WalkOK
  <2>3. w.event = "data" /\ os2[w.object].source_len > w.orig =>
           os2[w.object].source_len = os2[w.object].total
    BY <2>2, <1>1, <1>4 DEF FlowsOK
  <2>4. w.event = "done" /\ ~w.queued => Balanced(hd[w.user], os2[w.object])
    BY <2>2, <1>1, <1>5 DEF FlowsOK
  <2> QED BY <2>1, <2>3, <2>4, <1>1 DEF FlowsOK
<1>15. ASSUME NEW m, CatchOK(os, c, u, hd, w, m) PROVE CatchOK(os2, c2, u2, hd, w, m)
  <2>1. ASSUME w.kind \in {"none", "notify"}, NEW h \in Handles, hd[h].object # NoObject, h \notin m
        PROVE  \/ NoneDue(hd[h], os2[hd[h].object], os2[hd[h].object].state)
               \/ Ahead(os2, c2, u2, w, h, hd[h].object)
    <3> DEFINE p == hd[h].object
    <3>1. p \in LiveIn(os) BY <2>1, <1>7
    <3>2. NoneDue(hd[h], os[p], os[p].state) \/ Ahead(os, c, u, w, h, p)
      BY <2>1, <1>15 DEF CatchOK
    <3> HIDE DEF p
    <3>3. NoneDue(hd[h], os[p], os[p].state) => NoneDue(hd[h], os2[p], os2[p].state)
      BY <3>1, <1>4 DEF NoneDue
    <3>4. Ahead(os, c, u, w, h, p) => Ahead(os2, c2, u2, w, h, p)
      BY <3>1, <1>3, <1>4 DEF Ahead
    <3> QED BY <3>2, <3>3, <3>4 DEF p
  <2>2. w.kind = "notify" => \/ w.objstate = os2[w.object].state
                             \/ \A h \in Handles : hd[h].object = w.object => h \in m
    BY <1>15, <1>4, <1>8 DEF CatchOK
  <2> QED BY <2>1, <2>2 DEF CatchOK
<1>16. Sound(os2, c2, u2, hd, w)
  BY <1>1, <1>2, <1>10, <1>11, <1>12, <1>13, <1>14 DEF Sound
<1> QED BY <1>15, <1>16

(* llcache_object_add_user.                                                *)
Joins(O, h, R) ==
    /\ Keeps(O, R, {"users"}) /\ Distinct(R.users)
    /\ \A y : Holds(R.users, y) <=> Holds(O.users, y) \/ y = h
    /\ \A y, z : Before(O.users, y, z) => Before(R.users, y, z)

LEMMA JoinIs ==
    ASSUME NEW O \in Object, NEW h \in Handles, Distinct(O.users), ~Holds(O.users, h)
    PROVE  Joins(O, h, [O EXCEPT !.users = <<h>> \o @])
<1> DEFINE s == <<h>> \o O.users
<1>1. O.users \in Seq(Handles \cup {Gone}) /\ h \in Handles \cup {Gone}
  BY ObjectFields
<1>2. /\ s \in Seq(Handles \cup {Gone}) /\ Distinct(s)
      /\ \A y : Holds(s, y) <=> Holds(O.users, y) \/ y = h
      /\ \A y, z : Before(O.users, y, z) => Before(s, y, z)
  BY <1>1, ConsElements
<1> DEFINE R == [O EXCEPT !.users = s]
<1>3. [O EXCEPT !.users = <<h>> \o @] = R
  OBVIOUS
<1> HIDE DEF s
<1>4. Keeps(O, R, {"users"}) /\ R.users = s
  BY <1>2, SetUsers
<1> HIDE DEF R
<1> QED BY <1>2, <1>3, <1>4 DEF Joins

(* A handle that is no user yet.                                           *)
Newcomer(os, hd, h) ==
    /\ h \in Handles /\ hd[h].object = NoObject
    /\ \A p \in LiveIn(os) : ~Holds(os[p].users, h)

Takes(hd, hd2, h, H) ==
    /\ hd2 \in [Handles -> Handle] /\ H \in Handle /\ hd2[h] = H
    /\ \A k \in Handles : k # h => hd2[k] = hd[k]

LEMMA JoinsSound ==
    ASSUME NEW os, NEW os2, NEW c, NEW u, NEW hd, NEW hd2, NEW w, Sound(os, c, u, hd, w),
           NEW x, NEW R, Replaces(os, os2, x, R), NEW h, Newcomer(os, hd, h), Joins(os[x], h, R),
           NEW H, Takes(hd, hd2, h, H), H.object = x, FlowOK(H, os[x]),
           os[x].stream /\ ~os[x].late => os[x].users = <<>>,
           w.kind = "redirect" /\ w.object = x => H.state # COMPLETE
    PROVE  /\ Sound(os2, c, u, hd2, w)
           /\ \A m : CatchOK(os, c, u, hd, w, m) => CatchOK(os2, c, u, hd2, w, m \cup {h})
<1>1. /\ os \in Shape /\ hd \in [Handles -> Handle] /\ w \in WalkType
      /\ UsersOK(os, hd, w) /\ WalkOK(os, hd, w) /\ FlowsOK(os, hd, w)
      /\ StreamOK(os, c, hd)
  BY DEF Sound
<1>2. /\ os2 \in Shape /\ LiveIn(os2) = LiveIn(os) /\ x \in LiveIn(os) /\ x \in Objects /\ x # NoObject
      /\ os2[x] = R /\ \A p \in LiveIn(os) : p # x => os2[p] = os[p]
  BY LiveObject DEF Replaces
<1>3. Relinked(os[x], R)
  BY DEF Joins, Keeps, Names, Relinked
<1>4. RelinkedSound(os2, c, u, hd)
  BY <1>3, RelinkFrame
<1>5. h \in Handles /\ hd[h].object = NoObject /\ \A p \in LiveIn(os) : ~Holds(os[p].users, h)
  BY DEF Newcomer
<1>6. hd2 \in [Handles -> Handle] /\ H \in Handle /\ hd2[h] = H /\ \A k \in Handles : k # h => hd2[k] = hd[k]
  BY DEF Takes
<1>7. \A p \in LiveIn(os) : /\ \A y : Holds(os2[p].users, y) <=> Holds(os[p].users, y) \/ (p = x /\ y = h)
                            /\ Distinct(os2[p].users)
  <2> SUFFICES ASSUME NEW p \in LiveIn(os)
               PROVE  /\ \A y : Holds(os2[p].users, y) <=> Holds(os[p].users, y) \/ (p = x /\ y = h)
                      /\ Distinct(os2[p].users)
    OBVIOUS
  <2>1. CASE p = x BY <2>1, <1>2 DEF Joins
  <2>2. CASE p # x
    <3>1. os2[p] = os[p] BY <2>2, <1>2
    <3> QED BY <3>1, <2>2, <1>1 DEF UsersOK
  <2> QED BY <2>1, <2>2
<1>8. \A p \in LiveIn(os) :
         /\ os2[p].state = os[p].state /\ os2[p].source_len = os[p].source_len
         /\ os2[p].total = os[p].total /\ os2[p].stream = os[p].stream /\ os2[p].late = os[p].late
         /\ os2[p].fetch = os[p].fetch
  BY <1>2, <1>3 DEF Relinked
<1>9. \A p \in LiveIn(os) : \A K : (Balanced(K, os[p]) => Balanced(K, os2[p])) /\ (FlowOK(K, os[p]) => FlowOK(K, os2[p]))
  BY <1>8 DEF Balanced, FlowOK
<1>10. w.kind # "none" => w.object \in LiveIn(os) /\ w.user # h
  <2>1. h # NoHandle BY <1>5, LLCacheAssumption
  <2> QED BY <2>1, <1>1, <1>5 DEF WalkOK
<1>11. UsersOK(os2, hd2, w)
  <2>1. ASSUME NEW k \in Handles, hd2[k].object # NoObject
        PROVE  hd2[k].object \in LiveIn(os2) /\ Holds(os2[hd2[k].object].users, k)
    <3>1. CASE k = h BY <3>1, <1>2, <1>6, <1>7
    <3>2. CASE k # h
      <4>1. hd2[k] = hd[k] BY <3>2, <1>6
      <4>2. hd[k].object \in LiveIn(os) /\ Holds(os[hd[k].object].users, k)
        BY <4>1, <2>1, <1>1 DEF UsersOK
      <4> QED BY <4>1, <4>2, <1>2, <1>7
    <3> QED BY <3>1, <3>2
  <2>2. ASSUME NEW p \in LiveIn(os2), NEW y \in Handles \cup {Gone}, Holds(os2[p].users, y)
        PROVE  \/ y \in Handles /\ hd2[y].object = p
               \/ w.queued /\ w.user = y /\ w.object = p
    <3>0. p \in LiveIn(os) BY <1>2
    <3>1. CASE p = x /\ y = h BY <3>1, <1>5, <1>6
    <3>2. CASE ~(p = x /\ y = h)
      <4>1. Holds(os[p].users, y) BY <3>0, <3>2, <2>2, <1>7
      <4>2. y # h BY <4>1, <3>0, <1>5
      <4>3. \/ y \in Handles /\ hd[y].object = p
            \/ w.queued /\ w.user = y /\ w.object = p
        BY <4>1, <3>0, <1>1 DEF UsersOK
      <4> QED BY <4>2, <4>3, <1>6
    <3> QED BY <3>1, <3>2
  <2> QED BY <2>1, <2>2, <1>2, <1>7 DEF UsersOK
<1>12. WalkOK(os2, hd2, w)
  <2>1. w.kind # "none" => /\ w.object \in LiveIn(os2) /\ os2[w.object].state = os[w.object].state
                           /\ Holds(os[w.object].users, w.user) => Holds(os2[w.object].users, w.user)
    BY <1>2, <1>7, <1>8, <1>10
  <2>2. w.queued => w.kind # "none"
    BY <1>1 DEF WalkOK, NoWalk
  <2>3. w.queued => w.in /\ \A k \in Handles : w.user = k => hd2[k].object = NoObject
    BY <2>2, <1>1, <1>6, <1>10 DEF WalkOK
  <2> QED BY <2>1, <2>3, <1>1 DEF WalkOK
<1>13. StreamOK(os2, c, hd2)
  <2> SUFFICES ASSUME NEW p \in LiveIn(os2), os2[p].stream, ~os2[p].late
               PROVE  /\ ~Holds(c, p)
                      /\ \A i, k \in Handles : hd2[i].object = p /\ hd2[k].object = p => i = k
    BY DEF StreamOK
  <2>1. p \in LiveIn(os) /\ os[p].stream /\ ~os[p].late BY <1>2, <1>8
  <2>2. ~Holds(c, p) /\ \A i, k \in Handles : hd[i].object = p /\ hd[k].object = p => i = k
    BY <2>1, <1>1 DEF StreamOK
  <2>3. CASE p = x
    <3>1. \A y : ~Holds(os[x].users, y) BY <2>1, <2>3 DEF Holds
    <3>2. \A k \in Handles : hd[k].object # x BY <3>1, <1>1, <1>2 DEF UsersOK
    <3> QED BY <3>2, <2>2, <2>3, <1>6
  <2>4. CASE p # x
    BY <2>2, <2>4, <1>6
  <2> QED BY <2>3, <2>4
<1>14. FlowsOK(os2, hd2, w)
  <2>1. ASSUME NEW k \in Handles, hd2[k].object # NoObject PROVE FlowOK(hd2[k], os2[hd2[k].object])
    <3>1. CASE k = h BY <3>1, <1>2, <1>6, <1>9
    <3>2. CASE k # h
      <4>1. hd2[k] = hd[k] BY <3>2, <1>6
      <4> QED BY <4>1, <2>1, <1>4 DEF RelinkedSound
    <3> QED BY <3>1, <3>2
  <2>2. w.event # "none" => w.kind # "none" /\ w.object \in LiveIn(os)
    BY <1>1, <1>10 DEF WalkOK
  <2>3. w.event = "data" /\ os2[w.object].source_len > w.orig =>
           os2[w.object].source_len = os2[w.object].total
    BY <2>2, <1>1, <1>8 DEF FlowsOK
  <2>4. ASSUME w.event = "done", ~w.queued PROVE Balanced(hd2[w.user], os2[w.object])
    <3>1. Balanced(hd[w.user], os2[w.object])
      BY <2>2, <2>4, <1>1, <1>9 DEF FlowsOK
    <3>2. w.user \in Handles /\ w.user # h
      <4>1. w.user # NoHandle /\ w.kind # "none" /\ w.user \in Handles \cup {Gone, NoHandle}
        BY <2>2, <2>4, <1>1, WalkFields DEF WalkOK
      <4>2. Holds(os[w.object].users, w.user)
        BY <4>1, <1>1 DEF WalkOK
      <4>3. w.user \in Handles \cup {Gone} BY <4>1
      <4> QED BY <4>1, <4>2, <4>3, <2>2, <2>4, <1>1, <1>10 DEF UsersOK
    <3> QED BY <3>1, <3>2, <1>6
  <2>5. ASSUME w.kind = "redirect", NEW k \in Handles, hd2[k].object = w.object PROVE hd2[k].state # COMPLETE
    <3>1. CASE k = h BY <3>1, <2>5, <1>6
    <3>2. CASE k # h BY <3>2, <2>5, <1>1, <1>6 DEF FlowsOK
    <3> QED BY <3>1, <3>2
  <2> QED BY <2>1, <2>3, <2>4, <2>5 DEF FlowsOK
<1>15. ASSUME NEW m, CatchOK(os, c, u, hd, w, m)
       PROVE  CatchOK(os2, c, u, hd2, w, m \cup {h})
  <2>1. ASSUME w.kind \in {"none", "notify"}, NEW k \in Handles, hd2[k].object # NoObject, k \notin m \cup {h}
        PROVE  \/ NoneDue(hd2[k], os2[hd2[k].object], os2[hd2[k].object].state)
               \/ Ahead(os2, c, u, w, k, hd2[k].object)
    <3> DEFINE p == hd[k].object
    <3>1. hd2[k] = hd[k] /\ k \notin m BY <2>1, <1>6
    <3>2. NoneDue(hd[k], os[p], os[p].state) \/ Ahead(os, c, u, w, k, p)
      BY <3>1, <2>1, <1>15 DEF CatchOK
    <3>3. p \in LiveIn(os) BY <3>1, <2>1, <1>1 DEF UsersOK
    <3> HIDE DEF p
    <3>4. NoneDue(hd[k], os[p], os[p].state) => NoneDue(hd[k], os2[p], os2[p].state)
      BY <3>3, <1>8 DEF NoneDue
    <3>5. Before(os[p].users, w.user, k) => Before(os2[p].users, w.user, k)
      <4>1. CASE p = x BY <4>1, <1>2 DEF Joins
      <4>2. CASE p # x BY <4>2, <3>3, <1>2
      <4> QED BY <4>1, <4>2
    <3>6. Ahead(os, c, u, w, k, p) => Ahead(os2, c, u, w, k, p)
      BY <3>5 DEF Ahead
    <3> QED BY <3>1, <3>2, <3>4, <3>6 DEF p
  <2>2. w.kind = "notify" => \/ w.objstate = os2[w.object].state
                             \/ \A k \in Handles : hd2[k].object = w.object => k \in m \cup {h}
    BY <1>15, <1>6, <1>8, <1>10 DEF CatchOK
  <2> QED BY <2>1, <2>2 DEF CatchOK
<1>16. Sound(os2, c, u, hd2, w)
  BY <1>1, <1>2, <1>4, <1>6, <1>11, <1>12, <1>13, <1>14 DEF Sound, RelinkedSound
<1> QED BY <1>15, <1>16

(* A snapshot is added to the uncached objects.                            *)
LEMMA SnapshotGrows ==
    ASSUME NEW os \in Shape, NEW c, NEW u, ListsOK(os, c, u), CandOK(os),
           NEW id \in Objects, id \notin LiveIn(os), NEW O, NEW S, Snaps(O, S)
    PROVE  LET os2 == [os EXCEPT ![id] = S]
               u2 == <<id>> \o u
           IN  /\ Adds(os, os2, id, S) /\ Grows(os, os2, c, c, u, u2)
               /\ \A p \in LiveIn(os2) \ LiveIn(os) : os2[p].stream => ~Holds(c, p)
<1> DEFINE os2 == [os EXCEPT ![id] = S]
           u2 == <<id>> \o u
<1>1. S \in Object /\ S.users = <<>> /\ S.stream = FALSE /\ S.candidate = NoObject /\ ObjectOK(S)
  <2>1. S \in Object /\ S.fetch = FALSE /\ S.source_len = S.total BY DEF Snaps
  <2>2. ObjectOK(S) BY <2>1, ObjectFields DEF ObjectOK
  <2> QED BY <2>2 DEF Snaps
<1>2. Adds(os, os2, id, S)
  BY <1>1, AddIs
<1> HIDE DEF os2
<1>3. /\ ListsOK(os2, c, u2) /\ Linked(u, u2, id) /\ ~Holds(c, id)
  BY <1>2, ListsAdd
<1>4. CandOK(os2)
  BY <1>1, <1>2, CandAdd
<1> HIDE DEF u2
<1>5. /\ os2 \in Shape /\ LiveIn(os2) = LiveIn(os) \cup {id} /\ os2[id] = S
      /\ \A p \in LiveIn(os) : os2[p] = os[p] /\ os[p] \in Object
  BY <1>2, LiveObject DEF Adds
<1>6. \A p \in LiveIn(os) : Keeps(os[p], os2[p], {"candidate_count"})
  BY <1>5 DEF Keeps
<1>7. \A p \in LiveIn(os2) \ LiveIn(os) : p = id
  BY <1>5
<1>8. Grows(os, os2, c, c, u, u2)
  BY <1>1, <1>3, <1>4, <1>5, <1>6, <1>7 DEF Grows, Linked
<1> QED BY <1>1, <1>2, <1>5, <1>7, <1>8 DEF os2, u2

(* The handle becomes the only user of the snapshot.                       *)
LEMMA SnapshotTaken ==
    ASSUME NEW os, NEW c, NEW u, NEW hd, NEW w, Sound(os, c, u, hd, w),
           NEW id \in Objects, id \notin LiveIn(os), NEW O, NEW S, Snaps(O, S),
           NEW h, Newcomer(os, hd, h), NEW H, NEW hd2, Takes(hd, hd2, h, H),
           H.object = id, FlowOK(H, S), NEW T, T = [S EXCEPT !.users = <<h>>],
           NEW os3, os3 = [os EXCEPT ![id] = T]
    PROVE  /\ Sound(os3, c, <<id>> \o u, hd2, w)
           /\ \A m : CatchOK(os, c, u, hd, w, m) => CatchOK(os3, c, <<id>> \o u, hd2, w, m \cup {h})
<1> DEFINE os2 == [os EXCEPT ![id] = S]
           u2 == <<id>> \o u
<1>1. os \in Shape /\ ListsOK(os, c, u) /\ CandOK(os) /\ WalkOK(os, hd, w)
  BY DEF Sound
<1>2. /\ Adds(os, os2, id, S) /\ Grows(os, os2, c, c, u, u2)
      /\ \A p \in LiveIn(os2) \ LiveIn(os) : os2[p].stream => ~Holds(c, p)
  BY <1>1, SnapshotGrows
<1>3. S \in Object /\ S.users = <<>> /\ S.stream = FALSE /\ ~Holds(S.users, h) /\ Distinct(S.users)
  BY DEF Snaps, Holds, Distinct
<1>4. h \in Handles BY DEF Newcomer
<1>5. Joins(S, h, T)
  <2>1. T = [S EXCEPT !.users = <<h>> \o @]
    <3>1. <<h>> \o <<>> = <<h>> OBVIOUS
    <3> QED BY <3>1, <1>3
  <2>2. Joins(S, h, [S EXCEPT !.users = <<h>> \o @])
    BY <1>3, <1>4, JoinIs
  <2> QED BY <2>1, <2>2
<1>6. T \in Object BY <1>5 DEF Joins, Keeps
<1>7. os3 = [os2 EXCEPT ![id] = T] BY <1>1 DEF Shape
<1> HIDE DEF os2, u2
<1>8. os2 \in Shape /\ id \in LiveIn(os2) /\ os2[id] = S /\ LiveIn(os2) = LiveIn(os) \cup {id}
      /\ \A p \in LiveIn(os) : os2[p] = os[p]
  BY <1>2, LiveObject DEF Adds
<1>9. Replaces(os2, os3, id, T)
  <2>1. Replaces(os2, [os2 EXCEPT ![id] = T], id, T)
    BY <1>6, <1>8, OneChanged, Zenon
  <2> QED BY <2>1, <1>7
<1>10. /\ Sound(os2, c, u2, hd, w)
       /\ \A m : CatchOK(os, c, u, hd, w, m) => CatchOK(os2, c, u2, hd, w, m)
  BY <1>2, GrowsSound
<1>11. Newcomer(os2, hd, h)
  BY <1>3, <1>8 DEF Newcomer
<1>12. Joins(os2[id], h, T) /\ FlowOK(H, os2[id]) /\ (os2[id].stream /\ ~os2[id].late => os2[id].users = <<>>)
  BY <1>3, <1>5, <1>8
<1>13. w.kind = "redirect" /\ w.object = id => H.state # COMPLETE
  BY <1>1 DEF WalkOK
<1>14. /\ Sound(os3, c, u2, hd2, w)
       /\ \A m : CatchOK(os2, c, u2, hd, w, m) => CatchOK(os3, c, u2, hd2, w, m \cup {h})
  BY <1>9, <1>10, <1>11, <1>12, <1>13, JoinsSound
<1> QED BY <1>10, <1>14 DEF u2

(* hlcache_handle_abort, with its clone.                                   *)
LEMMA CloneAndAbortStep ==
    ASSUME IInv, NEW h \in Handles, NEW clone \in Handles, CloneAndAbort(h, clone)
    PROVE  IInv'
<1> DEFINE o == handle[h].object
           S == Snapshot(o)
           T == [S EXCEPT !.users = <<clone>>]
           done == handle[h].state = COMPLETE
           got == IF done THEN obj[o].source_len ELSE 0
           id == NewId
           H == [Released EXCEPT !.object = id, !.state = handle[h].state, !.got = got]
<1>1. /\ Sound(obj, cached_objects, uncached_objects, handle, walk)
      /\ h \in Held /\ clone \notin Held /\ HasRoom
      /\ \A p \in Live : clone \notin Range(obj[p].users)
      /\ obj' = [obj EXCEPT ![id] = T] /\ uncached_objects' = <<id>> \o uncached_objects
      /\ handle' = [handle EXCEPT ![clone] = H] /\ missed' = missed \cup {clone}
      /\ cached_objects' = cached_objects /\ all_caught_up' = all_caught_up /\ walk' = walk
      /\ turns' \in 0..MaxTurns /\ missed \in SUBSET Handles /\ all_caught_up \in BOOLEAN
  BY TurnIs DEF CloneAndAbort, MayCall, IInv
<1>2. obj \in Shape /\ handle \in [Handles -> Handle]
  BY <1>1 DEF Sound
<1>3. id \in Objects /\ id \notin LiveIn(obj)
  BY <1>1, <1>2, NewIdIs
<1>4. o \in LiveIn(obj) /\ obj[o] \in Object
  BY <1>1, HeldLive, LiveObject
<1>5. Snaps(obj[o], S)
  BY <1>4, SnapshotIs
<1>6. Newcomer(obj, handle, clone)
  BY <1>1, <1>2, LiveIs, InRange DEF Newcomer, Held
<1>7. got \in 0..MaxLen /\ handle[h].state \in 0..3 /\ obj[o].source_len \in 0..MaxLen
  BY <1>2, <1>4, ObjectFields, HandleFields, LLCacheAssumption
<1> HIDE DEF id, S
<1>8. H \in Handle /\ H.object = id /\ H.state = handle[h].state /\ H.bytes = 0 /\ H.got = got
  <2> HIDE DEF got
  <2>1. H = [object |-> id, state |-> handle[h].state, bytes |-> 0, got |-> got]
    <3> DEFINE st == handle[h].state
               A == [Released EXCEPT !.object = id]
               B == [A EXCEPT !.state = st]
    <3>1. H = [B EXCEPT !.got = got] OBVIOUS
    <3> HIDE DEF H, st
    <3>2. A = [object |-> id, state |-> INIT, bytes |-> 0, got |-> 0]
      BY DEF Released
    <3> HIDE DEF A
    <3>3. B = [object |-> id, state |-> st, bytes |-> 0, got |-> 0]
      BY <3>2
    <3> HIDE DEF B
    <3> QED BY <3>1, <3>3 DEF st
  <2>2. 0 \in 0..MaxLen BY LLCacheAssumption
  <2>3. handle[h].state \in INIT..COMPLETE /\ id \in Objects \cup {NoObject}
    BY <1>3, <1>7 DEF INIT, COMPLETE
  <2> HIDE DEF H
  <2> QED BY <2>1, <2>2, <2>3, <1>7 DEF Handle
<1>9. FlowOK(H, S)
  <2>1. /\ S.state = COMPLETE /\ S.fetch = FALSE /\ S.source_len = obj[o].source_len
        /\ S.total = obj[o].source_len
    BY <1>5 DEF Snaps
  <2> HIDE DEF H
  <2> QED BY <2>1, <1>7, <1>8, LLCacheAssumption DEF FlowOK, Balanced
<1> HIDE DEF H
<1>10. Takes(handle, handle', clone, H)
  BY <1>1, <1>2, <1>8 DEF Takes
<1> DEFINE os3 == obj'
           hd2 == handle'
           u == uncached_objects
<1>11. T = [S EXCEPT !.users = <<clone>>] /\ os3 = [obj EXCEPT ![id] = T]
  BY <1>1
<1> HIDE DEF T, os3, hd2, u
<1>12. /\ Sound(os3, cached_objects, <<id>> \o u, hd2, walk)
       /\ \A m : CatchOK(obj, cached_objects, u, handle, walk, m) =>
                    CatchOK(os3, cached_objects, <<id>> \o u, hd2, walk, m \cup {clone})
  BY <1>1, <1>3, <1>5, <1>6, <1>8, <1>9, <1>10, <1>11, SnapshotTaken DEF hd2, u
<1>13. missed' \in SUBSET Handles BY <1>1
<1>14. all_caught_up => CatchOK(obj, cached_objects, u, handle, walk, missed)
  BY DEF IInv, u
<1> QED BY <1>1, <1>12, <1>13, <1>14 DEF IInv, os3, hd2, u

(* A user that a loop is at stays behind without its handle.               *)
StaysBehind(o, h, R) ==
    LET s == obj[o].users
    IN  /\ R \in Object /\ Relinked(obj[o], R) /\ Distinct(R.users)
        /\ \A y : Holds(R.users, y) <=> (Holds(s, y) /\ y # h) \/ y = Gone
        /\ \A y : Before(s, h, y) => Before(R.users, Gone, y)

Queues(w) ==
    /\ w \in WalkType /\ w.kind = walk.kind /\ w.object = walk.object
    /\ w.user = Gone /\ w.queued = TRUE /\ w.uncached = walk.uncached
    /\ w.objstate = walk.objstate /\ w.in = walk.in /\ w.event = walk.event
    /\ w.to = walk.to /\ w.orig = walk.orig

LEMMA HandleLeft ==
    ASSUME IInv, NEW h \in Handles, h \in Held, IsTarget(h),
           NEW os2, NEW R, StaysBehind(handle[h].object, h, R), Replaces(obj, os2, handle[h].object, R),
           NEW hd2, Lets(hd2, h), NEW m2, missed \ {h} \subseteq m2, NEW w2, Queues(w2)
    PROVE  /\ Sound(os2, cached_objects, uncached_objects, hd2, w2)
           /\ all_caught_up => CatchOK(os2, cached_objects, uncached_objects, hd2, w2, m2)
<1> DEFINE o == handle[h].object
<1>1. Sound(obj, cached_objects, uncached_objects, handle, walk) /\ missed \ {h} \subseteq m2
  BY DEF IInv
<1>2. /\ obj \in Shape /\ handle \in [Handles -> Handle] /\ walk \in WalkType
      /\ WalkOK(obj, handle, walk) /\ FlowsOK(obj, handle, walk) /\ UsersOK(obj, handle, walk)
  BY <1>1 DEF Sound
<1>3. o \in LiveIn(obj) /\ o # NoObject /\ Holds(obj[o].users, h)
  BY <1>1, HeldLive
<1>4. /\ hd2 \in [Handles -> Handle] /\ hd2[h].object = NoObject
      /\ \A k \in Handles : k # h => hd2[k] = handle[k]
  BY DEF Lets
<1>5. \A k \in Handles : hd2[k].object # NoObject => k # h /\ hd2[k] = handle[k]
  BY <1>4
<1>6. \A k \in Handles : hd2[k].object = NoObject \/ hd2[k].object = handle[k].object
  BY <1>4
<1>7. /\ walk.queued = FALSE /\ walk.object = o /\ walk.in = TRUE
      /\ walk.kind # "none" /\ walk.user = h
  BY <1>1, TargetIs
<1>8. StaysBehind(o, h, R) /\ Replaces(obj, os2, o, R)
  OBVIOUS
<1>9. RelinkedSound(os2, cached_objects, uncached_objects, handle)
  BY <1>8, <1>1, RelinkFrame DEF StaysBehind
<1>10. /\ w2 \in WalkType /\ w2.kind = walk.kind /\ w2.object = o /\ w2.user = Gone
       /\ w2.queued = TRUE /\ w2.uncached = walk.uncached /\ w2.objstate = walk.objstate
       /\ w2.in = TRUE /\ w2.event = walk.event /\ w2.to = walk.to /\ w2.orig = walk.orig
  BY <1>7 DEF Queues
<1>11. LiveIn(os2) = LiveIn(obj) /\ os2 \in Shape /\ \A p \in LiveIn(obj) : p # o => os2[p] = obj[p]
  BY <1>8, LiveObject DEF Replaces
<1>12. /\ os2[o].state = obj[o].state /\ os2[o].source_len = obj[o].source_len
       /\ os2[o].total = obj[o].total /\ Distinct(os2[o].users)
       /\ \A y : Holds(os2[o].users, y) <=> (Holds(obj[o].users, y) /\ y # h) \/ y = Gone
       /\ \A y : Before(obj[o].users, h, y) => Before(os2[o].users, Gone, y)
  BY <1>8 DEF Replaces, StaysBehind, Relinked
<1>13. Gone \notin Handles /\ Gone # NoHandle
  BY LLCacheAssumption
<1>14. UsersOK(os2, hd2, w2)
  <2>1. ASSUME NEW p \in LiveIn(os2) PROVE Distinct(os2[p].users)
    BY <1>2, <1>11, <1>12 DEF UsersOK
  <2>2. ASSUME NEW k \in Handles, hd2[k].object # NoObject
        PROVE  hd2[k].object \in LiveIn(os2) /\ Holds(os2[hd2[k].object].users, k)
    <3>1. k # h /\ hd2[k] = handle[k] BY <2>2, <1>5
    <3>2. handle[k].object \in LiveIn(obj) /\ Holds(obj[handle[k].object].users, k)
      BY <3>1, <2>2, <1>2 DEF UsersOK
    <3>3. Holds(os2[handle[k].object].users, k)
      <4>1. CASE handle[k].object = o BY <4>1, <3>1, <3>2, <1>12
      <4>2. CASE handle[k].object # o BY <4>2, <3>2, <1>11
      <4> QED BY <4>1, <4>2
    <3> QED BY <3>1, <3>2, <3>3, <1>11
  <2>3. ASSUME NEW p \in LiveIn(os2), NEW u \in Handles \cup {Gone}, Holds(os2[p].users, u)
        PROVE  \/ u \in Handles /\ hd2[u].object = p
               \/ w2.queued /\ w2.user = u /\ w2.object = p
    <3>0. p \in LiveIn(obj) BY <1>11
    <3>1. CASE p = o /\ u = Gone BY <3>1, <1>10
    <3>2. CASE ~(p = o /\ u = Gone)
      <4>1. Holds(obj[p].users, u) /\ ~(p = o /\ u = h)
        BY <3>0, <3>2, <2>3, <1>11, <1>12
      <4>2. u \in Handles /\ handle[u].object = p
        BY <4>1, <3>0, <1>2, <1>7 DEF UsersOK
      <4>3. u # h BY <4>1, <4>2
      <4> QED BY <4>2, <4>3, <1>4
    <3> QED BY <3>1, <3>2
  <2> QED BY <2>1, <2>2, <2>3 DEF UsersOK
<1>15. WalkOK(os2, hd2, w2)
  <2>1. w2.object \in LiveIn(os2) /\ Holds(os2[w2.object].users, w2.user)
    BY <1>3, <1>10, <1>11, <1>12
  <2>2. os2[w2.object].state = obj[walk.object].state
    BY <1>7, <1>10, <1>12
  <2>3. \A k \in Handles : w2.user # k
    BY <1>10, <1>13
  <2> QED BY <2>1, <2>2, <2>3, <1>2, <1>7, <1>10, <1>13 DEF WalkOK
<1>16. StreamOK(os2, cached_objects, hd2)
  BY <1>9, <1>6, StreamFewer DEF RelinkedSound
<1>17. FlowsOK(os2, hd2, w2)
  <2>1. \A k \in Handles : hd2[k].object # NoObject => FlowOK(hd2[k], os2[hd2[k].object])
    BY <1>9, <1>5 DEF RelinkedSound
  <2>2. w2.event = "data" /\ os2[w2.object].source_len > w2.orig =>
           os2[w2.object].source_len = os2[w2.object].total
    BY <1>2, <1>7, <1>10, <1>12 DEF FlowsOK
  <2>3. w2.kind = "redirect" => \A k \in Handles : hd2[k].object = w2.object => hd2[k].state # COMPLETE
    BY <1>2, <1>3, <1>5, <1>7, <1>10 DEF FlowsOK
  <2> QED BY <2>1, <2>2, <2>3, <1>10 DEF FlowsOK
<1>18. ASSUME all_caught_up
       PROVE  CatchOK(os2, cached_objects, uncached_objects, hd2, w2, m2)
  <2>1. CatchOK(obj, cached_objects, uncached_objects, handle, walk, missed)
    BY <1>18 DEF IInv
  <2>2. ASSUME w2.kind \in {"none", "notify"}, NEW k \in Handles, hd2[k].object # NoObject, k \notin m2
        PROVE  \/ NoneDue(hd2[k], os2[hd2[k].object], os2[hd2[k].object].state)
               \/ Ahead(os2, cached_objects, uncached_objects, w2, k, hd2[k].object)
    <3> DEFINE p == handle[k].object
    <3>1. k # h /\ hd2[k] = handle[k] /\ k \notin missed /\ p # NoObject
      BY <2>2, <1>1, <1>5
    <3>2. p \in LiveIn(obj) BY <3>1, <1>2 DEF UsersOK
    <3>3. \/ NoneDue(handle[k], obj[p], obj[p].state)
          \/ Ahead(obj, cached_objects, uncached_objects, walk, k, p)
      BY <2>1, <2>2, <3>1, <1>10 DEF CatchOK
    <3> HIDE DEF p
    <3>4. NoneDue(handle[k], obj[p], obj[p].state) => NoneDue(handle[k], os2[p], os2[p].state)
      BY <3>2, <1>11, <1>12 DEF NoneDue
    <3>5. Ahead(obj, cached_objects, uncached_objects, walk, k, p) =>
          Ahead(os2, cached_objects, uncached_objects, w2, k, p)
      BY <3>1, <1>7, <1>10, <1>12 DEF Ahead
    <3> QED BY <3>1, <3>3, <3>4, <3>5 DEF p
  <2>3. w2.kind = "notify" =>
           \/ w2.objstate = os2[w2.object].state
           \/ \A k \in Handles : hd2[k].object = w2.object => k \in m2
    BY <2>1, <1>1, <1>3, <1>5, <1>7, <1>10, <1>12 DEF CatchOK
  <2> QED BY <2>2, <2>3 DEF CatchOK
<1> QED BY <1>2, <1>4, <1>9, <1>10, <1>11, <1>14, <1>15, <1>16, <1>17, <1>18
        DEF Sound, RelinkedSound

(* What the handle has had of the object it has had of the snapshot.       *)
LEMMA FlowSnapshot ==
    ASSUME NEW H \in Handle, NEW O \in Object, ObjectOK(O), FlowOK(H, O), NEW S, Snaps(O, S)
    PROVE  FlowOK(H, S)
<1>1. /\ S.state = COMPLETE /\ S.fetch = FALSE /\ S.source_len = O.source_len
      /\ S.total = O.source_len /\ S.late = (O.late \/ O.stream)
  BY DEF Snaps
<1>2. ~S.late => O.source_len = O.total /\ ~O.late
  BY <1>1 DEF ObjectOK
<1>3. H.state = COMPLETE => S.late \/ H.got = S.total
  BY <1>1, <1>2 DEF FlowOK
<1>4. ASSUME H.state # COMPLETE PROVE Balanced(H, S)
  <2>1. Balanced(H, O) BY <1>4 DEF FlowOK
  <2>2. /\ O.total \in 0..MaxLen /\ O.source_len \in 0..MaxLen /\ H.got \in 0..MaxLen
        /\ H.bytes \in 0..MaxLen /\ MaxLen \in Nat
    BY ObjectFields, HandleFields, LLCacheAssumption
  <2>3. H.got + S.source_len <= MaxLen + H.bytes
    BY <2>1, <2>2, <1>1 DEF Balanced
  <2>4. ~S.late => H.got + S.source_len = S.total + H.bytes /\ H.bytes <= S.source_len
    BY <2>1, <2>2, <1>1, <1>2 DEF Balanced
  <2> QED BY <2>3, <2>4, <1>1 DEF Balanced
<1> QED BY <1>1, <1>3, <1>4 DEF FlowOK

(* llcache_handle_abort by one of several users.                           *)
LEMMA AbortToSnapshotStep ==
    ASSUME IInv, NEW h \in Handles, AbortToSnapshot(h)
    PROVE  IInv'
<1> DEFINE o == handle[h].object
           S == Snapshot(o)
           T == [S EXCEPT !.users = <<h>>]
           id == NewId
           s == obj[o].users
           left == [i \in DOMAIN s |-> IF s[i] = h THEN Gone ELSE s[i]]
           H == [handle[h] EXCEPT !.object = id]
           hd1 == [handle EXCEPT ![h] = Released]
<1>1. /\ Sound(obj, cached_objects, uncached_objects, handle, walk)
      /\ h \in Held /\ HasRoom /\ MayCall
      /\ obj' = [obj EXCEPT ![id] = T, ![o].users = IF IsTarget(h) THEN left ELSE Without(@, h)]
      /\ uncached_objects' = <<id>> \o uncached_objects
      /\ handle' = [handle EXCEPT ![h].object = id] /\ missed' = missed \cup {h}
      /\ walk' = IF IsTarget(h) THEN [walk EXCEPT !.user = Gone, !.queued = TRUE] ELSE walk
      /\ cached_objects' = cached_objects /\ all_caught_up' = all_caught_up
      /\ turns' \in 0..MaxTurns /\ missed \in SUBSET Handles /\ all_caught_up \in BOOLEAN
  BY TurnIs DEF AbortToSnapshot, MayCall, IInv
<1>2. /\ obj \in Shape /\ handle \in [Handles -> Handle] /\ handle[h] \in Handle /\ walk \in WalkType
      /\ UsersOK(obj, handle, walk) /\ FlowsOK(obj, handle, walk) /\ WalkOK(obj, handle, walk)
      /\ \A p \in LiveIn(obj) : ObjectOK(obj[p])
  BY <1>1 DEF Sound
<1>3. id \in Objects /\ id \notin LiveIn(obj)
  BY <1>1, <1>2, NewIdIs
<1>4. o \in LiveIn(obj) /\ obj[o] \in Object /\ o # id /\ o \in Objects /\ o # NoObject /\ Holds(s, h)
  BY <1>1, <1>3, HeldLive, LiveObject
<1>5. Snaps(obj[o], S)
  BY <1>4, SnapshotIs
<1> HIDE DEF id, S
<1>6. H \in Handle /\ H.object = id /\ H.state = handle[h].state /\ H.bytes = handle[h].bytes /\ H.got = handle[h].got
  BY <1>2, <1>3 DEF Handle
<1>7. FlowOK(H, S)
  <2>1. FlowOK(handle[h], obj[o]) BY <1>2, <1>4 DEF FlowsOK
  <2>2. FlowOK(handle[h], S) BY <2>1, <1>2, <1>4, <1>5, FlowSnapshot
  <2> HIDE DEF H
  <2> QED BY <2>2, <1>6 DEF FlowOK, Balanced
<1>8. Lets(hd1, h)
  BY <1>2, ReleasedIs DEF Lets
<1>9. Takes(hd1, handle', h, H)
  <2>1. handle' = [handle EXCEPT ![h] = H] BY <1>1
  <2>2. handle' \in [Handles -> Handle] /\ handle'[h] = H /\ \A k \in Handles : k # h => handle'[k] = handle[k]
    <3> HIDE DEF H
    <3> QED BY <2>1, <1>2, <1>6
  <2> HIDE DEF H, hd1
  <2> QED BY <2>2, <1>6, <1>8 DEF Takes, Lets
<1> HIDE DEF H, hd1
<1>10. missed \ {h} \subseteq missed /\ missed' \in SUBSET Handles
  BY <1>1
<1>11. \E os1 : /\ Sound(os1, cached_objects, uncached_objects, hd1, walk')
                /\ all_caught_up => CatchOK(os1, cached_objects, uncached_objects, hd1, walk', missed)
                /\ LiveIn(os1) = LiveIn(obj) /\ obj' = [os1 EXCEPT ![id] = T]
                /\ walk'.queued => walk'.user # h
  <2>1. CASE IsTarget(h)
    <3> DEFINE R == [obj[o] EXCEPT !.users = left]
               os1 == [obj EXCEPT ![o] = R]
    <3>1. /\ walk.queued = FALSE /\ walk.object = o /\ walk.in = TRUE
          /\ walk.kind # "none" /\ walk.user = h
      BY <2>1, <1>1, TargetIs
    <3>2. Gone \notin Handles /\ Gone # h BY LLCacheAssumption
    <3>3. s \in Seq(Handles \cup {Gone}) /\ Distinct(s) /\ ~Holds(s, Gone)
      BY <3>1, <3>2, <1>2, <1>4, ObjectFields DEF UsersOK
    <3>4. /\ left \in Seq(Handles \cup {Gone}) /\ Distinct(left)
          /\ \A y : Holds(left, y) <=> (Holds(s, y) /\ y # h) \/ y = Gone
          /\ \A y : Before(s, h, y) => Before(left, Gone, y)
      <4>1. Gone \in Handles \cup {Gone} OBVIOUS
      <4> HIDE DEF s
      <4> QED BY <3>3, <1>4, <4>1, LeftElements
    <3>5. obj' = [os1 EXCEPT ![id] = T]
      <4> HIDE DEF left, T
      <4> QED BY <2>1, <1>1, <1>2, <1>3, <1>4 DEF Shape
    <3> HIDE DEF left
    <3>6. Keeps(obj[o], R, {"users"}) /\ R.users = left
      BY <3>4, <1>4, SetUsers
    <3>7. R \in Object /\ Relinked(obj[o], R)
      <4> HIDE DEF R
      <4> QED BY <3>6 DEF Keeps, Names, Relinked
    <3> HIDE DEF R
    <3>8. StaysBehind(o, h, R)
      BY <3>4, <3>6, <3>7 DEF StaysBehind
    <3>9. Replaces(obj, os1, o, R)
      BY <3>7, <1>2, <1>4, OneChanged
    <3> HIDE DEF os1
    <3>10. walk' = [walk EXCEPT !.user = Gone, !.queued = TRUE]
      BY <2>1, <1>1
    <3>11. Queues(walk') /\ walk'.user # h
      BY <3>2, <3>10, <1>2 DEF WalkType, Queues
    <3>12. /\ Sound(os1, cached_objects, uncached_objects, hd1, walk')
           /\ all_caught_up => CatchOK(os1, cached_objects, uncached_objects, hd1, walk', missed)
      <4> DEFINE w2 == walk'
      <4>1. Queues(w2) BY <3>11
      <4> HIDE DEF w2
      <4>2. /\ Sound(os1, cached_objects, uncached_objects, hd1, w2)
            /\ all_caught_up => CatchOK(os1, cached_objects, uncached_objects, hd1, w2, missed)
        BY <4>1, <3>8, <3>9, <2>1, <1>1, <1>8, <1>10, HandleLeft
      <4> QED BY <4>2 DEF w2
    <3>13. LiveIn(os1) = LiveIn(obj) BY <3>9 DEF Replaces
    <3> QED BY <3>5, <3>11, <3>12, <3>13
  <2>2. CASE ~IsTarget(h)
    <3> DEFINE R == [obj[o] EXCEPT !.users = Without(@, h)]
               os1 == [obj EXCEPT ![o].users = Without(@, h)]
    <3>1. Unlinks(o, h, R) /\ Replaces(obj, os1, o, R)
      BY <1>1, <1>4, UnlinkIs
    <3>2. obj' = [os1 EXCEPT ![id] = T]
      <4> HIDE DEF T
      <4> QED BY <2>2, <1>1, <1>2, <1>3, <1>4 DEF Shape
    <3> HIDE DEF R, os1
    <3>3. walk.kind # "none" => walk.user # h
      BY <2>2, <1>1, NotTarget
    <3>4. /\ Sound(os1, cached_objects, uncached_objects, hd1, walk)
          /\ all_caught_up => CatchOK(os1, cached_objects, uncached_objects, hd1, walk, missed)
      BY <3>1, <3>3, <1>1, <1>8, <1>10, HandleUnlinked
    <3>5. LiveIn(os1) = LiveIn(obj) BY <3>1 DEF Replaces
    <3>6. walk' = walk BY <2>2, <1>1
    <3>7. walk.queued => walk.kind # "none" BY <1>2 DEF WalkOK, NoWalk
    <3> QED BY <3>2, <3>3, <3>4, <3>5, <3>6, <3>7
  <2> QED BY <2>1, <2>2
<1>12. PICK os1 : /\ Sound(os1, cached_objects, uncached_objects, hd1, walk')
                  /\ all_caught_up => CatchOK(os1, cached_objects, uncached_objects, hd1, walk', missed)
                  /\ LiveIn(os1) = LiveIn(obj) /\ obj' = [os1 EXCEPT ![id] = T]
                  /\ walk'.queued => walk'.user # h
  BY <1>11
<1>13. Newcomer(os1, hd1, h)
  <2>1. hd1[h].object = NoObject BY <1>8 DEF Lets
  <2>2. UsersOK(os1, hd1, walk') BY <1>12 DEF Sound
  <2>3. \A p \in LiveIn(os1) : p # NoObject BY LiveObject
  <2>4. h \in Handles \cup {Gone} OBVIOUS
  <2>5. \A p \in LiveIn(os1) : ~Holds(os1[p].users, h)
    BY <2>1, <2>2, <2>3, <2>4, <1>12 DEF UsersOK
  <2> QED BY <2>1, <2>5 DEF Newcomer
<1> DEFINE os3 == obj'
           hd2 == handle'
           w == walk'
           u == uncached_objects
<1>14. T = [S EXCEPT !.users = <<h>>] /\ os3 = [os1 EXCEPT ![id] = T]
  BY <1>12
<1>15. Sound(os1, cached_objects, u, hd1, w) /\ id \notin LiveIn(os1) /\ Takes(hd1, hd2, h, H)
  BY <1>3, <1>9, <1>12
<1> HIDE DEF T, os3, hd2, w, u
<1>16. /\ Sound(os3, cached_objects, <<id>> \o u, hd2, w)
       /\ \A m : CatchOK(os1, cached_objects, u, hd1, w, m) =>
                    CatchOK(os3, cached_objects, <<id>> \o u, hd2, w, m \cup {h})
  BY <1>3, <1>5, <1>6, <1>7, <1>13, <1>14, <1>15, SnapshotTaken
<1>17. all_caught_up => CatchOK(os1, cached_objects, u, hd1, w, missed)
  BY <1>12 DEF u, w
<1> QED BY <1>1, <1>10, <1>16, <1>17 DEF IInv, os3, hd2, w, u

-----------------------------------------------------------------------------
(* llcache_object_retrieve.                                                *)

LEMMA NewestIs ==
    ASSUME Sound(obj, cached_objects, uncached_objects, handle, walk), NEW url,
           Newest(url) # NoObject
    PROVE  Newest(url) \in LiveIn(obj) /\ Holds(cached_objects, Newest(url))
<1> DEFINE c == cached_objects
           match == {i \in DOMAIN c : obj[c[i]].url = url}
           timed == {i \in match : obj[c[i]].timed}
           S == IF timed = {} THEN match ELSE timed
<1>1. c \in Seq(LiveIn(obj)) BY DEF Sound, ListsOK
<1>2. Len(c) \in Nat /\ DOMAIN c = 1..Len(c) /\ \A i \in 1..Len(c) : c[i] \in LiveIn(obj)
  BY <1>1, LenProperties, ElementOfSeq
<1>3. match # {} /\ Newest(url) = c[Min(S)]
  BY DEF Newest
<1>4. S # {} /\ S \in SUBSET Nat /\ S \subseteq DOMAIN c
  <2>1. timed \subseteq match /\ match \subseteq DOMAIN c OBVIOUS
  <2>2. DOMAIN c \subseteq Nat BY <1>2
  <2> HIDE DEF match, timed
  <2> QED BY <2>1, <2>2, <1>3
<1> HIDE DEF S
<1>5. Min(S) \in S
  BY <1>4, LeastOf
<1>6. Min(S) \in DOMAIN c /\ Min(S) \in 1..Len(c)
  BY <1>2, <1>4, <1>5
<1> QED BY <1>2, <1>3, <1>6 DEF Holds

(* A candidate is counted for the object that names it.                    *)
LEMMA CandCounted ==
    ASSUME NEW os \in Shape, CandOK(os), NEW n, NEW Q, NEW os1, Replaces(os, os1, n, Q),
           Q.candidate = os[n].candidate, Q.candidate_count = os[n].candidate_count + 1,
           NEW id, NEW R, NEW os2, Adds(os1, os2, id, R), R.candidate = n
    PROVE  CandOK(os2)
<1>1. /\ LiveIn(os1) = LiveIn(os) /\ n \in LiveIn(os) /\ n \in Objects /\ os1[n] = Q
      /\ \A p \in LiveIn(os) : p # n => os1[p] = os[p]
  BY LiveObject DEF Replaces
<1>2. /\ LiveIn(os2) = LiveIn(os) \cup {id} /\ id \notin LiveIn(os) /\ os2[id] = R
      /\ \A p \in LiveIn(os) : os2[p] = os1[p]
  BY <1>1, LiveObject DEF Adds
<1>3. \A p \in LiveIn(os) : os2[p].candidate = os[p].candidate
  BY <1>1, <1>2
<1>4. ASSUME NEW c \in Objects, Namers(os2, c) # {}
      PROVE  c \in LiveIn(os2) /\ os2[c].candidate_count >= Cardinality(Namers(os2, c))
  <2>1. CASE c # n
    <3>1. Namers(os2, c) = Namers(os, c) BY <2>1, <1>2, <1>3 DEF Namers
    <3>2. c \in LiveIn(os) /\ os[c].candidate_count >= Cardinality(Namers(os, c))
      BY <3>1, <1>4 DEF CandOK
    <3>3. os2[c] = os[c] BY <3>2, <2>1, <1>1, <1>2
    <3> QED BY <3>1, <3>2, <3>3, <1>2
  <2>2. CASE c = n
    <3> DEFINE N == Namers(os, n)
    <3>1. Namers(os2, n) = N \cup {id} /\ id \notin N
      BY <1>2, <1>3 DEF Namers
    <3>2. IsFiniteSet(N) /\ Cardinality(N) \in Nat
      BY NamersFinite
    <3>3. os[n].candidate_count \in Nat /\ Cardinality(Objects) \in Nat
      <4>1. os[n] \in Object BY <1>1, LiveObject
      <4>2. Cardinality(Objects) \in Nat BY LLCacheAssumption, FS_CardinalityType
      <4>3. os[n].candidate_count \in 0..Cardinality(Objects) BY <4>1, ObjectFields
      <4> QED BY <4>2, <4>3
    <3>4. os[n].candidate_count >= Cardinality(N)
      <4>1. CASE N = {}
        <5>1. Cardinality(N) = 0 BY <4>1, FS_EmptySet
        <5> QED BY <5>1, <3>3
      <4>2. CASE N # {} BY <4>2, <1>1 DEF CandOK
      <4> QED BY <4>1, <4>2
    <3> HIDE DEF N
    <3>5. Cardinality(N \cup {id}) = Cardinality(N) + 1
      BY <3>1, <3>2, FS_AddElement
    <3>6. os2[n].candidate_count = os[n].candidate_count + 1
      BY <1>1, <1>2
    <3>7. os2[n].candidate_count >= Cardinality(Namers(os2, n))
      BY <3>1, <3>2, <3>3, <3>4, <3>5, <3>6
    <3> QED BY <3>7, <2>2, <1>1, <1>2
  <2> QED BY <2>1, <2>2
<1> QED BY <1>4 DEF CandOK

(* The object that is found on the list of cached objects, or a new one.   *)
Gets(os, c, u, x, force, stream) ==
    /\ Grows(obj, os, cached_objects, c, uncached_objects, u)
    /\ x \in LiveIn(os) /\ LiveIn(os) \subseteq LiveIn(obj) \cup {x}
    /\ x \in LiveIn(obj) => Holds(cached_objects, x)
    /\ x \notin LiveIn(obj) =>
          /\ os[x].users = <<>> /\ os[x].state = INIT /\ os[x].source_len = 0
          /\ os[x].total = 0 /\ os[x].stream = stream /\ os[x].late = FALSE
          /\ force => ~Holds(c, x)

LEMMA SameGrows ==
    ASSUME Sound(obj, cached_objects, uncached_objects, handle, walk)
    PROVE  Grows(obj, obj, cached_objects, cached_objects, uncached_objects, uncached_objects)
<1>1. obj \in Shape /\ ListsOK(obj, cached_objects, uncached_objects) /\ CandOK(obj)
  BY DEF Sound
<1>2. \A p \in LiveIn(obj) : Keeps(obj[p], obj[p], {"candidate_count"})
  BY LiveObject DEF Keeps
<1> QED BY <1>1, <1>2 DEF Grows

(* The stages of making one: its candidate is counted, it is made, and it  *)
(* is put on one of the lists.                                             *)
LEMMA MadeGets ==
    ASSUME Sound(obj, cached_objects, uncached_objects, handle, walk),
           NEW os1, os1 \in Shape, LiveIn(os1) = LiveIn(obj),
           \A p \in LiveIn(obj) : Keeps(obj[p], os1[p], {"candidate_count"}),
           NEW id, NEW R, NEW os2, Adds(os1, os2, id, R), CandOK(os2), NEW force, NEW stream,
           R.users = <<>>, R.state = INIT, R.source_len = 0, R.total = 0, R.stream = stream, R.late = FALSE
    PROVE  /\ force => Gets(os2, cached_objects, <<id>> \o uncached_objects, id, force, stream)
           /\ ~force => Gets(os2, <<id>> \o cached_objects, uncached_objects, id, force, stream)
<1> DEFINE c == cached_objects
           u == uncached_objects
           c2 == <<id>> \o c
           u2 == <<id>> \o u
<1>1. ListsOK(os1, c, u)
  BY DEF Sound, ListsOK
<1> HIDE DEF c, u
<1>2. /\ ListsOK(os2, c2, u) /\ ListsOK(os2, c, u2)
      /\ Linked(c, c2, id) /\ Linked(u, u2, id) /\ ~Holds(c, id) /\ ~Holds(u, id)
  BY <1>1, ListsAdd
<1> HIDE DEF c2, u2
<1>3. /\ os2 \in Shape /\ LiveIn(os2) = LiveIn(obj) \cup {id} /\ id \notin LiveIn(obj) /\ os2[id] = R
      /\ \A p \in LiveIn(obj) : os2[p] = os1[p]
  BY LiveObject DEF Adds
<1>4. \A p \in LiveIn(obj) : Keeps(obj[p], os2[p], {"candidate_count"})
  BY <1>3
<1>5. ObjectOK(R)
  BY DEF ObjectOK, INIT, COMPLETE
<1>6. \A p \in LiveIn(os2) \ LiveIn(obj) : ObjectOK(os2[p]) /\ os2[p].users = <<>>
  BY <1>3, <1>5
<1>7. \A p \in LiveIn(obj) : p # id
  BY <1>3
<1>8. Grows(obj, os2, c, c, u, u2)
  BY <1>2, <1>3, <1>4, <1>6, <1>7 DEF Grows, Linked
<1>9. Grows(obj, os2, c, c2, u, u)
  BY <1>2, <1>3, <1>4, <1>6, <1>7 DEF Grows, Linked
<1>10. force => Gets(os2, c, u2, id, force, stream)
  BY <1>2, <1>3, <1>8 DEF Gets, c, u
<1>11. ~force => Gets(os2, c2, u, id, force, stream)
  BY <1>3, <1>9 DEF Gets, c, u
<1> QED BY <1>10, <1>11 DEF c, u, c2, u2

LEMMA RetrievedIs ==
    ASSUME Sound(obj, cached_objects, uncached_objects, handle, walk),
           NEW url \in Urls, NEW force \in BOOLEAN, NEW stream \in BOOLEAN, Bounded(url, force)
    PROVE  LET r == Retrieved(url, force, stream)
           IN  Gets(r.obj, r.cached, r.uncached, r.object, force, stream)
<1> DEFINE r == Retrieved(url, force, stream)
           n == IF force THEN NoObject ELSE Newest(url)
           new == [NewObject(url, force, stream) EXCEPT !.candidate = n]
           id == NewId
           counted == IF n = NoObject THEN obj ELSE [obj EXCEPT ![n].candidate_count = @ + 1]
           os2 == [counted EXCEPT ![id] = new]
<1>1. obj \in Shape /\ CandOK(obj) BY DEF Sound
<1>2. n # NoObject => n \in LiveIn(obj) /\ Holds(cached_objects, n) /\ n \in Objects
  BY NewestIs, LiveObject
<1>3. CASE n # NoObject /\ Fresh(obj[n])
  <2>1. r.object = n /\ r.obj = obj /\ r.cached = cached_objects /\ r.uncached = uncached_objects
    BY <1>3 DEF Retrieved
  <2> HIDE DEF r, n
  <2>2. Gets(obj, cached_objects, uncached_objects, n, force, stream)
    BY <1>2, <1>3, SameGrows DEF Gets
  <2> QED BY <2>1, <2>2 DEF r
<1>4. CASE ~(n # NoObject /\ Fresh(obj[n]))
  <2>1. /\ r.object = id /\ r.obj = os2
        /\ r.cached = (IF force THEN cached_objects ELSE <<id>> \o cached_objects)
        /\ r.uncached = (IF force THEN <<id>> \o uncached_objects ELSE uncached_objects)
    BY <1>4 DEF Retrieved
  <2>2. HasRoom /\ (n # NoObject => obj[n].candidate_count < Cardinality(Objects))
    BY <1>4 DEF Bounded
  <2> HIDE DEF r
  <2>3. id \in Objects /\ id \notin LiveIn(obj)
    BY <2>2, <1>1, NewIdIs
  <2>4. /\ new \in Object /\ new.users = <<>> /\ new.state = INIT /\ new.source_len = 0
        /\ new.total = 0 /\ new.stream = stream /\ new.late = FALSE /\ new.candidate = n
    <3> DEFINE N == NewObject(url, force, stream)
    <3>1. /\ N \in Object /\ N.users = <<>> /\ N.state = INIT /\ N.source_len = 0
          /\ N.total = 0 /\ N.stream = stream /\ N.late = FALSE
      <4>1. url \in Urls /\ force \in BOOLEAN /\ stream \in BOOLEAN OBVIOUS
      <4>2. Created(N, stream) BY <4>1, NewObjectIs
      <4> QED BY <4>2 DEF Created
    <3>2. n \in Objects \cup {NoObject} BY <1>2
    <3> HIDE DEF N, n
    <3>3. Keeps(N, [N EXCEPT !.candidate = n], {"candidate"}) /\ [N EXCEPT !.candidate = n].candidate = n
      BY <3>1, <3>2, SetCandidate
    <3> DEFINE M == [N EXCEPT !.candidate = n]
    <3>4. new = M BY DEF N
    <3> HIDE DEF M, new
    <3> QED BY <3>1, <3>3, <3>4 DEF Keeps, Names, M
  <2> HIDE DEF new, id, n
  <2>5. /\ counted \in Shape /\ LiveIn(counted) = LiveIn(obj)
        /\ \A p \in LiveIn(obj) : Keeps(obj[p], counted[p], {"candidate_count"})
        /\ Adds(counted, os2, id, new) /\ CandOK(os2)
    <3>1. CASE n = NoObject
      <4>1. counted = obj BY <3>1
      <4>2. \A p \in LiveIn(obj) : Keeps(obj[p], obj[p], {"candidate_count"})
        BY LiveObject DEF Keeps
      <4> HIDE DEF counted
      <4>3. Adds(counted, os2, id, new)
        BY <4>1, <2>3, <2>4, <1>1, AddIs
      <4> HIDE DEF os2
      <4>4. CandOK(os2) BY <4>1, <4>3, <2>4, <3>1, <1>1, CandAdd
      <4> QED BY <4>1, <4>2, <4>3, <4>4, <1>1
    <3>2. CASE n # NoObject
      <4> DEFINE k == obj[n].candidate_count + 1
                 Q == [obj[n] EXCEPT !.candidate_count = k]
      <4>1. n \in LiveIn(obj) /\ obj[n] \in Object BY <3>2, <1>2, LiveObject
      <4>2. k \in 0..Cardinality(Objects)
        <5>1. Cardinality(Objects) \in Nat BY LLCacheAssumption, FS_CardinalityType
        <5>2. obj[n].candidate_count \in 0..Cardinality(Objects) BY <4>1, ObjectFields
        <5> QED BY <5>1, <5>2, <2>2, <3>2
      <4>3. counted = [obj EXCEPT ![n] = Q] BY <3>2
      <4> HIDE DEF k
      <4>4. Keeps(obj[n], Q, {"candidate_count"}) /\ Q.candidate_count = k
        BY <4>1, <4>2, SetCount
      <4>5. Q \in Object /\ Q.candidate = obj[n].candidate
        <5> HIDE DEF Q
        <5> QED BY <4>4 DEF Keeps, Names
      <4> HIDE DEF Q, counted
      <4>6. Replaces(obj, counted, n, Q)
        <5>1. Replaces(obj, [obj EXCEPT ![n] = Q], n, Q)
          BY <4>1, <4>5, <1>1, OneChanged
        <5> QED BY <5>1, <4>3
      <4>7. /\ counted \in Shape /\ LiveIn(counted) = LiveIn(obj) /\ counted[n] = Q
            /\ \A p \in LiveIn(obj) : p # n => counted[p] = obj[p]
        BY <4>6, LiveObject DEF Replaces
      <4>8. \A p \in LiveIn(obj) : Keeps(obj[p], counted[p], {"candidate_count"})
        <5>1. \A p \in LiveIn(obj) : Keeps(obj[p], obj[p], {"candidate_count"})
          BY LiveObject DEF Keeps
        <5> QED BY <5>1, <4>4, <4>7
      <4>9. Adds(counted, os2, id, new)
        BY <4>7, <2>3, <2>4, AddIs
      <4> HIDE DEF os2
      <4>10. Q.candidate_count = obj[n].candidate_count + 1 BY <4>4 DEF k
      <4>11. CandOK(os2)
        BY <4>5, <4>6, <4>9, <4>10, <2>4, <1>1, CandCounted
      <4> QED BY <4>7, <4>8, <4>9, <4>11
    <3> QED BY <3>1, <3>2
  <2> HIDE DEF counted, os2
  <2>6. /\ force => Gets(os2, cached_objects, <<id>> \o uncached_objects, id, force, stream)
        /\ ~force => Gets(os2, <<id>> \o cached_objects, uncached_objects, id, force, stream)
    BY <2>4, <2>5, MadeGets
  <2>7. CASE force BY <2>7, <2>6, <2>1 DEF r
  <2>8. CASE ~force BY <2>8, <2>6, <2>1 DEF r
  <2> QED BY <2>7, <2>8
<1> QED BY <1>3, <1>4

LEMMA GetsOf ==
    ASSUME Sound(obj, cached_objects, uncached_objects, handle, walk),
           NEW os, NEW c, NEW u, NEW x, NEW force, NEW stream, Gets(os, c, u, x, force, stream)
    PROVE  /\ Grows(obj, os, cached_objects, c, uncached_objects, u)
           /\ x \in LiveIn(os) /\ x \in Objects /\ x # NoObject /\ os[x] \in Object /\ ObjectOK(os[x])
           /\ \A p \in LiveIn(os) \ LiveIn(obj) : p = x
           /\ x \notin LiveIn(obj) => os[x].stream = stream
           /\ os[x].stream /\ ~os[x].late => x \notin LiveIn(obj) /\ os[x].users = <<>> /\ os[x].total = 0
                                             /\ os[x].source_len = 0
           /\ os \in Shape
<1>1. /\ \A p \in LiveIn(obj) : ObjectOK(obj[p])
      /\ StreamOK(obj, cached_objects, handle)
  BY DEF Sound
<1>2. /\ x \in LiveIn(os) /\ x \in Objects /\ x # NoObject /\ os[x] \in Object
      /\ \A p \in LiveIn(os) \ LiveIn(obj) : p = x
  BY LiveObject DEF Gets
<1>3. Grows(obj, os, cached_objects, c, uncached_objects, u) BY DEF Gets
<1>4. ObjectOK(os[x]) /\ os \in Shape
  <2>1. CASE x \in LiveIn(obj) BY <2>1, <1>1, <1>3, KeepsFlow DEF Grows
  <2>2. CASE x \notin LiveIn(obj) BY <2>2, <1>2, <1>3 DEF Grows
  <2> QED BY <2>1, <2>2
<1>5. x \in LiveIn(obj) => ~(os[x].stream /\ ~os[x].late)
  <2> SUFFICES ASSUME x \in LiveIn(obj) PROVE ~(os[x].stream /\ ~os[x].late)
    OBVIOUS
  <2>1. Keeps(obj[x], os[x], {"candidate_count"}) BY <1>3 DEF Grows
  <2>2. os[x].stream = obj[x].stream /\ os[x].late = obj[x].late BY <2>1, KeepsFlow
  <2>3. Holds(cached_objects, x) BY DEF Gets
  <2> QED BY <2>2, <2>3, <1>1 DEF StreamOK
<1> QED BY <1>2, <1>3, <1>4, <1>5 DEF Gets

LEMMA RetrieveStep ==
    ASSUME IInv, NEW h \in Handles, NEW url \in Urls, NEW download \in BOOLEAN,
           llcache_handle_retrieve(h, url, download, download)
    PROVE  IInv'
<1> DEFINE r == Retrieved(url, download, download)
           os == r.obj
           x == r.object
           R == [os[x] EXCEPT !.users = <<h>> \o @]
           H == [Released EXCEPT !.object = x]
<1>1. /\ Sound(obj, cached_objects, uncached_objects, handle, walk)
      /\ h \notin Held /\ Bounded(url, download)
      /\ \A p \in Live : h \notin Range(obj[p].users)
      /\ obj' = [os EXCEPT ![x].users = <<h>> \o @]
      /\ cached_objects' = r.cached /\ uncached_objects' = r.uncached
      /\ handle' = [handle EXCEPT ![h] = H]
      /\ all_caught_up' = FALSE /\ walk' = walk /\ missed' = missed
      /\ turns' \in 0..MaxTurns /\ missed \in SUBSET Handles
  BY TurnIs DEF llcache_handle_retrieve, MayCall, IInv
<1>2. obj \in Shape /\ handle \in [Handles -> Handle]
  BY <1>1 DEF Sound
<1>3. Gets(os, r.cached, r.uncached, x, download, download)
  BY <1>1, RetrievedIs
<1> DEFINE c == r.cached
           u == r.uncached
<1>4. Gets(os, c, u, x, download, download) BY <1>3
<1>5. /\ obj' = [os EXCEPT ![x].users = <<h>> \o @]
      /\ cached_objects' = c /\ uncached_objects' = u
      /\ handle' = [handle EXCEPT ![h] = H]
  BY <1>1
<1> HIDE DEF r, os, x, c, u
<1>6. /\ Grows(obj, os, cached_objects, c, uncached_objects, u)
      /\ x \in LiveIn(os) /\ x \in Objects /\ x # NoObject /\ os[x] \in Object /\ ObjectOK(os[x])
      /\ \A p \in LiveIn(os) \ LiveIn(obj) : p = x
      /\ x \notin LiveIn(obj) => os[x].stream = download
      /\ os[x].stream /\ ~os[x].late => x \notin LiveIn(obj) /\ os[x].users = <<>> /\ os[x].total = 0
                                        /\ os[x].source_len = 0
      /\ os \in Shape
  BY <1>1, <1>4, GetsOf
<1>7. \A p \in LiveIn(os) \ LiveIn(obj) : os[p].stream => ~Holds(c, p)
  BY <1>4, <1>6 DEF Gets
<1>8. Sound(os, c, u, handle, walk)
  BY <1>1, <1>6, <1>7, GrowsSound
<1>9. Newcomer(os, handle, h)
  <2>1. \A p \in LiveIn(obj) : ~Holds(obj[p].users, h) /\ os[p].users = obj[p].users
    BY <1>1, <1>2, <1>6, LiveIs, InRange, KeepsFlow DEF Grows
  <2>2. \A p \in LiveIn(os) \ LiveIn(obj) : ~Holds(os[p].users, h)
    BY <1>6 DEF Grows, Holds
  <2> QED BY <2>1, <2>2, <1>1 DEF Newcomer, Held
<1>10. H \in Handle /\ H.object = x /\ H.state = INIT /\ H.bytes = 0 /\ H.got = 0
  <2>1. H = [object |-> x, state |-> INIT, bytes |-> 0, got |-> 0] BY DEF Released
  <2>2. 0 \in 0..MaxLen /\ INIT \in INIT..COMPLETE BY LLCacheAssumption DEF INIT, COMPLETE
  <2> QED BY <2>1, <2>2, <1>6 DEF Handle
<1>11. obj' = [os EXCEPT ![x] = R] BY <1>5
<1>12. Joins(os[x], h, R)
  <2>1. Distinct(os[x].users) BY <1>6, <1>8 DEF Sound, UsersOK
  <2>2. ~Holds(os[x].users, h) BY <1>6, <1>9 DEF Newcomer
  <2> QED BY <2>1, <2>2, <1>6, JoinIs
<1> HIDE DEF H, R
<1>13. Replaces(os, obj', x, R)
  <2>1. R \in Object BY <1>12 DEF Joins, Keeps
  <2>2. Replaces(os, [os EXCEPT ![x] = R], x, R) BY <2>1, <1>6, OneChanged
  <2> QED BY <2>2, <1>11
<1>14. Takes(handle, handle', h, H)
  BY <1>2, <1>5, <1>10 DEF Takes
<1>15. FlowOK(H, os[x])
  <2>1. os[x].source_len \in 0..MaxLen /\ os[x].total \in 0..MaxLen /\ MaxLen \in Nat
    BY <1>6, ObjectFields, LLCacheAssumption
  <2>2. ~os[x].late => os[x].source_len = os[x].total
    BY <1>6 DEF ObjectOK
  <2>3. os[x].source_len <= os[x].total
    BY <1>6 DEF ObjectOK
  <2> QED BY <2>1, <2>2, <2>3, <1>10 DEF FlowOK, Balanced, INIT, COMPLETE
<1>16. H.state # COMPLETE BY <1>10 DEF INIT, COMPLETE
<1> DEFINE os2 == obj'
           hd2 == handle'
<1>17. Replaces(os, os2, x, R) /\ Takes(handle, hd2, h, H) BY <1>13, <1>14
<1> HIDE DEF os2, hd2
<1>18. Sound(os2, c, u, hd2, walk)
  BY <1>6, <1>8, <1>9, <1>10, <1>12, <1>15, <1>16, <1>17, JoinsSound
<1> QED BY <1>1, <1>5, <1>18 DEF IInv, os2, hd2

-----------------------------------------------------------------------------
(* A redirect moves the users.                                             *)

Moves(os, os2, o, x, late) ==
    /\ os2 \in Shape /\ LiveIn(os2) = LiveIn(os)
    /\ \A p \in LiveIn(os) : Keeps(os[p], os2[p], {"users", "late"}) /\ Distinct(os2[p].users)
    /\ \A p \in LiveIn(os) : p # x => os2[p].late = os[p].late
    /\ os2[x].late = (os[x].late \/ late)
    /\ \A p \in LiveIn(os) : \A y :
          Holds(os2[p].users, y) <=> (p # o /\ Holds(os[p].users, y)) \/ (p = x /\ Holds(os[o].users, y))

MovedUsers(os, o, x, late) ==
    LET left == [os EXCEPT ![o].users = <<>>]
    IN  [left EXCEPT ![x].users = Reverse(os[o].users) \o @, ![x].late = @ \/ late]

LEMMA MovesIs ==
    ASSUME NEW os \in Shape, NEW o \in LiveIn(os), NEW x \in LiveIn(os), NEW late \in BOOLEAN,
           \A p \in LiveIn(os) : Distinct(os[p].users),
           \A p \in LiveIn(os) : p # o => \A y : ~(Holds(os[o].users, y) /\ Holds(os[p].users, y)),
           NEW moved, moved = MovedUsers(os, o, x, late)
    PROVE  Moves(os, moved, o, x, late)
<1> DEFINE s == os[o].users
           E == [os[o] EXCEPT !.users = <<>>]
           os1 == [os EXCEPT ![o] = E]
           B == os1[x]
           t == Reverse(s) \o B.users
           A == [B EXCEPT !.users = t]
           l == B.late \/ late
           F == [A EXCEPT !.late = l]
           os2 == [os1 EXCEPT ![x] = F]
<1>0. o \in Objects /\ x \in Objects /\ os[o] \in Object /\ os[x] \in Object
  BY LiveObject
<1>1. MovedUsers(os, o, x, late) = os2
  <2>1. os1 = [os EXCEPT ![o].users = <<>>] OBVIOUS
  <2>2. DOMAIN os1 = Objects
    <3> HIDE DEF E
    <3> QED BY DEF Shape
  <2> HIDE DEF os1, s
  <2> DEFINE os3 == [os1 EXCEPT ![x] = A]
  <2>4. [os1 EXCEPT ![x].users = Reverse(s) \o @, ![x].late = @ \/ late]
        = [os3 EXCEPT ![x].late = l]
    OBVIOUS
  <2>6. os3[x] = A BY <2>2, <1>0
  <2> HIDE DEF A, l
  <2>8. [os3 EXCEPT ![x].late = l] = [os3 EXCEPT ![x] = F]
    BY <2>6
  <2>9. [os3 EXCEPT ![x] = F] = os2
    BY <2>2
  <2> QED BY <2>1, <2>4, <2>8, <2>9 DEF s, MovedUsers
<1>2. <<>> \in Seq(Handles \cup {Gone}) OBVIOUS
<1>3. Keeps(os[o], E, {"users"}) /\ E.users = <<>>
  BY <1>0, <1>2, SetUsers
<1>4. E \in Object BY <1>3 DEF Keeps
<1> HIDE DEF E
<1>5. Replaces(os, os1, o, E)
  BY <1>4, OneChanged
<1> HIDE DEF os1
<1>6. /\ os1 \in Shape /\ LiveIn(os1) = LiveIn(os) /\ os1[o] = E
      /\ \A p \in LiveIn(os) : p # o => os1[p] = os[p]
  BY <1>5, LiveObject DEF Replaces
<1>7. B \in Object BY <1>6, LiveObject
<1>8. Keeps(os[x], B, {"users"})
  <2>1. Keeps(os[x], os[x], {"users"}) BY <1>0 DEF Keeps
  <2> QED BY <2>1, <1>3, <1>6
<1>9. \A y : Holds(B.users, y) <=> x # o /\ Holds(os[x].users, y)
  <2>1. CASE x = o
    <3>1. B.users = <<>> BY <2>1, <1>3, <1>6
    <3> QED BY <3>1, <2>1 DEF Holds
  <2>2. CASE x # o
    <3>1. B = os[x] BY <2>2, <1>6
    <3> QED BY <3>1, <2>2
  <2> QED BY <2>1, <2>2
<1>10. Distinct(B.users)
  <2>1. CASE x = o
    <3>1. B.users = <<>> BY <2>1, <1>3, <1>6
    <3> QED BY <3>1 DEF Distinct
  <2>2. CASE x # o
    <3>1. B = os[x] BY <2>2, <1>6
    <3> QED BY <3>1
  <2> QED BY <2>1, <2>2
<1> HIDE DEF B
<1>11. /\ t \in Seq(Handles \cup {Gone}) /\ Distinct(t)
       /\ \A y : Holds(t, y) <=> Holds(s, y) \/ Holds(B.users, y)
  <2>1. s \in Seq(Handles \cup {Gone}) /\ B.users \in Seq(Handles \cup {Gone})
    BY <1>0, <1>7, ObjectFields
  <2>2. Distinct(s) OBVIOUS
  <2>3. \A y : ~(Holds(s, y) /\ Holds(B.users, y))
    BY <1>9
  <2> HIDE DEF s
  <2> QED BY <2>1, <2>2, <2>3, <1>10, ReverseJoin
<1> HIDE DEF t
<1>12. Keeps(B, A, {"users"}) /\ A.users = t
  BY <1>7, <1>11, SetUsers
<1>13. A \in Object BY <1>12 DEF Keeps
<1> HIDE DEF A
<1>14. l \in BOOLEAN /\ B.late = os[x].late
  BY <1>7, <1>8, ObjectFields DEF Keeps, Names
<1> HIDE DEF l
<1>15. Keeps(A, F, {"late"}) /\ F.late = l
  BY <1>13, <1>14, SetLate
<1>16. F \in Object BY <1>15 DEF Keeps
<1> HIDE DEF F
<1>17. Replaces(os1, os2, x, F)
  BY <1>6, <1>16, OneChanged
<1> HIDE DEF os2
<1>18. /\ os2 \in Shape /\ LiveIn(os2) = LiveIn(os) /\ os2[x] = F
       /\ \A p \in LiveIn(os) : p # x => os2[p] = os1[p]
  BY <1>6, <1>17, LiveObject DEF Replaces
<1>19. Keeps(os[x], F, {"users", "late"}) /\ F.users = t
  BY <1>8, <1>12, <1>15 DEF Keeps, Names
<1>20. ASSUME NEW p \in LiveIn(os) PROVE Keeps(os[p], os2[p], {"users", "late"}) /\ Distinct(os2[p].users)
  <2>1. CASE p = x BY <2>1, <1>11, <1>18, <1>19
  <2>2. CASE p # x /\ p = o
    <3>1. os2[p] = E BY <2>2, <1>6, <1>18
    <3>2. Keeps(os[o], E, {"users", "late"}) BY <1>3 DEF Keeps
    <3>3. Distinct(E.users) BY <1>3 DEF Distinct
    <3> QED BY <3>1, <3>2, <3>3, <2>2
  <2>3. CASE p # x /\ p # o
    <3>1. os2[p] = os[p] /\ os[p] \in Object BY <2>3, <1>6, <1>18, LiveObject
    <3> QED BY <3>1 DEF Keeps
  <2> QED BY <2>1, <2>2, <2>3
<1>21. ASSUME NEW p \in LiveIn(os), p # x PROVE os2[p].late = os[p].late
  <2>1. CASE p = o
    <3>1. os2[p] = E BY <1>21, <2>1, <1>6, <1>18
    <3> QED BY <3>1, <2>1, <1>3 DEF Keeps, Names
  <2>2. CASE p # o BY <1>21, <2>2, <1>6, <1>18
  <2> QED BY <2>1, <2>2
<1>22. os2[x].late = (os[x].late \/ late)
  BY <1>14, <1>15, <1>18 DEF l
<1>23. ASSUME NEW p \in LiveIn(os), NEW y
       PROVE  Holds(os2[p].users, y) <=> (p # o /\ Holds(os[p].users, y)) \/ (p = x /\ Holds(s, y))
  <2>1. CASE p = x
    <3>1. Holds(os2[p].users, y) <=> Holds(t, y) BY <2>1, <1>18, <1>19
    <3> QED BY <3>1, <2>1, <1>9, <1>11
  <2>2. CASE p # x /\ p = o
    <3>1. os2[p].users = <<>> BY <2>2, <1>3, <1>6, <1>18
    <3> QED BY <3>1, <2>2 DEF Holds
  <2>3. CASE p # x /\ p # o
    <3>1. os2[p] = os[p] BY <2>3, <1>6, <1>18
    <3> QED BY <3>1, <2>3
  <2> QED BY <2>1, <2>2, <2>3
<1>24. Moves(os, os2, o, x, late)
  BY <1>18, <1>20, <1>21, <1>22, <1>23 DEF Moves
<1> QED BY <1>1, <1>24

(* Users that have had data of the redirected fetch mark the object they   *)
(* come to, and the others start at its beginning.                         *)
Moved(o, x, hd) ==
    /\ hd \in [Handles -> Handle]
    /\ \A k \in Handles : handle[k].object = o =>
          /\ hd[k].object = x /\ hd[k].got = handle[k].bytes
          /\ hd[k].bytes = handle[k].bytes /\ hd[k].state = handle[k].state
    /\ \A k \in Handles : handle[k].object # o => hd[k] = handle[k]

LEMMA NoWalkSound ==
    ASSUME NEW os, NEW hd
    PROVE  WalkOK(os, hd, NoWalk) /\ NoWalk.kind = "none" /\ NoWalk.event = "none" /\ NoWalk.queued = FALSE
  BY DEF WalkOK, NoWalk

LEMMA MovedSound ==
    ASSUME Sound(obj, cached_objects, uncached_objects, handle, walk), walk.queued = FALSE,
           walk.kind = "redirect", NEW os, NEW c, NEW u, NEW x, NEW force,
           Gets(os, c, u, x, force, obj[walk.object].stream),
           NEW late \in BOOLEAN, NEW os2, Moves(os, os2, walk.object, x, late),
           obj[walk.object].stream \/ obj[walk.object].late => late,
           \A k \in Handles : handle[k].object = walk.object /\ handle[k].bytes > 0 => late,
           NEW hd, Moved(walk.object, x, hd)
    PROVE  Sound(os2, c, u, hd, NoWalk)
<1> DEFINE o == walk.object
<1>1. /\ obj \in Shape /\ handle \in [Handles -> Handle]
      /\ UsersOK(obj, handle, walk) /\ WalkOK(obj, handle, walk) /\ FlowsOK(obj, handle, walk)
      /\ StreamOK(obj, cached_objects, handle) /\ \A p \in LiveIn(obj) : ObjectOK(obj[p])
  BY DEF Sound
<1>2. o \in LiveIn(obj) /\ o # NoObject
  BY <1>1, LiveObject DEF WalkOK
<1>3. /\ Grows(obj, os, cached_objects, c, uncached_objects, u)
      /\ x \in LiveIn(os) /\ x \in Objects /\ x # NoObject /\ os[x] \in Object /\ ObjectOK(os[x])
      /\ \A p \in LiveIn(os) \ LiveIn(obj) : p = x
      /\ os[x].stream /\ ~os[x].late => x \notin LiveIn(obj) /\ os[x].users = <<>> /\ os[x].total = 0
                                        /\ os[x].source_len = 0
      /\ os \in Shape /\ (x \notin LiveIn(obj) => os[x].stream = obj[o].stream)
  BY GetsOf
<1>4. /\ os2 \in Shape /\ LiveIn(os2) = LiveIn(os)
      /\ \A p \in LiveIn(os) : Keeps(os[p], os2[p], {"users", "late"}) /\ Distinct(os2[p].users)
      /\ \A p \in LiveIn(os) : p # x => os2[p].late = os[p].late
      /\ os2[x].late = (os[x].late \/ late)
      /\ \A p \in LiveIn(os) : \A y :
            Holds(os2[p].users, y) <=> (p # o /\ Holds(os[p].users, y)) \/ (p = x /\ Holds(os[o].users, y))
  BY DEF Moves
<1>5. /\ LiveIn(obj) \subseteq LiveIn(os) /\ ListsOK(os, c, u) /\ CandOK(os)
      /\ \A p \in LiveIn(obj) : Holds(c, p) <=> Holds(cached_objects, p)
      /\ \A p \in LiveIn(os) \ LiveIn(obj) : os[p].users = <<>> /\ ObjectOK(os[p])
  BY <1>3 DEF Grows
<1>6. \A p \in LiveIn(obj) :
         /\ os[p].users = obj[p].users /\ os[p].state = obj[p].state /\ os[p].source_len = obj[p].source_len
         /\ os[p].total = obj[p].total /\ os[p].fetch = obj[p].fetch /\ os[p].stream = obj[p].stream
         /\ os[p].late = obj[p].late /\ ObjectOK(os[p])
         /\ \A H : FlowOK(H, obj[p]) => FlowOK(H, os[p])
  BY <1>1, <1>3, KeepsFlow DEF Grows
<1>7. \A p \in LiveIn(os) :
         /\ os2[p].state = os[p].state /\ os2[p].source_len = os[p].source_len
         /\ os2[p].total = os[p].total /\ os2[p].fetch = os[p].fetch /\ os2[p].stream = os[p].stream
         /\ os2[p].candidate = os[p].candidate /\ os2[p].candidate_count = os[p].candidate_count
  BY <1>4 DEF Keeps, Names
<1>8. \A p \in LiveIn(os) : ObjectOK(os[p])
  BY <1>5, <1>6
<1>9. \A k \in Handles : Holds(obj[o].users, k) <=> handle[k].object = o
  BY <1>1, <1>2 DEF UsersOK
<1>10. /\ hd \in [Handles -> Handle]
       /\ \A k \in Handles : handle[k].object = o =>
             /\ hd[k].object = x /\ hd[k].got = handle[k].bytes
             /\ hd[k].bytes = handle[k].bytes /\ hd[k].state = handle[k].state
       /\ \A k \in Handles : handle[k].object # o => hd[k] = handle[k]
  BY DEF Moved
<1>11. ListsOK(os2, c, u)
  BY <1>4, <1>5 DEF ListsOK
<1>12. CandOK(os2)
  BY <1>4, <1>5, <1>7, CandFrame
<1>13. \A p \in LiveIn(os2) : ObjectOK(os2[p])
  BY <1>4, <1>7, <1>8 DEF ObjectOK
<1>14. UsersOK(os2, hd, NoWalk)
  <2>1. ASSUME NEW k \in Handles, hd[k].object # NoObject
        PROVE  hd[k].object \in LiveIn(os2) /\ Holds(os2[hd[k].object].users, k)
    <3>1. CASE handle[k].object = o
      <4>1. hd[k].object = x /\ Holds(os[o].users, k) BY <3>1, <1>2, <1>6, <1>9, <1>10
      <4> QED BY <4>1, <1>3, <1>4
    <3>2. CASE handle[k].object # o
      <4>1. hd[k] = handle[k] BY <3>2, <1>10
      <4>2. handle[k].object \in LiveIn(obj) /\ Holds(obj[handle[k].object].users, k)
        BY <4>1, <2>1, <1>1 DEF UsersOK
      <4>3. handle[k].object \in LiveIn(os) /\ Holds(os[handle[k].object].users, k)
        BY <4>2, <1>5, <1>6
      <4> QED BY <4>1, <4>3, <3>2, <1>4
    <3> QED BY <3>1, <3>2
  <2>2. ASSUME NEW p \in LiveIn(os2), NEW y \in Handles \cup {Gone}, Holds(os2[p].users, y)
        PROVE  y \in Handles /\ hd[y].object = p
    <3>0. p \in LiveIn(os) BY <1>4
    <3>1. CASE p = x /\ Holds(os[o].users, y)
      <4>1. Holds(obj[o].users, y) BY <3>1, <1>2, <1>6
      <4>2. y \in Handles /\ handle[y].object = o BY <4>1, <1>1, <1>2 DEF UsersOK
      <4> QED BY <4>2, <3>1, <1>10
    <3>2. CASE ~(p = x /\ Holds(os[o].users, y))
      <4>1. p # o /\ Holds(os[p].users, y) BY <3>0, <3>2, <2>2, <1>4
      <4>2. p \in LiveIn(obj)
        <5>1. p \notin LiveIn(obj) => os[p].users = <<>> BY <3>0, <1>5
        <5> QED BY <5>1, <4>1 DEF Holds
      <4>3. Holds(obj[p].users, y) BY <4>1, <4>2, <1>6
      <4>4. y \in Handles /\ handle[y].object = p BY <4>2, <4>3, <1>1 DEF UsersOK
      <4> QED BY <4>1, <4>4, <1>10
    <3> QED BY <3>1, <3>2
  <2> QED BY <2>1, <2>2, <1>4 DEF UsersOK
<1>15. ~os2[x].late => ~os[x].stream /\ ~os[x].late /\ ~late
  <2> SUFFICES ASSUME ~os2[x].late PROVE ~os[x].stream /\ ~os[x].late /\ ~late
    OBVIOUS
  <2>1. ~os[x].late /\ ~late BY <1>4
  <2>2. CASE os[x].stream
    <3>1. x \notin LiveIn(obj) BY <2>1, <2>2, <1>3
    <3>2. obj[o].stream BY <3>1, <2>2, <1>3
    <3> QED BY <3>2, <2>1
  <2> QED BY <2>1, <2>2
<1>16. StreamOK(os2, c, hd)
  <2> SUFFICES ASSUME NEW p \in LiveIn(os2), os2[p].stream, ~os2[p].late
               PROVE  /\ ~Holds(c, p)
                      /\ \A i, k \in Handles : hd[i].object = p /\ hd[k].object = p => i = k
    BY DEF StreamOK
  <2>1. p \in LiveIn(os) /\ os[p].stream BY <1>4, <1>7
  <2>2. p # x BY <2>1, <1>15
  <2>3. p \in LiveIn(obj) /\ ~os[p].late BY <2>1, <2>2, <1>3, <1>4
  <2>4. obj[p].stream /\ ~obj[p].late BY <2>1, <2>3, <1>6
  <2>5. ~Holds(cached_objects, p) /\ \A i, k \in Handles : handle[i].object = p /\ handle[k].object = p => i = k
    BY <2>3, <2>4, <1>1 DEF StreamOK
  <2>6. \A i \in Handles : hd[i].object = p => handle[i].object = p
    BY <2>2, <1>10
  <2> QED BY <2>3, <2>5, <2>6, <1>5
<1>17. ASSUME NEW k \in Handles, hd[k].object # NoObject PROVE FlowOK(hd[k], os2[hd[k].object])
  <2>1. CASE handle[k].object = o
    <3>1. /\ hd[k].object = x /\ hd[k].got = handle[k].bytes
          /\ hd[k].bytes = handle[k].bytes /\ hd[k].state = handle[k].state
      BY <2>1, <1>10
    <3>2. handle[k].state # COMPLETE BY <2>1, <1>1 DEF FlowsOK
    <3>3. handle[k].bytes \in 0..MaxLen BY <1>1, HandleFields
    <3>4. os[x].source_len \in 0..MaxLen /\ os[x].total \in 0..MaxLen /\ MaxLen \in Nat
      BY <1>3, ObjectFields, LLCacheAssumption
    <3>5. /\ os2[x].source_len = os[x].source_len /\ os2[x].total = os[x].total
      BY <1>3, <1>7
    <3>6. os[x].source_len <= os[x].total BY <1>3 DEF ObjectOK
    <3>7. ~os2[x].late => os[x].source_len = os[x].total /\ handle[k].bytes = 0
      <4>1. ~os2[x].late => ~(handle[k].bytes > 0) BY <2>1, <1>15
      <4> QED BY <4>1, <3>3, <1>3, <1>15 DEF ObjectOK
    <3>8. Balanced(hd[k], os2[x])
      BY <3>1, <3>3, <3>4, <3>5, <3>6, <3>7 DEF Balanced
    <3> QED BY <3>1, <3>2, <3>8 DEF FlowOK
  <2>2. CASE handle[k].object # o
    <3> DEFINE p == handle[k].object
    <3>1. hd[k] = handle[k] BY <2>2, <1>10
    <3>2. p \in LiveIn(obj) /\ FlowOK(handle[k], obj[p])
      BY <3>1, <1>17, <1>1 DEF UsersOK, FlowsOK
    <3>3. p \in LiveIn(os) /\ FlowOK(handle[k], os[p]) BY <3>2, <1>5, <1>6
    <3> HIDE DEF p
    <3>4. os[p].late => os2[p].late BY <3>3, <1>4
    <3>5. FlowOK(handle[k], os2[p]) BY <3>3, <3>4, <1>7 DEF FlowOK, Balanced
    <3> QED BY <3>1, <3>5 DEF p
  <2> QED BY <2>1, <2>2
<1>18. FlowsOK(os2, hd, NoWalk)
  BY <1>17, NoWalkSound DEF FlowsOK
<1> QED BY <1>4, <1>10, <1>11, <1>12, <1>13, <1>14, <1>16, <1>18, NoWalkSound, NoWalkType DEF Sound

LEMMA RedirectUsersStep ==
    ASSUME IInv, RedirectUsers
    PROVE  IInv'
<1> DEFINE o == walk.object
           users == obj[o].users
           r == Retrieved(walk.to, obj[o].force, obj[o].stream)
           os == r.obj
           x == r.object
           c == r.cached
           u == r.uncached
           left == [os EXCEPT ![o].users = <<>>]
           had == \E h \in Handles : h \in Range(users) /\ handle[h].bytes + handle[h].got > 0
           late == had \/ obj[o].stream \/ obj[o].late
<1>1. /\ Sound(obj, cached_objects, uncached_objects, handle, walk)
      /\ walk.kind = "redirect" /\ ~walk.in /\ Bounded(walk.to, obj[o].force)
      /\ obj' = [left EXCEPT ![x].users = Reverse(users) \o @,
                             ![x].late = @ \/ had \/ obj[o].stream \/ obj[o].late]
      /\ cached_objects' = c /\ uncached_objects' = u
      /\ handle' = [h \in Handles |->
            IF h \in Range(users) THEN [handle[h] EXCEPT !.object = x, !.got = handle[h].bytes]
            ELSE handle[h]]
      /\ walk' = NoWalk /\ all_caught_up' = FALSE /\ missed' = missed /\ turns' = turns
      /\ missed \in SUBSET Handles /\ turns \in 0..MaxTurns
  BY DEF RedirectUsers, IInv
<1>2. /\ obj \in Shape /\ handle \in [Handles -> Handle] /\ walk \in WalkType
      /\ UsersOK(obj, handle, walk) /\ WalkOK(obj, handle, walk)
  BY <1>1 DEF Sound
<1>3. o \in LiveIn(obj) /\ o \in Objects /\ obj[o] \in Object /\ walk.queued = FALSE /\ walk.to \in Urls
  BY <1>1, <1>2, LiveObject, WalkFields DEF WalkOK
<1>4. obj[o].force \in BOOLEAN /\ obj[o].stream \in BOOLEAN /\ obj[o].late \in BOOLEAN
  BY <1>3, ObjectFields
<1>5. Gets(os, c, u, x, obj[o].force, obj[o].stream)
  BY <1>1, <1>3, <1>4, RetrievedIs
<1> HIDE DEF r, os, x, c, u
<1>6. /\ Grows(obj, os, cached_objects, c, uncached_objects, u)
      /\ x \in LiveIn(os) /\ x \in Objects /\ os[x] \in Object /\ os \in Shape
      /\ \A p \in LiveIn(os) \ LiveIn(obj) : p = x
  <2> DEFINE f == obj[o].force
             g == obj[o].stream
  <2>1. Gets(os, c, u, x, f, g) BY <1>5
  <2>2. Sound(obj, cached_objects, uncached_objects, handle, walk) BY <1>1
  <2> HIDE DEF f, g
  <2> QED BY <2>1, <2>2, GetsOf
<1>7. /\ LiveIn(obj) \subseteq LiveIn(os)
      /\ \A p \in LiveIn(os) \ LiveIn(obj) : os[p].users = <<>>
      /\ \A p \in LiveIn(obj) : os[p].users = obj[p].users
  BY <1>6, KeepsFlow DEF Grows
<1>8. \A k \in Handles : k \in Range(users) <=> handle[k].object = o
  <2>1. \A k \in Handles : Holds(users, k) <=> handle[k].object = o
    <3>1. o # NoObject BY <1>3, LiveObject
    <3> QED BY <3>1, <1>2, <1>3 DEF UsersOK
  <2> QED BY <2>1, InRange
<1>9. Moves(os, obj', o, x, late)
  <2>1. late \in BOOLEAN BY <1>4
  <2>2. o \in LiveIn(os) /\ os[o].users = users BY <1>3, <1>7
  <2>3. \A p \in LiveIn(os) : Distinct(os[p].users)
    <3>1. Distinct(<<>>) BY DEF Distinct
    <3> QED BY <3>1, <1>2, <1>7 DEF UsersOK
  <2>4. ASSUME NEW p \in LiveIn(os), p # o, NEW y, Holds(users, y), Holds(os[p].users, y) PROVE FALSE
    <3>1. p \in LiveIn(obj)
      <4>1. p \notin LiveIn(obj) => os[p].users = <<>> BY <1>7
      <4> QED BY <4>1, <2>4 DEF Holds
    <3>2. Holds(obj[p].users, y) BY <3>1, <2>4, <1>7
    <3>3. y \in Handles \cup {Gone}
      <4>1. users \in Seq(Handles \cup {Gone}) BY <1>3, ObjectFields
      <4> HIDE DEF users
      <4> QED BY <4>1, <2>4, LenProperties, ElementOfSeq DEF Holds
    <3>4. y \in Handles /\ handle[y].object = p BY <3>1, <3>2, <3>3, <1>2, <1>3 DEF UsersOK
    <3>5. handle[y].object = o BY <3>3, <2>4, <1>2, <1>3 DEF UsersOK
    <3> QED BY <3>4, <3>5, <2>4
  <2>5. obj' = [left EXCEPT ![x].users = Reverse(users) \o @, ![x].late = @ \/ late]
    <3> DEFINE a == left[x].late \/ had \/ obj[o].stream \/ obj[o].late
               b == left[x].late \/ late
    <3>1. a = b OBVIOUS
    <3>2. obj' = [left EXCEPT ![x].users = Reverse(users) \o @, ![x].late = a]
      BY <1>1
    <3> HIDE DEF a
    <3>3. obj' = [left EXCEPT ![x].users = Reverse(users) \o @, ![x].late = b]
      BY <3>1, <3>2
    <3> QED BY <3>3
  <2> HIDE DEF late, users
  <2>6. \A p \in LiveIn(os) : p # o => \A y : ~(Holds(os[o].users, y) /\ Holds(os[p].users, y))
    BY <2>2, <2>4
  <2>7. obj' = MovedUsers(os, o, x, late)
    BY <2>2, <2>5 DEF MovedUsers
  <2> DEFINE os2 == obj'
  <2>8. os2 = MovedUsers(os, o, x, late) BY <2>7
  <2> HIDE DEF os2
  <2>9. Moves(os, os2, o, x, late)
    BY <2>1, <2>2, <2>3, <2>6, <2>8, <1>6, MovesIs
  <2> QED BY <2>9 DEF os2
<1>10. Moved(o, x, handle')
  <2>1. ASSUME NEW k \in Handles, handle[k].object = o
        PROVE  /\ handle'[k] \in Handle /\ handle'[k].object = x /\ handle'[k].got = handle[k].bytes
               /\ handle'[k].bytes = handle[k].bytes /\ handle'[k].state = handle[k].state
    <3>1. handle'[k] = [handle[k] EXCEPT !.object = x, !.got = handle[k].bytes]
      <4> HIDE DEF users
      <4> QED BY <2>1, <1>1, <1>8
    <3>2. handle[k] \in Handle /\ handle[k].bytes \in 0..MaxLen BY <1>2, HandleFields
    <3> QED BY <3>1, <3>2, <1>6 DEF Handle
  <2>2. ASSUME NEW k \in Handles, handle[k].object # o PROVE handle'[k] = handle[k]
    <3> HIDE DEF users
    <3> QED BY <2>2, <1>1, <1>8
  <2>3. handle' \in [Handles -> Handle]
    <3>1. handle' = [k \in Handles |-> handle'[k]]
      <4> HIDE DEF users
      <4> QED BY <1>1
    <3>2. \A k \in Handles : handle'[k] \in Handle BY <2>1, <2>2, <1>2
    <3> QED BY <3>1, <3>2
  <2> QED BY <2>1, <2>2, <2>3 DEF Moved
<1>11. /\ late \in BOOLEAN /\ (obj[o].stream \/ obj[o].late => late)
       /\ \A k \in Handles : handle[k].object = o /\ handle[k].bytes > 0 => late
  <2>1. \A k \in Handles : handle[k].bytes \in Nat /\ handle[k].got \in Nat
    BY <1>2, HandleFields, LLCacheAssumption
  <2>2. ASSUME NEW k \in Handles, handle[k].object = o, handle[k].bytes > 0 PROVE had
    <3>1. k \in Range(users) BY <2>2, <1>8
    <3>2. handle[k].bytes + handle[k].got > 0 BY <2>1, <2>2
    <3> QED BY <3>1, <3>2
  <2> QED BY <2>2
<1> DEFINE os2 == obj'
           hd2 == handle'
<1>12. Moves(os, os2, o, x, late) /\ Moved(o, x, hd2) BY <1>9, <1>10
<1> HIDE DEF os2, hd2, late
<1>13. Sound(os2, c, u, hd2, NoWalk)
  BY <1>1, <1>3, <1>5, <1>11, <1>12, MovedSound
<1> QED BY <1>1, <1>13 DEF IInv, os2, hd2

-----------------------------------------------------------------------------
(* The invariant is inductive.                                             *)

LEMMA InitIInv == Init => IInv
<1> SUFFICES ASSUME Init PROVE IInv
  OBVIOUS
<1>1. /\ obj = [o \in Objects |-> Free] /\ cached_objects = <<>> /\ uncached_objects = <<>>
      /\ handle = [h \in Handles |-> Released] /\ all_caught_up = TRUE /\ walk = NoWalk
      /\ missed = {} /\ turns = 0
  BY DEF Init
<1>2. obj \in Shape BY <1>1 DEF Shape
<1>3. LiveIn(obj) = {} BY <1>1, NotObjects DEF LiveIn
<1>4. Released \in Handle /\ Released.object = NoObject
  <2>1. 0 \in 0..MaxLen /\ INIT \in INIT..COMPLETE BY LLCacheAssumption DEF INIT, COMPLETE
  <2> QED BY <2>1 DEF Released, Handle
<1>5. handle \in [Handles -> Handle] /\ \A h \in Handles : handle[h].object = NoObject
  BY <1>1, <1>4
<1>6. ListsOK(obj, cached_objects, uncached_objects)
  <2>1. <<>> \in Seq(LiveIn(obj)) /\ Distinct(<<>>) BY DEF Distinct
  <2> QED BY <2>1, <1>1, <1>3 DEF ListsOK
<1>7. /\ UsersOK(obj, handle, walk) /\ StreamOK(obj, cached_objects, handle) /\ CandOK(obj)
      /\ \A o \in LiveIn(obj) : ObjectOK(obj[o])
  BY <1>3, <1>5 DEF UsersOK, StreamOK, CandOK, Namers
<1>8. WalkOK(obj, handle, walk) /\ walk \in WalkType /\ walk.kind = "none" /\ walk.event = "none"
  BY <1>1, NoWalkSound, NoWalkType
<1>9. FlowsOK(obj, handle, walk)
  BY <1>5, <1>8 DEF FlowsOK
<1>10. CatchOK(obj, cached_objects, uncached_objects, handle, walk, missed)
  BY <1>5, <1>8 DEF CatchOK
<1>11. turns \in 0..MaxTurns /\ missed \in SUBSET Handles /\ all_caught_up \in BOOLEAN
  BY <1>1, LLCacheAssumption
<1> QED BY <1>2, <1>5, <1>6, <1>7, <1>8, <1>9, <1>10, <1>11 DEF IInv, Sound

LEMMA NextIInv == IInv /\ [Next]_vars => IInv'
<1> SUFFICES ASSUME IInv, [Next]_vars PROVE IInv'
  OBVIOUS
<1>1. CASE UNCHANGED vars
  BY <1>1 DEF vars, IInv
<1>2. CASE Client
  <2>1. CASE \E h \in Handles, url \in Urls, download \in BOOLEAN :
                llcache_handle_retrieve(h, url, download, download)
    BY <2>1, RetrieveStep
  <2>2. CASE \E h \in Handles : llcache_handle_release(h)
    BY <2>2, ReleaseStep
  <2>3. CASE \E h, clone \in Handles : CloneAndAbort(h, clone)
    BY <2>3, CloneAndAbortStep
  <2>4. CASE \E h \in Handles : AbortFetch(h)
    BY <2>4, AbortFetchStep
  <2>5. CASE \E h \in Handles : AbortToSnapshot(h)
    BY <2>5, AbortToSnapshotStep
  <2>6. CASE \E h \in Handles : llcache_handle_force_stream(h)
    BY <2>6, ForceStreamStep
  <2>7. CASE \E h \in Handles : llcache_handle_invalidate_cache_data(h)
    BY <2>7, InvalidateStep
  <2>8. CASE \E purge \in BOOLEAN : llcache_clean(purge)
    BY <2>8, CleanStep
  <2> QED BY <1>2, <2>1, <2>2, <2>3, <2>4, <2>5, <2>6, <2>7, <2>8, Zenon DEF Client
<1>3. CASE Fetch
  <2>1. CASE \E o \in Objects, cache \in {"fresh", "validate"} : FetchHeader(o, cache)
    BY <2>1, FetchHeaderStep
  <2>2. CASE \E o \in Objects, cachable \in BOOLEAN : FetchData(o, cachable)
    BY <2>2, FetchDataStep
  <2>3. CASE \E o \in Objects : FetchFinished(o)
    BY <2>3, FetchFinishedStep
  <2>4. CASE \E o \in Objects : FetchNoMemory(o)
    BY <2>4, FetchNoMemoryStep
  <2>5. CASE \E o \in Objects : FetchError(o)
    BY <2>5, FetchErrorStep
  <2>6. CASE \E o \in Objects, url \in Urls : FetchRedirect(o, url)
    BY <2>6, FetchRedirectStep
  <2>7. CASE \E o \in Objects : Expire(o)
    BY <2>7, ExpireStep
  <2> QED BY <1>3, <2>1, <2>2, <2>3, <2>4, <2>5, <2>6, <2>7, Zenon DEF Fetch
<1>4. CASE Walk
  <2>1. CASE CatchUp
    BY <2>1, CatchUpStep
  <2>2. CASE \E h \in Handles : NothingDue(h)
    BY <2>2, NothingDueStep
  <2>3. CASE \E h \in Handles : EmitHeaders(h)
    BY <2>3, EmitHeadersStep
  <2>4. CASE \E h \in Handles : EmitData(h)
    BY <2>4, EmitDataStep
  <2>5. CASE \E h \in Handles : EmitDone(h)
    BY <2>5, EmitDoneStep
  <2>6. CASE \E h \in Handles : EmitEvent(h)
    BY <2>6, EmitEventStep
  <2>7. CASE ReturnOk
    BY <2>7, ReturnOkStep
  <2>8. CASE ReturnQueued
    BY <2>8, ReturnQueuedStep
  <2>9. CASE ReturnNeedData
    BY <2>9, ReturnNeedDataStep
  <2>10. CASE ReturnError
    BY <2>10, ReturnErrorStep
  <2>11. CASE EventsDone
    BY <2>11, EventsDoneStep
  <2>12. CASE RedirectUsers
    BY <2>12, RedirectUsersStep
  <2>13. CASE RedirectFails
    BY <2>13, RedirectFailsStep
  <2> QED BY <1>4, <2>1, <2>2, <2>3, <2>4, <2>5, <2>6, <2>7, <2>8, <2>9, <2>10, <2>11, <2>12,
             <2>13, Zenon DEF Walk
<1> QED BY <1>1, <1>2, <1>3, <1>4 DEF Next

(* The invariant holds of every execution.                                 *)
LEMMA AlwaysIInv == Spec => []IInv
  BY InitIInv, NextIInv, PTL DEF Spec

-----------------------------------------------------------------------------
(* What it says of the properties.                                         *)

LEMMA IInvType == IInv => TypeOK
<1> SUFFICES ASSUME IInv PROVE TypeOK
  OBVIOUS
<1>1. /\ obj \in Shape /\ handle \in [Handles -> Handle] /\ walk \in WalkType
      /\ ListsOK(obj, cached_objects, uncached_objects)
      /\ all_caught_up \in BOOLEAN /\ missed \in SUBSET Handles /\ turns \in 0..MaxTurns
  BY DEF IInv, Sound
<1>2. Live = LiveIn(obj) BY <1>1, LiveIs
<1>3. \A o \in Live : obj[o] \in Object BY <1>2, LiveObject
<1>4. cached_objects \in Seq(Live) /\ uncached_objects \in Seq(Live)
  BY <1>1, <1>2 DEF ListsOK
<1> QED BY <1>1, <1>3, <1>4 DEF TypeOK, WalkType

LEMMA IInvWalk == IInv => WalkSafe
<1> SUFFICES ASSUME IInv, Walking
             PROVE  /\ walk.object \in Live
                    /\ walk.user # NoHandle => walk.user \in Range(obj[walk.object].users)
  BY DEF WalkSafe
<1>1. obj \in Shape /\ WalkOK(obj, handle, walk) BY DEF IInv, Sound
<1>2. Live = LiveIn(obj) BY <1>1, LiveIs
<1> QED BY <1>1, <1>2, InRange DEF WalkOK, Walking

LEMMA IInvAttached == IInv => UsersAttached
<1> SUFFICES ASSUME IInv PROVE UsersAttached
  OBVIOUS
<1>1. obj \in Shape /\ UsersOK(obj, handle, walk) BY DEF IInv, Sound
<1>2. Live = LiveIn(obj) BY <1>1, LiveIs
<1>3. ASSUME NEW h \in Held
      PROVE  /\ handle[h].object \in Live
             /\ Cardinality({i \in DOMAIN obj[handle[h].object].users :
                                obj[handle[h].object].users[i] = h}) = 1
  <2> DEFINE s == obj[handle[h].object].users
             P == {i \in DOMAIN s : s[i] = h}
  <2>1. handle[h].object \in LiveIn(obj) /\ Holds(s, h) /\ Distinct(s)
    BY <1>1 DEF UsersOK, Held
  <2>2. PICK i \in DOMAIN s : s[i] = h BY <2>1 DEF Holds
  <2>3. P = {i} BY <2>1, <2>2 DEF Distinct
  <2>4. Cardinality(P) = 1 BY <2>3, FS_Singleton
  <2> QED BY <2>1, <2>4, <1>2
<1>4. ASSUME NEW o \in Live, NEW i \in DOMAIN obj[o].users
      PROVE  \/ obj[o].users[i] \in Held /\ handle[obj[o].users[i]].object = o
             \/ walk.queued /\ walk.user = obj[o].users[i] /\ walk.object = o
  <2> DEFINE s == obj[o].users
             u == s[i]
  <2>1. o \in LiveIn(obj) /\ s \in Seq(Handles \cup {Gone}) /\ o # NoObject
    BY <1>2, LiveObject, ObjectFields
  <2>2. u \in Handles \cup {Gone} /\ Holds(s, u)
    <3> HIDE DEF s
    <3> QED BY <2>1, <1>4, LenProperties, ElementOfSeq DEF Holds, s
  <2>3. \/ u \in Handles /\ handle[u].object = o
        \/ walk.queued /\ walk.user = u /\ walk.object = o
    BY <2>1, <2>2, <1>1 DEF UsersOK
  <2> QED BY <2>1, <2>3 DEF Held
<1> QED BY <1>3, <1>4 DEF UsersAttached

LEMMA IInvAlone == IInv => StreamAlone
<1> SUFFICES ASSUME IInv, NEW o \in Live, obj[o].stream, ~obj[o].late
             PROVE  Cardinality({h \in Held : handle[h].object = o}) <= 1
  BY DEF StreamAlone
<1> DEFINE P == {h \in Held : handle[h].object = o}
<1>1. obj \in Shape /\ StreamOK(obj, cached_objects, handle) BY DEF IInv, Sound
<1>2. \A h, k \in P : h = k
  BY <1>1, LiveIs DEF StreamOK, Held
<1>3. CASE P = {} BY <1>3, FS_EmptySet
<1>4. CASE P # {}
  <2>1. PICK h \in P : TRUE BY <1>4
  <2>2. P = {h} BY <2>1, <1>2
  <2>3. Cardinality(P) = 1 BY <2>2, FS_Singleton
  <2> QED BY <2>3
<1> QED BY <1>3, <1>4

LEMMA IInvUsers == IInv => UsersSound
  BY IInvType, IInvWalk, IInvAttached, IInvAlone DEF UsersSound

LEMMA IInvCandidates == IInv => CandidatesLive
<1> SUFFICES ASSUME IInv, NEW c \in {obj[o].candidate : o \in Live} \ {NoObject}
             PROVE  /\ c \in Live
                    /\ obj[c].candidate_count >= Cardinality({o \in Live : obj[o].candidate = c})
  BY DEF CandidatesLive
<1>1. obj \in Shape /\ CandOK(obj) BY DEF IInv, Sound
<1>2. Live = LiveIn(obj) BY <1>1, LiveIs
<1>3. PICK o \in LiveIn(obj) : obj[o].candidate = c BY <1>2
<1>4. c \in Objects BY <1>3, LiveObject, ObjectFields
<1>5. Namers(obj, c) # {} /\ Namers(obj, c) = {p \in Live : obj[p].candidate = c}
  BY <1>2, <1>3 DEF Namers
<1> QED BY <1>1, <1>2, <1>4, <1>5 DEF CandOK

LEMMA IInvCaughtUp == IInv => CaughtUp
<1> SUFFICES ASSUME IInv, all_caught_up, ~Walking, NEW h \in Held \ missed
             PROVE  DueAt(h, handle[h].object, obj[handle[h].object].state) = "none"
  BY DEF CaughtUp
<1> DEFINE o == handle[h].object
<1>1. /\ Sound(obj, cached_objects, uncached_objects, handle, walk) /\ walk.kind = "none"
      /\ CatchOK(obj, cached_objects, uncached_objects, handle, walk, missed)
      /\ handle \in [Handles -> Handle]
  BY DEF IInv, Sound, Walking
<1>2. h \in Handles /\ o # NoObject /\ h \notin missed BY DEF Held
<1>3. o \in LiveIn(obj) /\ handle[h] \in Handle BY <1>1, <1>2, HeldLive
<1>4. obj[o] \in Object /\ obj[o].state \in 0..3 BY <1>3, LiveObject, ObjectFields
<1>5. NoneDue(handle[h], obj[o], obj[o].state)
  BY <1>1, <1>2 DEF CatchOK, Ahead
<1> QED BY <1>3, <1>4, <1>5, DueIs

LEMMA IInvDone == IInv => DoneSawAll
<1> SUFFICES ASSUME IInv, NEW h \in Held, handle[h].state = COMPLETE
             PROVE  obj[handle[h].object].late \/ handle[h].got = obj[handle[h].object].total
  BY DEF DoneSawAll
<1>1. FlowsOK(obj, handle, walk) BY DEF IInv, Sound
<1> QED BY <1>1 DEF FlowsOK, FlowOK, Held

-----------------------------------------------------------------------------
(* The theorems.                                                           *)

(* A client may release, abort, clone or retrieve handles and purge the    *)
(* cache from within its callback: the object and the user that the loop   *)
(* of llcache_object_notify_users or llcache_send_event_to_users is at     *)
(* still exist when the callback returns, every handle is a user of one    *)
(* object, once, and a streamed body has one reader.                       *)
THEOREM LLCacheUsersSound == Spec => []UsersSound
  BY AlwaysIInv, IInvUsers, PTL

(* llcache_clean destroys no object that a fetch still names as the        *)
(* candidate to be revalidated: the count never falls below the number of  *)
(* objects that name it.                                                   *)
THEOREM LLCacheCandidatesLive == Spec => []CandidatesLive
  BY AlwaysIInv, IInvCandidates, PTL

(* When all_caught_up is set and no loop is under way, no user has an      *)
(* event due, but for the users that a catch-up has left out.              *)
THEOREM LLCacheCaughtUp == Spec => []CaughtUp
  BY AlwaysIInv, IInvCaughtUp, PTL

(* A user that has been told LLCACHE_EVENT_DONE has had every chunk of its *)
(* object once, unless it came with data of a redirected fetch.            *)
THEOREM LLCacheDoneSawAll == Spec => []DoneSawAll
  BY AlwaysIInv, IInvDone, PTL

(* The loops come to a user with its handle: a callback that begins is one *)
(* of a client that has not released it.                                   *)
THEOREM LLCacheReleasedUnheard == Spec => ReleasedUnheard
<1> DEFINE A == ~InCallback /\ InCallback' => walk'.user \in Held
<1>1. IInv /\ [Next]_vars => A
  <2> SUFFICES ASSUME IInv, [Next]_vars, ~InCallback, InCallback'
               PROVE  walk'.user \in Held
    OBVIOUS
  <2>1. /\ Sound(obj, cached_objects, uncached_objects, handle, walk)
        /\ obj \in Shape /\ handle \in [Handles -> Handle] /\ walk \in WalkType
        /\ UsersOK(obj, handle, walk) /\ WalkOK(obj, handle, walk)
        /\ ListsOK(obj, cached_objects, uncached_objects)
    BY DEF IInv, Sound
  <2>2. walk' # walk /\ walk'.in /\ walk'.kind # "none"
    BY DEF InCallback, Walking
  <2>3. \A o, kind, to : StartEvents(o, kind, to).in = FALSE
    BY DEF StartEvents, NoWalk
  <2>4. NoWalk.in = FALSE BY DEF NoWalk
  <2>5. ~Client
    <3>1. MayCall => ~Walking /\ \A h : ~IsTarget(h)
      BY DEF MayCall, InCallback, IsTarget
    <3>2. ASSUME NEW h, NEW url, NEW d, llcache_handle_retrieve(h, url, d, d) PROVE walk' = walk
      BY <3>2 DEF llcache_handle_retrieve
    <3>3. ASSUME NEW h, llcache_handle_release(h) PROVE walk' = walk
      BY <3>1, <3>3 DEF llcache_handle_release
    <3>4. ASSUME NEW h, NEW clone, CloneAndAbort(h, clone) PROVE walk' = walk
      BY <3>4 DEF CloneAndAbort
    <3>5. ASSUME NEW h, AbortToSnapshot(h) PROVE walk' = walk
      BY <3>1, <3>5 DEF AbortToSnapshot
    <3>6. ASSUME NEW h, AbortFetch(h) \/ llcache_handle_force_stream(h)
                        \/ llcache_handle_invalidate_cache_data(h)
          PROVE  walk' = walk
      BY <3>6 DEF AbortFetch, llcache_handle_force_stream, llcache_handle_invalidate_cache_data
    <3>7. ASSUME NEW purge, llcache_clean(purge) PROVE walk' = walk
      BY <3>7 DEF llcache_clean
    <3>8. Client => walk' = walk
      BY <3>2, <3>3, <3>4, <3>5, <3>6, <3>7, Zenon DEF Client
    <3> QED BY <3>8, <2>2
  <2>6. ~Fetch
    <3>1. ASSUME NEW o, NEW cache, FetchHeader(o, cache) PROVE walk' = walk
      BY <3>1 DEF FetchHeader
    <3>2. ASSUME NEW o, NEW cachable, FetchData(o, cachable) PROVE walk' = walk
      BY <3>2 DEF FetchData
    <3>3. ASSUME NEW o, FetchFinished(o) \/ FetchNoMemory(o) \/ Expire(o) PROVE walk' = walk
      BY <3>3 DEF FetchFinished, FetchNoMemory, Expire
    <3>4. ASSUME NEW o, FetchError(o) PROVE walk'.in = FALSE
      BY <3>4, <2>3 DEF FetchError
    <3>5. ASSUME NEW o, NEW url, FetchRedirect(o, url) PROVE walk'.in = FALSE
      BY <3>5, <2>3 DEF FetchRedirect
    <3>6. Fetch => walk' = walk \/ walk'.in = FALSE
      BY <3>1, <3>2, <3>3, <3>4, <3>5, Zenon DEF Fetch
    <3> QED BY <3>6, <2>2
  <2>7. Walk
    BY <2>2, <2>5, <2>6 DEF Next, vars
  <2>8. ~(ReturnOk \/ ReturnQueued \/ ReturnNeedData \/ ReturnError)
    BY DEF ReturnOk, ReturnQueued, ReturnNeedData, ReturnError
  <2>9. ~(EventsDone \/ RedirectUsers \/ RedirectFails)
    BY <2>2, <2>3, <2>4 DEF EventsDone, RedirectUsers, RedirectFails
  <2>10. ~CatchUp
    <3> SUFFICES ASSUME CatchUp PROVE FALSE
      OBVIOUS
    <3>1. walk' = Loops(obj, cached_objects, FALSE) BY DEF CatchUp
    <3>2. cached_objects \in Seq(LiveIn(obj)) /\ InOrder(cached_objects, cached_objects, uncached_objects)
      BY <2>1 DEF ListsOK, InOrder, Before
    <3>3. Landed(obj, handle, Loops(obj, cached_objects, FALSE))
      BY <2>1, <3>2, LoopsSound
    <3> QED BY <3>1, <3>3, <2>2 DEF Landed
  <2>11. ASSUME NEW h \in Handles, NothingDue(h) PROVE FALSE
    <3> DEFINE u == UserAfter(walk.object, h)
    <3>1. /\ Walking /\ walk.user = h /\ walk.in = FALSE /\ walk' = Onward(obj, u)
      BY <2>1, <2>11, WalkFields DEF NothingDue, Notifying
    <3>2. walk.queued = FALSE BY <2>1, <3>1, WalkFields DEF WalkOK
    <3>3. Settled(obj, handle)
      BY <2>1, <3>2, UnqueuedUsers DEF Settled
    <3>4. Follows(u)
      BY <2>1, <3>1, NextUser
    <3> HIDE DEF u
    <3>5. Goes(obj, handle, u, Onward(obj, u))
      BY <3>1, <3>3, <3>4, OnwardIs DEF Follows
    <3> QED BY <3>1, <3>5, <2>2 DEF Goes
  <2>12. PICK h \in Handles : EmitHeaders(h) \/ EmitData(h) \/ EmitDone(h) \/ EmitEvent(h)
    BY <2>7, <2>8, <2>9, <2>10, <2>11 DEF Walk
  <2>13. Walking /\ walk.user = h /\ walk.in = FALSE /\ walk'.user = walk.user
    <3>1. Walking /\ walk.user = h /\ ~walk.in
      BY <2>12 DEF EmitHeaders, EmitData, EmitDone, EmitEvent, Notifying
    <3>2. walk'.user = walk.user
      BY <2>1, <2>12 DEF EmitHeaders, EmitData, EmitDone, EmitEvent, WalkType
    <3> QED BY <3>1, <3>2, <2>1, WalkFields
  <2>14. ~walk.queued /\ walk.user # NoHandle
    BY <2>1, <2>13, LLCacheAssumption DEF WalkOK
  <2> QED BY <2>13, <2>14, TargetHeld DEF Held
<1>2. IInv /\ [Next]_vars => [A]_vars
  BY <1>1
<1> HIDE DEF A
<1>3. Spec => [][A]_vars
  BY <1>2, AlwaysIInv, PTL DEF Spec
<1> QED BY <1>3 DEF ReleasedUnheard, A
=============================================================================
