----------------------------- MODULE BodyProofs -----------------------------
(***************************************************************************)
(* Proofs about the bytes of a body: that the chunked decoder hands on     *)
(* what the server encoded (ChunkDecoder) and that the disk cache gives    *)
(* back what was put into it (DiskCache).                                  *)
(***************************************************************************)
EXTENDS DiskCache, ChunkDecoder, SeqLemmas

-----------------------------------------------------------------------------
(* DiskCache.                                                              *)

Store == [phase : {"hdr", "mime", "body", "eof"}, id : 1..MaxStores, url : Urls,
          fetch : Fetches, mark : Nat, n : Nat, len : Nat, full : BOOLEAN]

(* The i-th unit that store id of a body of len blocks writes.             *)
UnitAt(id, len, i) ==
    [store |-> id, part |-> IF i = 1 THEN "hdr" ELSE IF i = 2 THEN "mime" ELSE "body",
     n |-> IF i <= 2 THEN 0 ELSE i - 2, len |-> len]

(* The first m units of x are the ones that store id writes.               *)
Written(x, id, len, m) == \A i \in 1..m : x[i] = UnitAt(id, len, i)

(* How many units a store has tried to write.                              *)
Tried(s) == IF s.phase = "hdr" THEN 0 ELSE IF s.phase = "mime" THEN 1 ELSE 2 + s.n

(* A store in progress has its first units at the start of the file; it is *)
(* behind only if the volume is full, and then at the end of the file.     *)
StoreOK(s, x) ==
    /\ Written(x, s.id, s.len, s.mark)
    /\ s.mark <= Len(x) /\ s.len > 0 /\ s.n <= s.len
    /\ s.phase \in {"hdr", "mime"} => s.n = 0
    /\ s.phase = "body" => s.n < s.len
    /\ s.phase = "eof" => s.n = s.len
    /\ IF s.full THEN s.mark < Tried(s) /\ Len(x) = s.mark ELSE s.mark = Tried(s)

IsLast(u, k) ==
    /\ k \in DOMAIN stores /\ stores[k].url = u
    /\ \A i \in DOMAIN stores : stores[i].url = u => i <= k

(* The start, or the whole, of one store.                                  *)
BeginsOne(x) ==
    \E k, len \in Nat : len > 0 /\ Len(x) <= 2 + len /\ Written(x, k, len, Len(x))

WholeOf(x, u) ==
    \E k, len \in Nat : len > 0 /\ Len(x) = 2 + len /\ Written(x, k, len, Len(x)) /\ IsLast(u, k)

(* A file that no store is writing, by how the last one ended.             *)
FileOK(u) ==
    /\ ended[u] = "whole" => WholeOf(file[u], u)
    /\ ended[u] # "torn" => BeginsOne(file[u])
    /\ ended[u] = "never" => file[u] = <<>>

(* A reload that no store has crossed still has the flag, and is not       *)
(* answered from the cache.                                                *)
FetchOK(f) ==
    /\ f_[f].phase = "network" => f_[f].got \in Versions
    /\ f_[f].phase # "idle" /\ f_[f].reload /\ ~f_[f].crossed
          => f_[f].body = <<>> /\ (f_[f].phase = "queued" => skip)

Storing == store # NoStore /\ store # Down

(* The inductive invariant.  A file that a crash has left undecided is     *)
(* marked as torn.                                                         *)
IInv ==
    /\ TypeOK
    /\ Storing =>
          /\ StoreOK(store, file[store.url])
          /\ IsLast(store.url, store.id) /\ store.id = Len(stores)
          /\ f_[store.fetch].phase = "done"
    /\ \A u \in Urls : (Storing /\ store.url = u) \/ FileOK(u)
    /\ \A u \in Urls : store = Down /\ Unflushed(u) => ended[u] = "torn"
    /\ \A f \in Fetches : FetchOK(f)

-----------------------------------------------------------------------------
(* Files.                                                                  *)

LEMMA MinOfTwo ==
    ASSUME NEW a \in Nat, NEW b \in Nat
    PROVE  Min({a, b}) = IF a <= b THEN a ELSE b
<1>1. \E x \in {a, b} : \A y \in {a, b} : x <= y
  OBVIOUS
<1> DEFINE m == CHOOSE x \in {a, b} : \A y \in {a, b} : x <= y
<1>2. m \in {a, b} /\ \A y \in {a, b} : m <= y
  BY <1>1
<1>3. Min({a, b}) = m
  BY DEF Min
<1> HIDE DEF m
<1> QED BY <1>2, <1>3

(* The first n units of a file.                                            *)
LEMMA StartOf ==
    ASSUME NEW S, NEW x \in Seq(S), NEW n \in 0..Len(x)
    PROVE  /\ SubSeq(x, 1, n) \in Seq(S)
           /\ Len(SubSeq(x, 1, n)) = n
           /\ \A i \in 1..n : SubSeq(x, 1, n)[i] = x[i]
<1>1. Len(x) \in Nat /\ DOMAIN x = 1..Len(x)
  BY LenProperties
<1>2. \A i \in 1..n : x[i] \in S
  BY <1>1, ElementOfSeq
<1> DEFINE a == SubSeq(x, 1, n)
<1>3. /\ a \in Seq(S) /\ Len(a) = IF 1 <= n THEN n - 1 + 1 ELSE 0
      /\ \A i \in 1..n - 1 + 1 : a[i] = x[1 + i - 1]
  BY <1>1, <1>2, SubSeqProperties
<1>4. n - 1 + 1 = n /\ \A i \in 1..n : 1 + i - 1 = i
  BY <1>1
<1> HIDE DEF a
<1>5. Len(a) = n
  BY <1>1, <1>3, <1>4
<1>6. \A i \in 1..n : a[i] = x[i]
  BY <1>3, <1>4
<1> QED BY <1>3, <1>5, <1>6 DEF a

(* FSWrite at the mark replaces one unit or adds one at the end.           *)
LEMMA WriteAtFacts ==
    ASSUME NEW S, NEW x \in Seq(S), NEW e \in S, NEW m \in 0..Len(x)
    PROVE  LET y == WriteAt(x, m, e)
           IN  /\ y \in Seq(S)
               /\ Len(y) = IF m < Len(x) THEN Len(x) ELSE m + 1
               /\ \A i \in 1..m : y[i] = x[i]
               /\ y[m + 1] = e
<1>1. Len(x) \in Nat /\ DOMAIN x = 1..Len(x) /\ x \in [1..Len(x) -> S]
  BY LenProperties
<1>2. CASE m < Len(x)
  <2> DEFINE y == [x EXCEPT ![m + 1] = e]
  <2>1. y = WriteAt(x, m, e)
    BY <1>2 DEF WriteAt
  <2>2. m + 1 \in 1..Len(x) /\ \A i \in 1..m : i \in 1..Len(x) /\ i # m + 1
    BY <1>1, <1>2
  <2>3. y \in [1..Len(x) -> S] /\ y[m + 1] = e /\ \A i \in 1..m : y[i] = x[i]
    BY <1>1, <2>2
  <2> HIDE DEF y
  <2>4. y \in Seq(S) /\ Len(y) = Len(x)
    BY <1>1, <2>3, SeqDef, LenProperties
  <2> QED BY <1>2, <2>1, <2>3, <2>4
<1>3. CASE ~(m < Len(x))
  <2>2. m = Len(x)
    <3> DEFINE L == Len(x)
    <3>1. L \in Nat /\ m \in 0..L /\ ~(m < L)
      BY <1>1, <1>3
    <3> HIDE DEF L
    <3>2. m = L
      BY <3>1
    <3> QED BY <3>2 DEF L
  <2> DEFINE y == Append(x, e)
  <2>1. y = WriteAt(x, m, e)
    BY <1>3 DEF WriteAt
  <2>3. /\ y \in Seq(S) /\ Len(y) = Len(x) + 1 /\ y[Len(x) + 1] = e
        /\ \A i \in 1..Len(x) : y[i] = x[i]
    BY AppendProperties
  <2> HIDE DEF y
  <2> QED BY <1>3, <2>1, <2>2, <2>3
<1> QED BY <1>2, <1>3

LEMMA UnitAtFacts ==
    ASSUME NEW id \in 1..MaxStores, NEW len \in Nat, NEW i \in Nat \ {0}
    PROVE  UnitAt(id, len, i) \in Unit
<1>1. (IF i <= 2 THEN 0 ELSE i - 2) \in Nat
  OBVIOUS
<1> DEFINE n == IF i <= 2 THEN 0 ELSE i - 2
           part == IF i = 1 THEN "hdr" ELSE IF i = 2 THEN "mime" ELSE "body"
<1>2. part \in {"hdr", "mime", "body"}
  OBVIOUS
<1>3. UnitAt(id, len, i) = [store |-> id, part |-> part, n |-> n, len |-> len]
  BY DEF UnitAt
<1> HIDE DEF n, part
<1> QED BY <1>1, <1>2, <1>3 DEF Unit, n

(* A file that one store began is read back only if it finished it, and    *)
(* then whole.                                                             *)
LEMMA ReadsOne ==
    ASSUME NEW x \in Seq(Unit), NEW k \in Nat, NEW len \in Nat \ {0},
           Len(x) <= 2 + len, Written(x, k, len, Len(x))
    PROVE  /\ Readable(x) => Len(x) = 2 + len
           /\ Len(x) = 2 + len => /\ Readable(x)
                                  /\ OneStore(BodyOf(x))
                                  /\ BodyOf(x)[1].store = k
<1>1. Len(x) \in Nat /\ DOMAIN x = 1..Len(x)
  BY LenProperties
<1>2. ASSUME Len(x) >= 1
      PROVE  x[1].part = "hdr" /\ x[1].len = len
  <2>1. x[1] = UnitAt(k, len, 1)
    BY <1>1, <1>2 DEF Written
  <2> QED BY <2>1 DEF UnitAt
<1>3. ASSUME Readable(x) PROVE Len(x) = 2 + len
  <2>1. Len(x) >= 1 /\ Len(x) >= 2 + x[1].len
    BY <1>3 DEF Readable, HasHeader
  <2>2. Len(x) >= 2 + len
    BY <1>2, <2>1
  <2> DEFINE L == Len(x)
  <2>3. L \in Nat /\ L <= 2 + len /\ L >= 2 + len
    BY <1>1, <2>2
  <2> HIDE DEF L
  <2>4. L = 2 + len
    BY <2>3
  <2> QED BY <2>4 DEF L
<1>4. ASSUME Len(x) = 2 + len
      PROVE  Readable(x) /\ OneStore(BodyOf(x)) /\ BodyOf(x)[1].store = k
  <2>1. x[1].part = "hdr" /\ x[1].len = len
    BY <1>2, <1>4
  <2>2. Readable(x)
    BY <1>4, <2>1 DEF Readable, HasHeader
  <2> DEFINE b == SubSeq(x, 3, 2 + len)
  <2>3. BodyOf(x) = b
    BY <1>4, <2>1 DEF BodyOf
  <2>4. \A i \in 3..2 + len : x[i] \in Unit
    BY <1>1, <1>4, ElementOfSeq
  <2>5. /\ b \in Seq(Unit) /\ Len(b) = IF 3 <= 2 + len THEN (2 + len) - 3 + 1 ELSE 0
        /\ \A i \in 1..(2 + len) - 3 + 1 : b[i] = x[3 + i - 1]
    BY <2>4, SubSeqProperties
  <2>6. (2 + len) - 3 + 1 = len /\ 3 <= 2 + len /\ \A i \in 1..len : 3 + i - 1 = i + 2
    OBVIOUS
  <2> HIDE DEF b
  <2>7. Len(b) = len /\ DOMAIN b = 1..len /\ \A i \in 1..len : b[i] = x[i + 2]
    BY <2>5, <2>6, LenProperties
  <2>8. ASSUME NEW i \in 1..len
        PROVE  b[i].part = "body" /\ b[i].n = i /\ b[i].store = k /\ b[i].len = len
    <3>1. i + 2 \in 1..Len(x) /\ ~(i + 2 <= 2) /\ i + 2 # 1 /\ i + 2 # 2 /\ (i + 2) - 2 = i
      BY <1>4
    <3>2. b[i] = UnitAt(k, len, i + 2)
      BY <2>7, <3>1 DEF Written
    <3> QED BY <3>1, <3>2 DEF UnitAt
  <2>9. 1 \in 1..len
    OBVIOUS
  <2>10. OneStore(b) /\ b[1].store = k
    BY <2>7, <2>8, <2>9 DEF OneStore
  <2> QED BY <2>2, <2>3, <2>10
<1> QED BY <1>3, <1>4

-----------------------------------------------------------------------------
(* A store in progress.                                                    *)

LEMMA StoreTyped ==
    ASSUME TypeOK, Storing
    PROVE  /\ store \in Store /\ store.url \in Urls /\ file[store.url] \in Seq(Unit)
           /\ Len(file[store.url]) \in Nat
<1>1. store \in Store
  BY DEF TypeOK, Store, Storing
<1>2. store.url \in Urls
  BY <1>1 DEF Store
<1>3. file[store.url] \in Seq(Unit)
  BY <1>2 DEF TypeOK
<1> QED BY <1>1, <1>2, <1>3, LenProperties

(* The fields that one FSWrite leaves alone.                               *)
SameStore(s, t) ==
    s.id = t.id /\ s.url = t.url /\ s.fetch = t.fetch /\ s.len = t.len

InShape(s) ==
    /\ s.n <= s.len
    /\ s.phase \in {"hdr", "mime"} => s.n = 0
    /\ s.phase = "body" => s.n < s.len
    /\ s.phase = "eof" => s.n = s.len

(* One FSWrite of the unit that is due, whether the volume takes it or     *)
(* not.                                                                    *)
LEMMA WriteKeeps ==
    ASSUME TypeOK, Storing, StoreOK(store, file[store.url]),
           NEW next \in Store, SameStore(next, store), next.mark = store.mark,
           next.full <=> store.full,
           InShape(next), Tried(next) = Tried(store) + 1,
           Write(UnitAt(store.id, store.len, Tried(store) + 1), next)
    PROVE  /\ file' \in [Urls -> Seq(Unit)]
           /\ past' \in [Urls -> SUBSET Seq(Unit)]
           /\ \A u \in Urls : u # store.url => file'[u] = file[u]
           /\ store' \in Store /\ SameStore(store', store)
           /\ StoreOK(store', file'[store'.url])
<1> DEFINE u == store.url
           x == file[store.url]
           p == Tried(store)
           e == UnitAt(store.id, store.len, p + 1)
<1>1. store \in Store /\ u \in Urls /\ x \in Seq(Unit) /\ Len(x) \in Nat
  BY StoreTyped
<1>2. /\ store.id \in 1..MaxStores /\ store.len \in Nat /\ store.mark \in Nat
      /\ store.n \in Nat /\ store.full \in BOOLEAN
  BY <1>1 DEF Store
<1>3. p \in Nat
  BY <1>2 DEF Tried
<1>4. e \in Unit
  BY <1>2, <1>3, UnitAtFacts
<1>5. /\ Written(x, store.id, store.len, store.mark) /\ store.mark <= Len(x) /\ store.len > 0
      /\ store.full => store.mark < p /\ Len(x) = store.mark
      /\ ~store.full => store.mark = p
  BY DEF StoreOK
<1>6. file \in [Urls -> Seq(Unit)] /\ past \in [Urls -> SUBSET Seq(Unit)]
  BY DEF TypeOK
<1>7. \/ /\ store.mark < Len(x) \/ ~store.full
         /\ file' = [file EXCEPT ![u] = WriteAt(x, store.mark, e)]
         /\ past' = [past EXCEPT ![u] = past[u] \cup {WriteAt(x, store.mark, e)}]
         /\ store' = [next EXCEPT !.mark = next.mark + 1]
      \/ /\ store.mark >= Len(x)
         /\ store' = [next EXCEPT !.full = TRUE]
         /\ file' = file /\ past' = past
  BY DEF Write, Becomes
<1>8. SameStore(next, store) /\ next.mark = store.mark /\ InShape(next) /\ Tried(next) = p + 1
  OBVIOUS
<1> HIDE DEF u, x, p, e
<1>9. CASE /\ store.mark < Len(x) \/ ~store.full
           /\ file' = [file EXCEPT ![u] = WriteAt(x, store.mark, e)]
           /\ past' = [past EXCEPT ![u] = past[u] \cup {WriteAt(x, store.mark, e)}]
           /\ store' = [next EXCEPT !.mark = next.mark + 1]
  <2> DEFINE m == store.mark
             y == WriteAt(x, m, e)
             k == Len(x)
  <2>1. k \in Nat /\ m \in Nat /\ m <= k /\ (m < k \/ ~store.full)
        /\ (store.full => k = m)
    BY <1>1, <1>2, <1>5, <1>9
  <2>2. ~store.full /\ m = p
    <3> HIDE DEF m, k
    <3>1. ~store.full
      BY <2>1
    <3> QED BY <3>1, <1>5 DEF m
  <2>3. m \in 0..Len(x)
    BY <2>1
  <2>4. /\ y \in Seq(Unit)
        /\ Len(y) = IF m < Len(x) THEN Len(x) ELSE m + 1
        /\ \A i \in 1..m : y[i] = x[i]
        /\ y[m + 1] = e
    <3> HIDE DEF m
    <3> QED BY <1>1, <1>4, <2>3, WriteAtFacts
  <2>5. file' = [file EXCEPT ![u] = y] /\ past' = [past EXCEPT ![u] = past[u] \cup {y}]
    BY <1>9
  <2> HIDE DEF m, y, k
  <2>6. m + 1 <= Len(y)
    BY <2>1, <2>4 DEF k
  <2>7. Written(y, store.id, store.len, m + 1)
    <3>1. \A i \in 1..m : y[i] = UnitAt(store.id, store.len, i)
      BY <1>5, <2>4 DEF Written, m
    <3>2. y[m + 1] = UnitAt(store.id, store.len, m + 1)
      BY <2>2, <2>4 DEF e
    <3>3. \A i \in 1..m + 1 : i \in 1..m \/ i = m + 1
      BY <2>1
    <3> QED BY <3>1, <3>2, <3>3 DEF Written
  <2>8. /\ file' \in [Urls -> Seq(Unit)] /\ file'[u] = y /\ \A v \in Urls : v # u => file'[v] = file[v]
        /\ past' \in [Urls -> SUBSET Seq(Unit)]
    BY <2>4, <2>5, <1>1, <1>6
  <2>9. next.mark + 1 = m + 1 /\ m + 1 \in Nat
    BY <1>8, <2>1 DEF m
  <2>10. store' = [next EXCEPT !.mark = m + 1]
    BY <1>9, <2>9
  <2>11. /\ store' \in Store /\ store'.mark = m + 1
         /\ store'.phase = next.phase /\ store'.id = next.id /\ store'.url = next.url
         /\ store'.fetch = next.fetch /\ store'.n = next.n /\ store'.len = next.len
         /\ store'.full <=> next.full
    BY <2>9, <2>10 DEF Store
  <2>12. SameStore(store', store) /\ InShape(store') /\ Tried(store') = p + 1 /\ ~store'.full
    BY <1>8, <2>2, <2>11 DEF SameStore, InShape, Tried
  <2>13. StoreOK(store', y)
    BY <1>5, <2>2, <2>6, <2>7, <2>11, <2>12 DEF StoreOK, SameStore, InShape
  <2>14. store'.url = u
    BY <2>12 DEF SameStore, u
  <2> QED BY <2>8, <2>11, <2>12, <2>13, <2>14 DEF u
<1>10. CASE /\ store.mark >= Len(x)
            /\ store' = [next EXCEPT !.full = TRUE]
            /\ file' = file /\ past' = past
  <2>1. /\ store' \in Store /\ store'.mark = next.mark /\ store'.full
        /\ store'.phase = next.phase /\ store'.id = next.id /\ store'.url = next.url
        /\ store'.fetch = next.fetch /\ store'.n = next.n /\ store'.len = next.len
    BY <1>10 DEF Store
  <2>2. SameStore(store', store) /\ InShape(store') /\ Tried(store') = p + 1
    BY <1>8, <2>1 DEF SameStore, InShape, Tried
  <2>3. store'.mark = store.mark
    BY <1>8, <2>1
  <2>4. Len(x) = store.mark /\ store.mark < p + 1
    BY <1>1, <1>2, <1>3, <1>5, <1>10
  <2>5. StoreOK(store', x)
    BY <1>5, <2>1, <2>2, <2>3, <2>4 DEF StoreOK, SameStore, InShape
  <2>6. store'.url = u /\ file'[u] = x
    BY <1>10, <2>2 DEF SameStore, u, x
  <2> QED BY <1>6, <1>10, <2>1, <2>2, <2>5, <2>6
<1> QED BY <1>7, <1>9, <1>10

-----------------------------------------------------------------------------
(* The invariant.                                                          *)

LEMMA FetchTyped ==
    ASSUME TypeOK, NEW f \in Fetches, f_[f].phase # "idle"
    PROVE  f_[f] \in Fetch
BY DEF TypeOK, Idle

(* A file that no step touches, while the list of stores grows at most by  *)
(* one of another URL.                                                     *)
LEMMA FileStays ==
    ASSUME NEW u \in Urls, FileOK(u), file'[u] = file[u], ended'[u] = ended[u],
           stores \in Seq([url : Urls, version : Versions]),
           \/ stores' = stores
           \/ \E s \in [url : Urls, version : Versions] : s.url # u /\ stores' = Append(stores, s)
    PROVE  FileOK(u)'
<1>1. ASSUME NEW k \in Nat, IsLast(u, k) PROVE IsLast(u, k)'
  <2>1. CASE stores' = stores
    BY <1>1, <2>1 DEF IsLast
  <2>2. ASSUME NEW s \in [url : Urls, version : Versions], s.url # u, stores' = Append(stores, s)
        PROVE  IsLast(u, k)'
    <3>1. Len(stores) \in Nat /\ DOMAIN stores = 1..Len(stores)
      BY LenProperties
    <3>2. /\ stores' \in Seq([url : Urls, version : Versions])
          /\ Len(stores') = Len(stores) + 1 /\ stores'[Len(stores) + 1] = s
          /\ \A i \in 1..Len(stores) : stores'[i] = stores[i]
      BY <2>2, AppendProperties
    <3>3. DOMAIN stores' = 1..Len(stores) + 1
      BY <3>2, LenProperties
    <3>4. \A i \in DOMAIN stores' : i \in DOMAIN stores \/ i = Len(stores) + 1
      BY <3>1, <3>3
    <3>5. k \in DOMAIN stores' /\ stores'[k].url = u
      BY <1>1, <3>1, <3>2, <3>3 DEF IsLast
    <3>6. \A i \in DOMAIN stores' : stores'[i].url = u => i <= k
      BY <1>1, <2>2, <3>1, <3>2, <3>4 DEF IsLast
    <3> QED BY <3>5, <3>6 DEF IsLast
  <2> QED BY <2>1, <2>2
<1>2. WholeOf(file[u], u) => WholeOf(file[u], u)'
  <2> SUFFICES ASSUME WholeOf(file[u], u) PROVE WholeOf(file[u], u)'
    OBVIOUS
  <2>1. PICK k, len \in Nat : /\ len > 0 /\ Len(file[u]) = 2 + len
                              /\ Written(file[u], k, len, Len(file[u])) /\ IsLast(u, k)
    BY DEF WholeOf
  <2>2. IsLast(u, k)'
    BY <1>1, <2>1
  <2>3. len > 0 /\ Len(file'[u]) = 2 + len /\ Written(file'[u], k, len, Len(file'[u]))
    BY <2>1
  <2> QED BY <2>2, <2>3 DEF WholeOf, Written
<1> QED BY <1>2 DEF FileOK, BeginsOne, Written

(* The fetches, when one of them changes and the flag stays.               *)
LEMMA OneFetchKeeps ==
    ASSUME TypeOK, NEW f \in Fetches, \A g \in Fetches : FetchOK(g), NEW x \in Fetch,
           f_' = [f_ EXCEPT ![f] = x], skip => skip',
           x.phase = "network" => x.got \in Versions,
           x.reload /\ ~x.crossed => x.body = <<>> /\ (x.phase = "queued" => skip')
    PROVE  /\ f_' \in [Fetches -> Fetch \cup {Idle}]
           /\ \A g \in Fetches : FetchOK(g)'
           /\ \A g \in Fetches : g # f => f_'[g] = f_[g]
<1>1. /\ f_' \in [Fetches -> Fetch \cup {Idle}] /\ f_'[f] = x
      /\ \A g \in Fetches : g # f => f_'[g] = f_[g]
  BY DEF TypeOK
<1>2. \A g \in Fetches : FetchOK(g)'
  BY <1>1 DEF FetchOK
<1> QED BY <1>1, <1>2

LEMMA BodyTyped ==
    ASSUME NEW x \in Seq(Unit), Readable(x)
    PROVE  BodyOf(x) \in Seq(Unit)
<1>1. Len(x) \in Nat /\ DOMAIN x = 1..Len(x) /\ Len(x) >= 1
  BY LenProperties DEF Readable, HasHeader
<1>2. x[1] \in Unit
  BY <1>1, ElementOfSeq
<1>3. x[1].len \in Nat
  BY <1>2 DEF Unit
<1> DEFINE n == IF Len(x) < 2 + x[1].len THEN Len(x) ELSE 2 + x[1].len
<1>4. n \in Nat /\ n <= Len(x)
  BY <1>1, <1>3
<1> HIDE DEF n
<1>5. \A i \in 3..n : x[i] \in Unit
  BY <1>1, <1>4, ElementOfSeq
<1>6. SubSeq(x, 3, n) \in Seq(Unit)
  BY <1>4, <1>5, SubSeqProperties
<1> QED BY <1>6 DEF BodyOf, n

LEMMA InitIInv == Init => IInv
<1> SUFFICES ASSUME Init PROVE IInv
  OBVIOUS
<1>1. /\ <<>> \in Seq(Unit) /\ <<>> \in Seq([url : Urls, version : Versions])
      /\ Len(<<>>) = 0
  BY EmptySeq, LenProperties
<1>2. 1 \in Versions
  BY BoundsAssumption DEF Versions
<1>3. TypeOK
  BY <1>1, <1>2 DEF Init, TypeOK
<1>4. ASSUME NEW u \in Urls PROVE FileOK(u)
  <2>1. BeginsOne(<<>>)
    <3>1. /\ 1 \in Nat /\ 1 > 0 /\ Len(<<>>) <= 2 + 1
          /\ Written(<<>>, 1, 1, Len(<<>>))
      BY <1>1 DEF Written
    <3> QED BY <3>1 DEF BeginsOne
  <2> QED BY <2>1 DEF Init, FileOK
<1>5. \A f \in Fetches : FetchOK(f)
  BY DEF Init, FetchOK, Idle
<1>6. ~Storing /\ store # Down
  BY DEF Init, Storing, NoStore, Down
<1> QED BY <1>3, <1>4, <1>5, <1>6 DEF IInv

(* What the fetches do between two stores.                                 *)
LEMMA FetchStep ==
    ASSUME IInv, store = NoStore, NEW f \in Fetches, NEW x \in Fetch,
           f_' = [f_ EXCEPT ![f] = x],
           x.phase = "network" => x.got \in Versions,
           x.reload /\ ~x.crossed => x.body = <<>> /\ (x.phase = "queued" => skip'),
           skip => skip', skip' \in BOOLEAN,
           UNCHANGED <<file, past, server, store, stores, ended>>
    PROVE  IInv'
<1>1. /\ f_' \in [Fetches -> Fetch \cup {Idle}]
      /\ \A g \in Fetches : FetchOK(g)'
  BY OneFetchKeeps DEF IInv
<1>2. TypeOK'
  BY <1>1 DEF IInv, TypeOK
<1>3. \A u \in Urls : FileOK(u)'
  BY FileStays DEF IInv, TypeOK, Storing
<1>4. ~Storing' /\ store' # Down
  BY DEF Storing, NoStore, Down
<1> QED BY <1>1, <1>2, <1>3, <1>4 DEF IInv

LEMMA FetchesStep ==
    ASSUME IInv, NEW f \in Fetches, NEW u \in Urls,
           FetchPage(f, u) \/ Reload(f, u) \/ LookupHit(f) \/ LookupMiss(f) \/ FinishUnstored(f)
    PROVE  IInv'
<1> DEFINE y == f_[f]
           begun(reload) == [phase |-> "queued", url |-> u, reload |-> reload,
                             since |-> server[u], crossed |-> FALSE, got |-> 0, body |-> <<>>]
<1>1. TypeOK /\ FetchOK(f)
  BY DEF IInv
<1>2. server[u] \in Versions /\ <<>> \in Seq(Unit) /\ skip \in BOOLEAN
  BY <1>1, EmptySeq DEF TypeOK
<1>3. ASSUME NEW r \in BOOLEAN
      PROVE  begun(r) \in Fetch /\ begun(r).phase = "queued" /\ begun(r).body = <<>>
             /\ (begun(r).reload <=> r)
  BY <1>2 DEF Fetch
<1>4. CASE FetchPage(f, u)
  <2> DEFINE x == begun(FALSE)
  <2>1. /\ store = NoStore /\ f_' = [f_ EXCEPT ![f] = x]
        /\ UNCHANGED <<file, past, skip, server, store, stores, ended>>
    BY <1>4 DEF FetchPage, Begin
  <2>2. x \in Fetch /\ x.phase = "queued" /\ ~x.reload
    BY <1>3
  <2> HIDE DEF x
  <2> QED BY <1>2, <2>1, <2>2, FetchStep
<1>5. CASE Reload(f, u)
  <2> DEFINE x == begun(TRUE)
  <2>1. /\ store = NoStore /\ f_' = [f_ EXCEPT ![f] = x] /\ skip' = TRUE
        /\ UNCHANGED <<file, past, server, store, stores, ended>>
    BY <1>5 DEF Reload, Begin
  <2>2. x \in Fetch /\ x.phase = "queued" /\ x.body = <<>>
    BY <1>3
  <2> HIDE DEF x
  <2> QED BY <2>1, <2>2, FetchStep
<1>6. CASE LookupHit(f)
  <2> DEFINE b == BodyOf(file[y.url])
             x == [y EXCEPT !.phase = "done", !.body = b]
  <2>1. /\ store = NoStore /\ y.phase = "queued" /\ ~skip /\ Readable(file[y.url])
        /\ f_' = [f_ EXCEPT ![f] = x]
        /\ UNCHANGED <<file, past, skip, server, store, stores, ended>>
    BY <1>6 DEF LookupHit
  <2>2. y \in Fetch
    BY <1>1, <2>1, FetchTyped
  <2>3. y.url \in Urls
    BY <2>2 DEF Fetch
  <2>4. file[y.url] \in Seq(Unit)
    BY <1>1, <2>3 DEF TypeOK
  <2>5. b \in Seq(Unit)
    BY <2>1, <2>4, BodyTyped
  <2> HIDE DEF b, y
  <2>6. /\ x \in Fetch /\ x.phase = "done"
        /\ x.reload <=> y.reload
        /\ x.crossed <=> y.crossed
    BY <2>2, <2>5 DEF Fetch
  <2>7. ~(y.reload /\ ~y.crossed)
    BY <1>1, <2>1 DEF FetchOK, y
  <2> HIDE DEF x
  <2> QED BY <1>2, <2>1, <2>6, <2>7, FetchStep
<1>7. CASE LookupMiss(f)
  <2> DEFINE v == server[y.url]
             x == [y EXCEPT !.phase = "network", !.got = v]
  <2>1. /\ store = NoStore /\ y.phase = "queued"
        /\ f_' = [f_ EXCEPT ![f] = x]
        /\ UNCHANGED <<file, past, skip, server, store, stores, ended>>
    BY <1>7 DEF LookupMiss
  <2>2. y \in Fetch
    BY <1>1, <2>1, FetchTyped
  <2>3. y.url \in Urls
    BY <2>2 DEF Fetch
  <2>4. v \in Versions
    BY <1>1, <2>3 DEF TypeOK
  <2>5. y.reload /\ ~y.crossed => y.body = <<>>
    BY <1>1, <2>1 DEF FetchOK
  <2> HIDE DEF v, y
  <2>6. /\ x \in Fetch /\ x.phase = "network" /\ x.got = v /\ x.body = y.body
        /\ x.reload <=> y.reload
        /\ x.crossed <=> y.crossed
    BY <2>2, <2>4 DEF Fetch
  <2> HIDE DEF x
  <2> QED BY <1>2, <2>1, <2>4, <2>5, <2>6, FetchStep
<1>8. CASE FinishUnstored(f)
  <2> DEFINE x == [y EXCEPT !.phase = "done"]
  <2>1. /\ store = NoStore /\ y.phase = "network"
        /\ f_' = [f_ EXCEPT ![f] = x]
        /\ UNCHANGED <<file, past, skip, server, store, stores, ended>>
    BY <1>8 DEF FinishUnstored
  <2>2. y \in Fetch
    BY <1>1, <2>1, FetchTyped
  <2>3. y.reload /\ ~y.crossed => y.body = <<>>
    BY <1>1, <2>1 DEF FetchOK
  <2> HIDE DEF y
  <2>4. /\ x \in Fetch /\ x.phase = "done" /\ x.body = y.body
        /\ x.reload <=> y.reload
        /\ x.crossed <=> y.crossed
    BY <2>2 DEF Fetch
  <2> HIDE DEF x
  <2> QED BY <1>2, <2>1, <2>3, <2>4, FetchStep
<1> QED BY <1>4, <1>5, <1>6, <1>7, <1>8

LEMMA ServerEditStep ==
    ASSUME IInv, NEW u \in Urls, ServerEdit(u)
    PROVE  IInv'
<1>1. /\ store = NoStore /\ server[u] < MaxVersion
      /\ server' = [server EXCEPT ![u] = server[u] + 1]
      /\ UNCHANGED <<file, past, skip, f_, store, stores, ended>>
  BY DEF ServerEdit
<1>2. server \in [Urls -> Versions] /\ server[u] \in Versions
  BY DEF IInv, TypeOK
<1>3. server[u] + 1 \in Versions
  BY <1>1, <1>2, BoundsAssumption DEF Versions
<1>4. server' \in [Urls -> Versions]
  BY <1>1, <1>2, <1>3
<1>5. TypeOK'
  BY <1>1, <1>4 DEF IInv, TypeOK
<1>6. \A v \in Urls : FileOK(v)'
  BY <1>1, FileStays DEF IInv, TypeOK, Storing
<1>7. \A g \in Fetches : FetchOK(g)'
  BY <1>1 DEF IInv, FetchOK
<1>8. ~Storing' /\ store' # Down
  BY <1>1 DEF Storing, NoStore, Down
<1> QED BY <1>5, <1>6, <1>7, <1>8 DEF IInv

LEMMA StoreOpenStep ==
    ASSUME IInv, NEW f \in Fetches, StoreOpen(f)
    PROVE  IInv'
<1> DEFINE y == f_[f]
           u == f_[f].url
           id == Len(stores) + 1
           len == Blocks[f_[f].got]
           rec == [url |-> u, version |-> f_[f].got]
           new == [phase |-> "hdr", id |-> id, url |-> u, fetch |-> f, mark |-> 0, n |-> 0,
                   len |-> len, full |-> FALSE]
           x == [y EXCEPT !.phase = "done"]
           R == [url : Urls, version : Versions]
<1>1. /\ store = NoStore /\ y.phase = "network" /\ Len(stores) < MaxStores
      /\ store' = new /\ stores' = Append(stores, rec)
      /\ f_' = [f_ EXCEPT ![f] = x]
      /\ UNCHANGED <<file, past, skip, server, ended>>
  BY DEF StoreOpen
<1>2. TypeOK /\ FetchOK(f) /\ \A g \in Fetches : FetchOK(g)
  BY DEF IInv
<1>3. y \in Fetch
  BY <1>1, <1>2, FetchTyped
<1>4. u \in Urls /\ y.got \in Versions /\ (y.reload /\ ~y.crossed => y.body = <<>>)
  BY <1>1, <1>2, <1>3 DEF Fetch, FetchOK
<1>5. len \in Nat \ {0}
  BY <1>4, BlocksAssumption DEF Versions
<1>6. stores \in Seq(R) /\ Len(stores) \in Nat /\ DOMAIN stores = 1..Len(stores)
  BY <1>2, LenProperties DEF TypeOK
<1>7. id \in 1..MaxStores
  BY <1>1, <1>6, BoundsAssumption
<1>8. rec \in R /\ rec.url = u
  BY <1>4
<1>9. file \in [Urls -> Seq(Unit)] /\ Len(file[u]) \in Nat
  BY <1>2, <1>4, LenProperties DEF TypeOK
<1>10. /\ x \in Fetch /\ x.phase = "done" /\ x.body = y.body
       /\ x.reload <=> y.reload
       /\ x.crossed <=> y.crossed
  <2> HIDE DEF y
  <2> QED BY <1>3 DEF Fetch
<1> HIDE DEF x, rec, len, R
<1>12. /\ new \in Store /\ new.phase = "hdr" /\ new.id = id /\ new.url = u /\ new.fetch = f
       /\ new.mark = 0 /\ new.n = 0 /\ new.len = len /\ ~new.full
       /\ new # NoStore /\ new # Down
  <2> HIDE DEF id, u
  <2> QED BY <1>4, <1>5, <1>7 DEF Store, NoStore, Down
<1>13. /\ stores' \in Seq(R) /\ Len(stores') = id /\ stores'[id] = rec
       /\ DOMAIN stores' = 1..id
  BY <1>1, <1>6, <1>8, AppendProperties, LenProperties
<1>14. /\ id \in DOMAIN stores' /\ stores'[id].url = u
       /\ \A i \in DOMAIN stores' : stores'[i].url = u => i <= id
  BY <1>6, <1>8, <1>13
<1>15. StoreOK(new, file[u])
  <2>1. Written(file[u], new.id, new.len, new.mark)
    BY <1>12 DEF Written
  <2>2. Tried(new) = 0
    BY <1>12 DEF Tried
  <2> HIDE DEF new
  <2> QED BY <1>5, <1>9, <1>12, <2>1, <2>2 DEF StoreOK
<1>16. /\ f_' \in [Fetches -> Fetch \cup {Idle}]
       /\ \A g \in Fetches : FetchOK(g)'
       /\ f_'[f] = x
  <2>1. /\ f_' \in [Fetches -> Fetch \cup {Idle}]
        /\ \A g \in Fetches : FetchOK(g)'
    BY <1>1, <1>2, <1>4, <1>10, OneFetchKeeps
  <2>2. f_'[f] = x
    BY <1>1, <1>2 DEF TypeOK
  <2> QED BY <2>1, <2>2
<1> HIDE DEF new, u, id
<1>17. TypeOK'
  <2>1. store'.n <= store'.len /\ store'.mark <= Len(file'[store'.url])
    BY <1>1, <1>5, <1>9, <1>12
  <2>2. store' \in [phase : {"hdr", "mime", "body", "eof"}, id : 1..MaxStores, url : Urls,
                    fetch : Fetches, mark : Nat, n : Nat, len : Nat, full : BOOLEAN]
    BY <1>1, <1>12 DEF Store
  <2>3. stores' \in Seq([url : Urls, version : Versions])
    BY <1>13 DEF R
  <2> QED BY <1>1, <1>2, <1>16, <2>1, <2>2, <2>3 DEF TypeOK
<1>18. ASSUME NEW v \in Urls, v # u PROVE FileOK(v)'
  <2>1. FileOK(v)
    BY <1>1 DEF IInv, Storing
  <2> QED BY <2>1, <1>1, <1>6, <1>8, <1>18, FileStays DEF R
<1>19. store' # NoStore /\ store' # Down /\ StoreOK(store', file'[store'.url]) /\ store'.url = u /\ store'.id = id
       /\ store'.fetch = f
  BY <1>1, <1>12, <1>15
<1>20. /\ Storing' =>
             /\ StoreOK(store', file'[store'.url])
             /\ IsLast(store.url, store.id)' /\ store'.id = Len(stores')
             /\ f_'[store'.fetch].phase = "done"
  BY <1>10, <1>13, <1>14, <1>16, <1>19 DEF IsLast
<1>21. \A v \in Urls : (Storing' /\ store'.url = v) \/ FileOK(v)'
  BY <1>18, <1>19 DEF Storing
<1> QED BY <1>16, <1>17, <1>19, <1>20, <1>21 DEF IInv

LEMMA WritesStep ==
    ASSUME IInv, WriteHeader \/ WriteMime \/ WriteBody
    PROVE  IInv'
<1>1. Storing
  BY DEF WriteHeader, WriteMime, WriteBody, Storing, NoStore, Down
<1>2. TypeOK /\ StoreOK(store, file[store.url]) /\ UNCHANGED <<skip, server, f_, stores, ended>>
  BY <1>1 DEF IInv, WriteHeader, WriteMime, WriteBody
<1>3. store \in Store
  BY <1>1, <1>2, StoreTyped
<1>4. store.n \in Nat /\ store.len \in Nat /\ store.id \in 1..MaxStores
  BY <1>3 DEF Store
<1>5. PICK next \in Store :
         /\ SameStore(next, store) /\ next.mark = store.mark
         /\ next.full <=> store.full
         /\ InShape(next) /\ Tried(next) = Tried(store) + 1
         /\ Write(UnitAt(store.id, store.len, Tried(store) + 1), next)
  <2>1. CASE WriteHeader
    <3> DEFINE next == [store EXCEPT !.phase = "mime"]
    <3>1. store.phase = "hdr" /\ Write(UnitOf("hdr", 0), next)
      BY <2>1 DEF WriteHeader
    <3>2. /\ next \in Store /\ next.phase = "mime" /\ next.n = store.n /\ next.len = store.len
          /\ next.mark = store.mark /\ next.id = store.id /\ next.url = store.url
          /\ next.fetch = store.fetch
          /\ next.full <=> store.full
      BY <1>3 DEF Store
    <3> HIDE DEF next
    <3>3. UnitOf("hdr", 0) = UnitAt(store.id, store.len, 0 + 1)
      BY DEF UnitOf, UnitAt
    <3>4. Tried(store) = 0 /\ Tried(next) = 0 + 1
      BY <3>1, <3>2 DEF Tried
    <3>5. InShape(next) /\ SameStore(next, store)
      BY <1>2, <3>1, <3>2 DEF InShape, SameStore, StoreOK
    <3> QED BY <3>1, <3>2, <3>3, <3>4, <3>5
  <2>2. CASE WriteMime
    <3> DEFINE next == [store EXCEPT !.phase = "body"]
    <3>1. store.phase = "mime" /\ Write(UnitOf("mime", 0), next)
      BY <2>2 DEF WriteMime
    <3>2. /\ next \in Store /\ next.phase = "body" /\ next.n = store.n /\ next.len = store.len
          /\ next.mark = store.mark /\ next.id = store.id /\ next.url = store.url
          /\ next.fetch = store.fetch
          /\ next.full <=> store.full
      BY <1>3 DEF Store
    <3> HIDE DEF next
    <3>3. UnitOf("mime", 0) = UnitAt(store.id, store.len, 1 + 1)
      BY DEF UnitOf, UnitAt
    <3>4. store.n = 0 /\ store.len > 0
      BY <1>2, <3>1 DEF StoreOK
    <3>5. Tried(store) = 1 /\ Tried(next) = 1 + 1
      BY <3>1, <3>2, <3>4 DEF Tried
    <3>6. InShape(next) /\ SameStore(next, store)
      BY <1>4, <3>2, <3>4 DEF InShape, SameStore
    <3> QED BY <3>1, <3>2, <3>3, <3>5, <3>6
  <2>3. CASE WriteBody
    <3> DEFINE n == store.n + 1
               phase == IF n = store.len THEN "eof" ELSE store.phase
               next == [store EXCEPT !.n = n, !.phase = phase]
    <3>1. store.phase = "body" /\ Write(UnitOf("body", n), next)
      BY <2>3 DEF WriteBody
    <3>2. n \in Nat /\ phase \in {"body", "eof"} /\ (phase = "eof" <=> n = store.len)
      BY <1>4, <3>1
    <3>3. store.n < store.len
      BY <1>2, <3>1 DEF StoreOK
    <3>4. UnitOf("body", n) = UnitAt(store.id, store.len, (2 + store.n) + 1)
      <4>1. /\ ~((2 + store.n) + 1 <= 2) /\ (2 + store.n) + 1 # 1 /\ (2 + store.n) + 1 # 2
            /\ ((2 + store.n) + 1) - 2 = n
        BY <1>4
      <4> QED BY <4>1 DEF UnitOf, UnitAt
    <3>5. 2 + n = (2 + store.n) + 1 /\ n <= store.len
      BY <1>4, <3>3
    <3> HIDE DEF n, phase
    <3>6. /\ next \in Store /\ next.phase = phase /\ next.n = n /\ next.len = store.len
          /\ next.mark = store.mark /\ next.id = store.id /\ next.url = store.url
          /\ next.fetch = store.fetch
          /\ next.full <=> store.full
      BY <1>3, <3>2 DEF Store
    <3> HIDE DEF next
    <3>7. Tried(store) = 2 + store.n /\ Tried(next) = (2 + store.n) + 1
      BY <3>1, <3>2, <3>5, <3>6 DEF Tried
    <3>8. InShape(next) /\ SameStore(next, store)
      BY <1>4, <3>2, <3>5, <3>6 DEF InShape, SameStore
    <3> QED BY <3>1, <3>4, <3>6, <3>7, <3>8
  <2> QED BY <2>1, <2>2, <2>3
<1>6. /\ file' \in [Urls -> Seq(Unit)]
      /\ past' \in [Urls -> SUBSET Seq(Unit)]
      /\ \A u \in Urls : u # store.url => file'[u] = file[u]
      /\ store' \in Store /\ SameStore(store', store)
      /\ StoreOK(store', file'[store'.url])
  BY <1>1, <1>2, <1>5, WriteKeeps
<1>7. /\ store' # NoStore /\ store' # Down
      /\ store'.url = store.url /\ store'.id = store.id /\ store'.fetch = store.fetch
  BY <1>6 DEF Store, NoStore, Down, SameStore
<1>8. TypeOK'
  <2>1. store' \in [phase : {"hdr", "mime", "body", "eof"}, id : 1..MaxStores, url : Urls,
                    fetch : Fetches, mark : Nat, n : Nat, len : Nat, full : BOOLEAN]
    BY <1>6 DEF Store
  <2>2. store'.n <= store'.len /\ store'.mark <= Len(file'[store'.url])
    BY <1>6 DEF StoreOK
  <2> QED BY <1>2, <1>6, <2>1, <2>2 DEF TypeOK
<1>9. ASSUME NEW u \in Urls, store'.url # u PROVE FileOK(u)'
  <2>1. FileOK(u) /\ file'[u] = file[u]
    BY <1>6, <1>7, <1>9 DEF IInv
  <2> QED BY <2>1, <1>2, FileStays DEF TypeOK
<1>10. \A g \in Fetches : FetchOK(g)'
  BY <1>2 DEF IInv, FetchOK
<1>11. /\ IsLast(store.url, store.id)' /\ store'.id = Len(stores') /\ f_'[store'.fetch].phase = "done"
  BY <1>1, <1>2, <1>7 DEF IInv, IsLast
<1>12. \A u \in Urls : (Storing' /\ store'.url = u) \/ FileOK(u)'
  BY <1>7, <1>9 DEF Storing
<1> QED BY <1>6, <1>7, <1>8, <1>10, <1>11, <1>12 DEF IInv

(* The end of a store that the volume took: the file is this store.  One   *)
(* that it did not take to the end leaves a part of it.                    *)
LEMMA StoreEndStep ==
    ASSUME IInv, StoreEnd
    PROVE  IInv'
<1> DEFINE u == store.url
           x == file[store.url]
           n == Min({Len(x), 2 + store.len})
           y == SubSeq(x, 1, n)
           how == IF store.full THEN "short" ELSE "whole"
<1>1. /\ store.phase = "eof" /\ Storing
      /\ file' = [file EXCEPT ![u] = y]
      /\ past' = [past EXCEPT ![u] = past[u] \cup {y}]
      /\ skip' = FALSE
      /\ f_' = [f \in Fetches |->
             IF f # store.fetch /\ f_[f].phase = "queued" THEN [f_[f] EXCEPT !.crossed = TRUE]
             ELSE f_[f]]
      /\ ended' = [ended EXCEPT ![u] = how]
      /\ store' = NoStore
      /\ server' = server /\ stores' = stores
  BY DEF StoreEnd, Becomes, Storing, NoStore, Down
<1>2. /\ TypeOK /\ StoreOK(store, x) /\ IsLast(u, store.id)
      /\ f_[store.fetch].phase = "done" /\ \A f \in Fetches : FetchOK(f)
  BY <1>1 DEF IInv
<1>3. store \in Store /\ u \in Urls /\ x \in Seq(Unit) /\ Len(x) \in Nat
  BY <1>1, <1>2, StoreTyped
<1>4. store.id \in Nat /\ store.len \in Nat /\ store.n \in Nat /\ store.mark \in Nat
      /\ store.full \in BOOLEAN
  BY <1>3 DEF Store
<1>5. /\ Written(x, store.id, store.len, store.mark) /\ store.mark <= Len(x) /\ store.len > 0
      /\ store.full => store.mark < 2 + store.len /\ Len(x) = store.mark
      /\ ~store.full => store.mark = 2 + store.len
  BY <1>1, <1>2 DEF StoreOK, Tried
<1>6. n = IF Len(x) <= 2 + store.len THEN Len(x) ELSE 2 + store.len
  BY <1>3, <1>4, MinOfTwo, SMTT(60)
<1> HIDE DEF n, x, u
<1>7. n = store.mark /\ n \in 0..Len(x) /\ n <= 2 + store.len /\ (~store.full => n = 2 + store.len)
  <2>1. CASE store.full
    BY <2>1, <1>3, <1>4, <1>5, <1>6
  <2>2. CASE ~store.full
    BY <2>2, <1>3, <1>4, <1>5, <1>6
  <2> QED BY <2>1, <2>2
<1>8. y \in Seq(Unit) /\ Len(y) = n /\ \A i \in 1..n : y[i] = x[i]
  BY <1>3, <1>7, StartOf
<1> HIDE DEF y
<1>9. Written(y, store.id, store.len, Len(y))
  BY <1>5, <1>7, <1>8 DEF Written
<1>10. /\ file' \in [Urls -> Seq(Unit)] /\ file'[u] = y
       /\ past' \in [Urls -> SUBSET Seq(Unit)]
       /\ \A v \in Urls : v # u => file'[v] = file[v]
  BY <1>1, <1>2, <1>3, <1>8 DEF TypeOK
<1>11. /\ ended' \in [Urls -> {"never", "whole", "short", "torn"}] /\ ended'[u] = how
       /\ \A v \in Urls : v # u => ended'[v] = ended[v]
  BY <1>1, <1>2, <1>3 DEF TypeOK
<1>12. how \in {"short", "whole"} /\ (how = "whole" => ~store.full)
  BY <1>4
<1> HIDE DEF how
<1>13. BeginsOne(y) /\ (~store.full => WholeOf(y, u))
  BY <1>2, <1>4, <1>5, <1>7, <1>8, <1>9 DEF BeginsOne, WholeOf
<1>14. IsLast(u, store.id)
  BY <1>2
<1>15. ASSUME NEW v \in Urls PROVE FileOK(v)'
  <2>1. CASE v = u
    <3>1. ended'[v] = "whole" => WholeOf(file[v], v)'
      <4> SUFFICES ASSUME ended'[v] = "whole" PROVE WholeOf(file[v], v)'
        OBVIOUS
      <4>1. WholeOf(y, v)
        BY <2>1, <1>11, <1>12, <1>13
      <4> QED BY <4>1, <2>1, <1>1, <1>10 DEF WholeOf, IsLast, Written
    <3>2. BeginsOne(file'[v])
      BY <2>1, <1>10, <1>13
    <3>3. ended'[v] # "never"
      BY <2>1, <1>11, <1>12
    <3> QED BY <3>1, <3>2, <3>3 DEF FileOK, BeginsOne, Written
  <2>2. CASE v # u
    <3>1. FileOK(v)
      BY <2>2 DEF IInv, u
    <3> QED BY <2>2, <3>1, <1>1, <1>2, <1>10, <1>11, FileStays DEF TypeOK
  <2> QED BY <2>1, <2>2
<1>16. ASSUME NEW f \in Fetches PROVE f_'[f] \in Fetch \cup {Idle} /\ FetchOK(f)'
  <2>1. CASE f # store.fetch /\ f_[f].phase = "queued"
    <3> DEFINE z == [f_[f] EXCEPT !.crossed = TRUE]
    <3>1. f_[f] \in Fetch
      BY <2>1, <1>2, FetchTyped
    <3>2. z \in Fetch /\ z.phase = f_[f].phase /\ z.crossed
      BY <3>1 DEF Fetch
    <3>3. f_'[f] = z
      BY <1>1, <2>1
    <3> HIDE DEF z
    <3> QED BY <2>1, <3>2, <3>3 DEF FetchOK
  <2>2. CASE ~(f # store.fetch /\ f_[f].phase = "queued")
    <3>1. f_'[f] = f_[f]
      BY <1>1, <2>2
    <3>2. f_[f].phase # "queued"
      BY <2>2, <1>2
    <3>3. f_[f] \in Fetch \cup {Idle}
      BY <1>2 DEF TypeOK
    <3> QED BY <1>2, <3>1, <3>2, <3>3 DEF FetchOK
  <2> QED BY <2>1, <2>2
<1>17. f_' \in [Fetches -> Fetch \cup {Idle}]
  <2>1. f_' = [f \in Fetches |-> f_'[f]]
    BY <1>1
  <2> QED BY <2>1, <1>16
<1>18. TypeOK'
  BY <1>1, <1>2, <1>10, <1>11, <1>17 DEF TypeOK
<1>19. ~Storing' /\ store' # Down
  BY <1>1 DEF Storing, NoStore, Down
<1> QED BY <1>15, <1>16, <1>18, <1>19 DEF IInv

(* A flush, like a restart, changes nothing that a lookup sees.            *)
LEMMA FlushStep ==
    ASSUME IInv, NEW us \in SUBSET Urls, FlushVol(us)
    PROVE  IInv'
<1>1. /\ store # Down /\ UNCHANGED <<file, skip, server, f_, store, stores, ended>>
      /\ past' = [u \in Urls |-> IF u \in us THEN {file[u]} ELSE past[u]]
  BY DEF FlushVol
<1>2. past' \in [Urls -> SUBSET Seq(Unit)]
  BY <1>1 DEF IInv, TypeOK
<1>3. TypeOK'
  BY <1>1, <1>2 DEF IInv, TypeOK
<1>4. \A u \in Urls : FileOK(u) => FileOK(u)'
  BY <1>1, FileStays DEF IInv, TypeOK
<1>5. \A f \in Fetches : FetchOK(f)'
  BY <1>1 DEF IInv, FetchOK
<1>6. Storing' <=> Storing
  BY <1>1 DEF Storing
<1> QED BY <1>1, <1>3, <1>4, <1>5, <1>6 DEF IInv, StoreOK, Written, Tried, IsLast

(* A crash marks every unflushed file, and the one being stored, as torn.  *)
LEMMA CrashStep ==
    ASSUME IInv, Crash
    PROVE  IInv'
<1>1. /\ store' = Down /\ skip' = FALSE
      /\ f_' = [f \in Fetches |-> Idle]
      /\ ended' = [u \in Urls |->
            IF Unflushed(u) \/ (store # NoStore /\ store.url = u) THEN "torn" ELSE ended[u]]
      /\ UNCHANGED <<file, past, server, stores>> /\ store # Down
  BY DEF Crash
<1>2. TypeOK
  BY DEF IInv
<1>3. TypeOK'
  BY <1>1, <1>2 DEF TypeOK
<1>4. ASSUME NEW u \in Urls PROVE FileOK(u)'
  <2>1. CASE ended'[u] = "torn"
    BY <2>1 DEF FileOK
  <2>2. CASE ended'[u] # "torn"
    <3>1. ended'[u] = ended[u] /\ ~(Storing /\ store.url = u)
      BY <1>1, <2>2 DEF Storing
    <3>2. FileOK(u)
      BY <3>1 DEF IInv
    <3> QED BY <1>1, <1>2, <3>1, <3>2, FileStays DEF TypeOK
  <2> QED BY <2>1, <2>2
<1>5. \A f \in Fetches : FetchOK(f)'
  BY <1>1 DEF FetchOK, Idle
<1>6. \A u \in Urls : Unflushed(u)' => ended'[u] = "torn"
  BY <1>1 DEF Unflushed
<1>7. ~Storing'
  BY <1>1 DEF Storing
<1> QED BY <1>3, <1>4, <1>5, <1>6, <1>7 DEF IInv

LEMMA SurvivorsTyped ==
    ASSUME NEW S \in SUBSET Seq(Unit), NEW x \in Survivors(S)
    PROVE  x \in Seq(Unit)
<1>1. PICK w \in S : x \in Mixtures(S, Len(w))
  BY DEF Survivors
<1> DEFINE n == Len(w)
<1>2. n \in Nat
  BY <1>1, LenProperties
<1> HIDE DEF n
<1>3. ASSUME NEW i \in 1..n, NEW e \in UnitsAt(S, i) PROVE e \in Unit
  <2>1. Junk \in Unit
    BY BoundsAssumption DEF Junk, Unit
  <2>2. ASSUME NEW y \in S, i <= Len(y) PROVE y[i] \in Unit
    <3>1. y \in Seq(Unit) /\ Len(y) \in Nat /\ DOMAIN y = 1..Len(y)
      BY LenProperties
    <3>2. i \in DOMAIN y
      BY <1>2, <2>2, <3>1
    <3> QED BY <3>1, <3>2, ElementOfSeq
  <2> QED BY <2>1, <2>2 DEF UnitsAt
<1>4. PICK g \in [1..n -> 0..MaxStores] :
         /\ \A i \in 1..n : \E e \in UnitsAt(S, i) : e.store = g[i]
         /\ x = [i \in 1..n |-> CHOOSE e \in UnitsAt(S, i) : e.store = g[i]]
  BY <1>1 DEF Mixtures, n
<1>5. \A i \in 1..n : x[i] \in Unit
  BY <1>3, <1>4
<1>6. x = [i \in 1..n |-> x[i]]
  BY <1>4
<1>7. x \in [1..n -> Unit]
  BY <1>5, <1>6
<1> QED BY <1>2, <1>7, SeqDef

(* What becomes of a file after a crash only matters where it is torn.     *)
LEMMA SurviveStep ==
    ASSUME IInv, NEW u \in Urls, Survive(u)
    PROVE  IInv'
<1>1. /\ store = Down /\ Unflushed(u)
      /\ UNCHANGED <<skip, server, f_, store, stores, ended>>
  BY DEF Survive
<1>2. PICK x \in Survivors(past[u]) : /\ file' = [file EXCEPT ![u] = x]
                                      /\ past' = [past EXCEPT ![u] = {x}]
  BY DEF Survive
<1>3. TypeOK /\ ended[u] = "torn" /\ ~Storing
  BY <1>1 DEF IInv, Storing
<1>4. x \in Seq(Unit)
  BY <1>3, SurvivorsTyped DEF TypeOK
<1>5. /\ file' \in [Urls -> Seq(Unit)] /\ past' \in [Urls -> SUBSET Seq(Unit)]
      /\ file'[u] = x /\ past'[u] = {x}
      /\ \A v \in Urls : v # u => file'[v] = file[v] /\ past'[v] = past[v]
  BY <1>2, <1>3, <1>4 DEF TypeOK
<1>6. TypeOK'
  <2>1. store' = Down
    BY <1>1
  <2> QED BY <1>1, <1>3, <1>5, <2>1 DEF TypeOK
<1>7. ASSUME NEW v \in Urls PROVE FileOK(v)'
  <2>1. CASE v = u
    BY <2>1, <1>1, <1>3 DEF FileOK
  <2>2. CASE v # u
    <3>1. FileOK(v)
      BY <1>3 DEF IInv
    <3> QED BY <2>2, <3>1, <1>1, <1>3, <1>5, FileStays DEF TypeOK
  <2> QED BY <2>1, <2>2
<1>8. \A f \in Fetches : FetchOK(f)'
  BY <1>1 DEF IInv, FetchOK
<1>9. \A v \in Urls : Unflushed(v)' => ended'[v] = "torn"
  BY <1>1, <1>3, <1>5 DEF IInv, Unflushed
<1>10. ~Storing'
  BY <1>1 DEF Storing
<1> QED BY <1>6, <1>7, <1>8, <1>9, <1>10 DEF IInv

LEMMA RestartStep ==
    ASSUME IInv, Restart
    PROVE  IInv'
<1>1. /\ store = Down /\ store' = NoStore
      /\ UNCHANGED <<file, past, skip, server, f_, stores, ended>>
  BY DEF Restart
<1>2. TypeOK' /\ ~Storing /\ ~Storing' /\ store' # Down
  BY <1>1 DEF IInv, TypeOK, Storing, NoStore, Down
<1>3. \A u \in Urls : FileOK(u)'
  BY <1>1, <1>2, FileStays DEF IInv, TypeOK
<1>4. \A f \in Fetches : FetchOK(f)'
  BY <1>1 DEF IInv, FetchOK
<1> QED BY <1>2, <1>3, <1>4 DEF IInv

LEMMA NextIInv == IInv /\ [Next]_vars => IInv'
<1> SUFFICES ASSUME IInv, [Next]_vars PROVE IInv'
  OBVIOUS
<1>1. ASSUME NEW f \in Fetches, LookupHit(f) \/ LookupMiss(f) \/ FinishUnstored(f)
      PROVE  IInv'
  <2>1. f_[f].phase # "idle"
    BY <1>1 DEF LookupHit, LookupMiss, FinishUnstored
  <2>2. f_[f].url \in Urls
    BY <2>1, FetchTyped DEF IInv, Fetch
  <2> QED BY <1>1, <2>2, FetchesStep
<1>2. CASE UNCHANGED vars
  <2>1. TypeOK'
    BY <1>2 DEF vars, IInv, TypeOK
  <2>2. \A u \in Urls : FileOK(u) => FileOK(u)'
    BY <1>2, FileStays DEF vars, IInv, TypeOK
  <2>3. \A f \in Fetches : FetchOK(f)'
    BY <1>2 DEF vars, IInv, FetchOK
  <2> QED BY <1>2, <2>1, <2>2, <2>3
          DEF vars, IInv, Storing, Unflushed, StoreOK, Written, Tried, IsLast
<1> QED BY <1>1, <1>2, FetchesStep, ServerEditStep, StoreOpenStep, WritesStep, StoreEndStep,
           FlushStep, CrashStep, SurviveStep, RestartStep DEF Next

-----------------------------------------------------------------------------
(* Theorems.                                                               *)

LEMMA IInvReadsBack == IInv => ReadsBack
<1> SUFFICES ASSUME IInv PROVE ReadsBack
  OBVIOUS
<1>1. ASSUME NEW u \in Urls, store = NoStore
      PROVE  FileOK(u) /\ file[u] \in Seq(Unit)
  BY <1>1 DEF IInv, TypeOK, Storing
<1>2. ReadsBackLastStore
  <2> SUFFICES ASSUME store = NoStore, NEW u \in Urls, ended[u] = "whole"
               PROVE  /\ Readable(file[u])
                      /\ OneStore(BodyOf(file[u]))
                      /\ \A i \in DOMAIN stores : stores[i].url = u => i <= BodyOf(file[u])[1].store
    BY DEF ReadsBackLastStore
  <2>1. PICK k, len \in Nat : /\ len > 0 /\ Len(file[u]) = 2 + len
                              /\ Written(file[u], k, len, Len(file[u])) /\ IsLast(u, k)
    BY <1>1 DEF FileOK, WholeOf
  <2>2. len \in Nat \ {0} /\ Len(file[u]) <= 2 + len
    BY <2>1
  <2>3. Readable(file[u]) /\ OneStore(BodyOf(file[u])) /\ BodyOf(file[u])[1].store = k
    BY <1>1, <2>1, <2>2, ReadsOne
  <2> QED BY <2>1, <2>3 DEF IsLast
<1>3. MissesUnlessTorn
  <2> SUFFICES ASSUME store = NoStore, NEW u \in Urls, Readable(file[u]), ended[u] # "torn"
               PROVE  OneStore(BodyOf(file[u]))
    BY DEF MissesUnlessTorn
  <2>1. PICK k, len \in Nat : /\ len > 0 /\ Len(file[u]) <= 2 + len
                              /\ Written(file[u], k, len, Len(file[u]))
    BY <1>1 DEF FileOK, BeginsOne
  <2>2. len \in Nat \ {0}
    BY <2>1
  <2> QED BY <1>1, <2>1, <2>2, ReadsOne
<1> QED BY <1>2, <1>3 DEF ReadsBack, IInv

(* The inductive invariant holds in every reachable state.                 *)
THEOREM DiskSpecInv == Spec => []IInv
<1>1. Init => IInv
  BY InitIInv
<1>2. IInv /\ [Next]_vars => IInv'
  BY NextIInv
<1> QED BY <1>1, <1>2, PTL DEF Spec

(* After any sequence of stores of any sizes, flushes, full volumes and    *)
(* crashes, a lookup reads the last store of its URL whole or misses,      *)
(* unless the file had unflushed writes at a crash and has not been stored *)
(* since (macos9_cache_store, macos9_cache_lookup).                        *)
THEOREM DiskReadsBack == Spec => []ReadsBack
<1>1. Spec => []IInv
  BY DiskSpecInv
<1>2. IInv => ReadsBack
  BY IInvReadsBack
<1> QED BY <1>1, <1>2, PTL

(* A Reload gives an older page only when the store of another fetch has   *)
(* cleared macsurf_http_skip_next_cache between the Reload and its lookup. *)
THEOREM DiskStaleReloadWasCrossed == Spec => []StaleReloadWasCrossed
<1>1. Spec => []IInv
  BY DiskSpecInv
<1>2. IInv => StaleReloadWasCrossed
  BY DEF IInv, StaleReloadWasCrossed, StaleReload, FetchOK
<1> QED BY <1>1, <1>2, PTL

-----------------------------------------------------------------------------
(* ChunkDecoder.                                                           *)

-----------------------------------------------------------------------------
(* Concatenations.                                                         *)

(* f[k] is the concatenation of the first k sequences of s.                *)
FirstParts(f, s) == f = [k \in 0..Len(s) |-> IF k = 0 THEN <<>> ELSE f[k - 1] \o s[k]]

(* The recursive function of FlattenSeq is what its definition says.       *)
FlattenStep(s, f, k) == IF k = 1 THEN s[k] ELSE f[k - 1] \o s[k]

LEMMA FlattenPrefixes ==
    ASSUME NEW S, NEW s \in Seq(Seq(S))
    PROVE  \E f : FirstParts(f, s) /\ FlattenSeq(s) = f[Len(s)]
<1> DEFINE Is(f, n) == f = [k \in 1..n |-> FlattenStep(s, f, k)]
           Bad == {n \in 0..Len(s) : ~\E f : Is(f, n)}
<1>1. Len(s) \in Nat /\ DOMAIN s = 1..Len(s) /\ \A k \in 1..Len(s) : s[k] \in Seq(S)
  BY LenProperties, ElementOfSeq
<1>2. Bad = {}
  <2> SUFFICES ASSUME Bad # {} PROVE FALSE
    OBVIOUS
  <2> DEFINE n == Min(Bad)
  <2>1. n \in Bad /\ \A k \in Bad : n <= k
    <3>1. Bad \in SUBSET Nat BY <1>1
    <3> HIDE DEF Bad
    <3> QED BY <3>1, LeastOf
  <2> HIDE DEF n
  <2>2. n \in 0..Len(s) /\ ~\E f : Is(f, n)
    BY <2>1
  <2>3. CASE n = 0
    <3> DEFINE f == [m \in 1..0 |-> <<>>]
    <3>1. \A m \in 1..0 : FALSE OBVIOUS
    <3>2. Is(f, 0)
      BY <3>1
    <3> QED BY <3>2, <2>2, <2>3
  <2>4. CASE n # 0
    <3>1. n - 1 \in 0..Len(s) /\ ~(n <= n - 1) /\ n \in Nat
      BY <2>2, <2>4, <1>1
    <3>2. n - 1 \notin Bad
      BY <3>1, <2>1
    <3>3. PICK f : Is(f, n - 1)
      BY <3>1, <3>2
    <3> DEFINE g == [m \in 1..n |-> IF m = n THEN FlattenStep(s, f, n) ELSE f[m]]
    <3>4. ASSUME NEW m \in 1..n PROVE g[m] = FlattenStep(s, g, m)
      <4>1. g[m] = FlattenStep(s, f, m)
        <5>1. CASE m = n BY <5>1
        <5>2. CASE m # n
          <6>1. m \in 1..n - 1 BY <5>2, <3>1
          <6> QED BY <6>1, <5>2, <3>3
        <5> QED BY <5>1, <5>2
      <4>2. CASE m = 1
        BY <4>1, <4>2 DEF FlattenStep
      <4>3. CASE m # 1
        <5>1. m - 1 \in 1..n /\ m - 1 # n BY <4>3, <3>1
        <5>2. g[m - 1] = f[m - 1] BY <5>1
        <5> HIDE DEF g
        <5> QED BY <5>2, <4>1, <4>3 DEF FlattenStep
      <4> QED BY <4>2, <4>3
    <3>5. g = [m \in 1..n |-> g[m]]
      OBVIOUS
    <3> HIDE DEF g
    <3>6. Is(g, n)
      BY <3>4, <3>5
    <3> QED BY <3>6, <2>2
  <2> QED BY <2>3, <2>4
<1>3. \E f : Is(f, Len(s))
  BY <1>1, <1>2
<1> DEFINE h == CHOOSE f : Is(f, Len(s))
           f == [k \in 0..Len(s) |-> IF k = 0 THEN <<>> ELSE h[k]]
<1>4. Is(h, Len(s))
  BY <1>3
<1>5. FlattenSeq(s) = IF Len(s) = 0 THEN s ELSE h[Len(s)]
  BY DEF FlattenSeq, FlattenStep
<1> HIDE DEF h
<1>6. ASSUME NEW k \in 0..Len(s), k # 0 PROVE f[k] = f[k - 1] \o s[k]
  <2>1. k \in 1..Len(s) /\ k - 1 \in 0..Len(s) BY <1>1, <1>6
  <2>2. f[k] = FlattenStep(s, h, k) BY <2>1, <1>4, <1>6
  <2>3. CASE k = 1
    <3>1. f[k - 1] = <<>> BY <2>1, <2>3
    <3>2. <<>> \o s[k] = s[k] BY <2>1, <1>1, ConcatEmptySeq
    <3> QED BY <2>2, <2>3, <3>1, <3>2 DEF FlattenStep
  <2>4. CASE k # 1
    <3>1. f[k - 1] = h[k - 1] BY <2>1, <2>4
    <3> HIDE DEF f
    <3> QED BY <2>2, <2>4, <3>1 DEF FlattenStep
  <2> QED BY <2>3, <2>4
<1>7. f[0] = <<>> /\ f = [k \in 0..Len(s) |-> f[k]]
  BY <1>1
<1>8. FlattenSeq(s) = f[Len(s)]
  <2>1. CASE Len(s) = 0
    <3>1. s = <<>> BY <2>1, <1>1, EmptySeq
    <3> QED BY <3>1, <2>1, <1>5, <1>7
  <2>2. CASE Len(s) # 0
    BY <2>2, <1>1, <1>5
  <2> QED BY <2>1, <2>2
<1> HIDE DEF f
<1>9. FirstParts(f, s)
  BY <1>6, <1>7 DEF FirstParts
<1> QED BY <1>8, <1>9

LEMMA SumBounds ==
    \A a, b \in Nat : a <= a + b /\ \A i \in 1..b : a + i \in 1..a + b
  OBVIOUS

(* Each prefix is the beginning of the whole, and the next sequence comes  *)
(* right behind it.                                                        *)
Parts(f, s, S) ==
    /\ f[0] = <<>>
    /\ \A k \in 0..Len(s) :
          /\ f[k] \in Seq(S) /\ Len(f[k]) \in Nat /\ Len(f[k]) <= Len(f[Len(s)])
          /\ \A i \in 1..Len(f[k]) : f[Len(s)][i] = f[k][i]
    /\ \A k \in 0..Len(s) - 1 :
          /\ Len(f[k + 1]) = Len(f[k]) + Len(s[k + 1])
          /\ \A i \in 1..Len(s[k + 1]) : f[Len(s)][Len(f[k]) + i] = s[k + 1][i]

LEMMA PrefixParts ==
    ASSUME NEW S, NEW s \in Seq(Seq(S)), NEW f, FirstParts(f, s)
    PROVE  Parts(f, s, S)
<1> DEFINE N == Len(s)
<1>1. N \in Nat /\ \A k \in 1..N : s[k] \in Seq(S)
  BY LenProperties, ElementOfSeq
<1>2. f[0] = <<>> /\ \A k \in 1..N : f[k] = f[k - 1] \o s[k]
  <2>1. 0 \in 0..N BY <1>1
  <2>2. \A k \in 1..N : k \in 0..N /\ k # 0 BY <1>1
  <2> QED BY <2>1, <2>2 DEF FirstParts
<1>3. \A k \in 0..N : f[k] \in Seq(S)
  <2> DEFINE Bad == {k \in 0..N : f[k] \notin Seq(S)}
  <2> SUFFICES ASSUME Bad # {} PROVE FALSE
    OBVIOUS
  <2> DEFINE n == Min(Bad)
  <2>1. n \in Bad /\ \A k \in Bad : n <= k
    <3>1. Bad \in SUBSET Nat BY <1>1
    <3> HIDE DEF Bad
    <3> QED BY <3>1, LeastOf
  <2> HIDE DEF n
  <2>2. CASE n = 0
    BY <2>1, <2>2, <1>2, EmptySeq
  <2>3. CASE n # 0
    <3>1. n \in 1..N /\ n - 1 \in 0..N /\ ~(n <= n - 1) BY <2>1, <2>3, <1>1
    <3>2. f[n - 1] \in Seq(S) BY <2>1, <3>1
    <3>3. f[n] \in Seq(S) BY <3>1, <3>2, <1>1, <1>2, ConcatProperties
    <3> QED BY <3>3, <2>1
  <2> QED BY <2>2, <2>3
<1>4. \A k \in 0..N : Len(f[k]) \in Nat
  BY <1>3, LenProperties
<1>5. ASSUME NEW k \in 0..N - 1
      PROVE  /\ k \in 0..N /\ k + 1 \in 0..N /\ s[k + 1] \in Seq(S) /\ Len(s[k + 1]) \in Nat
             /\ Len(f[k + 1]) = Len(f[k]) + Len(s[k + 1])
             /\ \A i \in 1..Len(f[k]) : f[k + 1][i] = f[k][i]
             /\ \A i \in 1..Len(s[k + 1]) : f[k + 1][Len(f[k]) + i] = s[k + 1][i]
  <2>1. k \in 0..N /\ k + 1 \in 1..N /\ k + 1 \in 0..N /\ (k + 1) - 1 = k BY <1>1
  <2>2. f[k + 1] = f[k] \o s[k + 1] BY <2>1, <1>2
  <2>3. s[k + 1] \in Seq(S) /\ f[k] \in Seq(S) BY <2>1, <1>1, <1>3
  <2>4. Len(s[k + 1]) \in Nat BY <2>3, LenProperties
  <2> DEFINE a == f[k]
             b == s[k + 1]
  <2>5. a \in Seq(S) /\ b \in Seq(S) BY <2>3
  <2> HIDE DEF a, b
  <2>6. /\ Len(a \o b) = Len(a) + Len(b)
        /\ \A i \in 1..Len(a) : (a \o b)[i] = a[i]
        /\ \A i \in 1..Len(b) : (a \o b)[Len(a) + i] = b[i]
    BY <2>5, JoinElements
  <2>7. f[k + 1] = a \o b BY <2>2 DEF a, b
  <2> QED BY <2>1, <2>3, <2>4, <2>6, <2>7 DEF a, b
<1> DEFINE Begins(k) == Len(f[k]) <= Len(f[N]) /\ \A i \in 1..Len(f[k]) : f[N][i] = f[k][i]
<1>6. \A k \in 0..N : Begins(k)
  <2> DEFINE Bad == {m \in 0..N : ~Begins(N - m)}
  <2>0. Bad = {}
    <3> SUFFICES ASSUME Bad # {} PROVE FALSE
      OBVIOUS
    <3> DEFINE n == Min(Bad)
    <3>1. n \in Bad /\ \A k \in Bad : n <= k
      <4>1. Bad \in SUBSET Nat BY <1>1
      <4> HIDE DEF Bad
      <4> QED BY <4>1, LeastOf
    <3> HIDE DEF n
    <3>2. n \in 0..N /\ ~Begins(N - n) BY <3>1
    <3>3. CASE n = 0
      <4>1. N - n = N /\ N \in 0..N BY <3>3, <1>1
      <4>2. Len(f[N]) \in Nat BY <4>1, <1>4
      <4>3. Begins(N) BY <4>2
      <4> HIDE DEF Begins
      <4> QED BY <4>1, <4>3, <3>2
    <3>4. CASE n # 0
      <4> DEFINE k == N - n
      <4>1. n - 1 \in 0..N /\ ~(n <= n - 1) /\ k \in 0..N - 1 /\ N - (n - 1) = k + 1
        BY <3>2, <3>4, <1>1
      <4>2. Begins(N - (n - 1)) BY <4>1, <3>1
      <4>3. Begins(k + 1) BY <4>1, <4>2
      <4>4. N \in 0..N BY <1>1
      <4>5. Len(f[k]) \in Nat /\ Len(f[k + 1]) \in Nat /\ Len(f[N]) \in Nat BY <4>1, <4>4, <1>4, <1>5
      <4> HIDE DEF k
      <4>6. Len(f[k]) <= Len(f[k + 1])
        <5>1. Len(f[k + 1]) = Len(f[k]) + Len(s[k + 1]) /\ Len(s[k + 1]) \in Nat BY <4>1, <1>5
        <5> QED BY <5>1, <4>5, SumBounds, Zenon
      <4>7. Len(f[k]) <= Len(f[N]) BY <4>3, <4>5, <4>6
      <4>8. ASSUME NEW i \in 1..Len(f[k]) PROVE f[N][i] = f[k][i]
        <5>1. i \in 1..Len(f[k + 1]) BY <4>5, <4>6
        <5> QED BY <5>1, <4>1, <4>3, <1>5
      <4>9. Begins(k) BY <4>7, <4>8
      <4> QED BY <4>9, <3>2 DEF k
    <3> QED BY <3>3, <3>4
  <2> SUFFICES ASSUME NEW k \in 0..N PROVE Begins(k)
    OBVIOUS
  <2>1. N - k \in 0..N /\ N - (N - k) = k BY <1>1
  <2>2. N - k \notin Bad BY <2>0
  <2>3. Begins(N - (N - k)) BY <2>1, <2>2
  <2> HIDE DEF Begins
  <2> QED BY <2>1, <2>3
<1>7. ASSUME NEW k \in 0..N - 1, NEW i \in 1..Len(s[k + 1])
      PROVE  f[N][Len(f[k]) + i] = s[k + 1][i]
  <2>1. Len(f[k]) + i \in 1..Len(f[k + 1])
    <3>1. Len(f[k + 1]) = Len(f[k]) + Len(s[k + 1]) /\ Len(s[k + 1]) \in Nat /\ k \in 0..N
      BY <1>5
    <3>2. Len(f[k]) \in Nat BY <3>1, <1>4
    <3> QED BY <3>1, <3>2, SumBounds, Zenon
  <2>2. Begins(k + 1) BY <1>5, <1>6
  <2> QED BY <2>1, <2>2, <1>5
<1> QED BY <1>2, <1>3, <1>4, <1>5, <1>6, <1>7 DEF Parts

-----------------------------------------------------------------------------
(* The inductive invariant.                                                *)

(* Where things are in a stream: a record of the body, the stream, the     *)
(* number of bytes that are the response, the size lines (line[k] comes    *)
(* before chunk k + 1, the last one before the trailer), the trailer, the  *)
(* place off[k] where line[k] begins, the bytes given[k] of the body that  *)
(* are in the first k chunks, and the whole body.                          *)
Size(w, k) == IF k < Len(w.body) THEN Len(w.body[k + 1]) ELSE 0

DataFrom(w, k) == w.off[k] + Len(w.line[k]) + 2

LineAt(w, k) ==
    /\ w.line[k] \in Seq(Byte \ {CR, LF}) /\ Len(w.line[k]) \in Nat
    /\ strtol16(Collected(w.line[k])) = Size(w, k)
    /\ w.off[k] \in Nat /\ w.off[k] <= w.off[Len(w.body)]
    /\ w.given[k] \in Nat /\ w.given[k] <= Len(w.flat)
    /\ \A j \in 1..Len(w.line[k]) : w.str[w.off[k] + j] = w.line[k][j]
    /\ w.str[w.off[k] + Len(w.line[k]) + 1] = CR
    /\ w.str[w.off[k] + Len(w.line[k]) + 2] = LF

ChunkAt(w, k) ==
    /\ w.body[k + 1] \in Seq(Byte) /\ Len(w.body[k + 1]) \in Nat \ {0}
    /\ \A j \in 1..Len(w.body[k + 1]) :
          /\ w.str[DataFrom(w, k) + j] = w.body[k + 1][j]
          /\ w.flat[w.given[k] + j] = w.body[k + 1][j]
    /\ w.str[DataFrom(w, k) + Len(w.body[k + 1]) + 1] = CR
    /\ w.str[DataFrom(w, k) + Len(w.body[k + 1]) + 2] = LF
    /\ w.off[k + 1] = DataFrom(w, k) + Len(w.body[k + 1]) + 2
    /\ w.given[k + 1] = w.given[k] + Len(w.body[k + 1])

TrailerIn(w) ==
    LET at == DataFrom(w, Len(w.body)) IN
    /\ w.trailer \in Seq(Byte) /\ Len(w.trailer) \in Nat
    /\ AtEol(w.trailer, Len(w.trailer))
    /\ \A i \in 1..Len(w.trailer) : w.trailer[i] = LF => ~AtEol(w.trailer, i - 1)
    /\ \A i \in 1..Len(w.trailer) : w.str[at + i] = w.trailer[i]
    /\ w.str[at + Len(w.trailer) + 1] = CR
    /\ w.str[at + Len(w.trailer) + 2] = LF
    /\ w.end = at + Len(w.trailer) + 2
    /\ w.end <= Len(w.str)

Layout(w) ==
    /\ Len(w.body) \in Nat
    /\ w.str \in Seq(Byte) /\ Len(w.str) \in Nat
    /\ w.flat \in Seq(Byte) /\ Len(w.flat) \in Nat
    /\ w.off[0] = 0 /\ w.given[0] = 0 /\ w.given[Len(w.body)] = Len(w.flat)
    /\ \A k \in 0..Len(w.body) : LineAt(w, k)
    /\ \A k \in 0..Len(w.body) - 1 : ChunkAt(w, k)
    /\ TrailerIn(w)

Decoder ==
    [chunk_state : {"SIZE", "DATA", "CRLF", "TRAILER", "DONE"}, chunk_size_buf : Seq(Byte),
     chunk_remaining : Nat, trailer_just_after_eol : BOOLEAN, delivered : Seq(Byte)]

(* What has been handed on is the first m bytes of the body.               *)
Given(w, d, m) ==
    /\ m \in Nat /\ m <= Len(w.flat)
    /\ Len(d.delivered) = m /\ \A i \in 1..m : d.delivered[i] = w.flat[i]

Fits(n) == IF n < BUFSZ THEN n ELSE BUFSZ - 1

(* After p bytes the decoder is in size line k, after j bytes of it.       *)
SizeAt(w, p, d, k, j) ==
    /\ p = w.off[k] + j
    /\ d.chunk_state = "SIZE"
    /\ Len(d.chunk_size_buf) = Fits(IF j <= Len(w.line[k]) THEN j ELSE Len(w.line[k]))
    /\ \A i \in 1..Len(d.chunk_size_buf) : d.chunk_size_buf[i] = w.line[k][i]
    /\ Given(w, d, w.given[k])

(* It has had i bytes of chunk k + 1, and not all of it.                   *)
DataAt(w, p, d, k, i) ==
    /\ p = DataFrom(w, k) + i
    /\ d.chunk_state = "DATA" /\ d.chunk_size_buf = <<>>
    /\ d.chunk_remaining = Len(w.body[k + 1]) - i
    /\ Given(w, d, w.given[k] + i)

(* It has had chunk k + 1 and e bytes of the CRLF behind it.               *)
CrlfAt(w, p, d, k, e) ==
    /\ p = DataFrom(w, k) + Len(w.body[k + 1]) + e
    /\ d.chunk_state = "CRLF" /\ d.chunk_size_buf = <<>>
    /\ Given(w, d, w.given[k + 1])

(* It has had i bytes of the trailer and the CRLF behind it.               *)
TrailerAt(w, p, d, i) ==
    /\ p = DataFrom(w, Len(w.body)) + i
    /\ d.chunk_state = "TRAILER" /\ d.chunk_size_buf = <<>>
    /\ d.trailer_just_after_eol = AtEol(w.trailer, IF i <= Len(w.trailer) THEN i ELSE Len(w.trailer))
    /\ Given(w, d, Len(w.flat))

(* It has had the response.                                                *)
DoneAt(w, p, d) ==
    /\ p >= w.end
    /\ d.chunk_state = "DONE" /\ d.chunk_size_buf = <<>>
    /\ Given(w, d, Len(w.flat))

InLine(w, p, d) ==
    \E k \in 0..Len(w.body) : \E j \in 0..Len(w.line[k]) + 1 : SizeAt(w, p, d, k, j)
InChunk(w, p, d) ==
    \E k \in 0..Len(w.body) - 1 : \E i \in 0..Len(w.body[k + 1]) - 1 : DataAt(w, p, d, k, i)
BehindChunk(w, p, d) ==
    \E k \in 0..Len(w.body) - 1 : \E e \in {0, 1} : CrlfAt(w, p, d, k, e)
InTrailer(w, p, d) ==
    \E i \in 0..Len(w.trailer) + 1 : TrailerAt(w, p, d, i)

At(w, p, d) ==
    \/ InLine(w, p, d)
    \/ InChunk(w, p, d)
    \/ BehindChunk(w, p, d)
    \/ InTrailer(w, p, d)
    \/ DoneAt(w, p, d)

Reads(w, p, d) == d \in Decoder /\ At(w, p, d)

-----------------------------------------------------------------------------
(* One byte.                                                               *)

LEMMA Bytes == CR # LF /\ CR \in Byte /\ LF \in Byte
  BY DEF CR, LF, Byte

LEMMA Shift == \A a, b \in Nat : /\ (a + b) + 1 = a + (b + 1) /\ a + b + 1 = a + (b + 1)
                                  /\ a + b + 2 = a + (b + 2) /\ a + b \in Nat /\ a + b + 2 \in Nat
  OBVIOUS

(* A size line.                                                            *)
LEMMA LineByteStep ==
    ASSUME NEW w, Layout(w), NEW d \in Decoder, NEW p \in Nat, p < Len(w.str), InLine(w, p, d)
    PROVE  Reads(w, p + 1, ProcessByte(d, w.str[p + 1]))
<1>0. PICK k \in 0..Len(w.body) : \E j \in 0..Len(w.line[k]) + 1 : SizeAt(w, p, d, k, j)
  BY DEF InLine
<1>1. PICK j \in 0..Len(w.line[k]) + 1 : SizeAt(w, p, d, k, j)
  BY <1>0
<1> DEFINE line == w.line[k]
           ch == w.str[p + 1]
           e == SizeByte(d, ch)
           buf == d.chunk_size_buf
<1>2. LineAt(w, k) /\ TrailerIn(w) /\ Len(w.body) \in Nat
  BY DEF Layout
<1>3. /\ line \in Seq(Byte \ {CR, LF}) /\ Len(line) \in Nat /\ w.off[k] \in Nat
      /\ p = w.off[k] + j /\ Given(w, d, w.given[k])
      /\ \A i \in 1..Len(buf) : buf[i] = line[i]
      /\ Len(buf) = Fits(IF j <= Len(line) THEN j ELSE Len(line))
      /\ j \in 0..Len(line) + 1
      /\ \A i \in 1..Len(line) : w.str[w.off[k] + i] = line[i]
      /\ w.str[w.off[k] + Len(line) + 1] = CR
      /\ w.str[w.off[k] + Len(line) + 2] = LF
  BY <1>1, <1>2 DEF LineAt, SizeAt
<1>4. buf \in Seq(Byte) /\ d.chunk_state = "SIZE"
  BY <1>1 DEF Decoder, SizeAt
<1>5. Len(buf) \in Nat
  BY <1>4, LenProperties
<1>6. ProcessByte(d, ch) = e
  BY <1>4 DEF ProcessByte
<1> DEFINE next == p + 1
           L == Len(line)
<1>10. /\ L \in Nat /\ w.off[k] \in Nat /\ p = w.off[k] + j /\ j \in 0..L + 1
       /\ next = w.off[k] + (j + 1)
  <2>1. L \in Nat /\ w.off[k] \in Nat /\ p = w.off[k] + j /\ j \in 0..L + 1
    BY <1>3
  <2> HIDE DEF L
  <2>2. j \in Nat BY <2>1
  <2>3. (w.off[k] + j) + 1 = w.off[k] + (j + 1)
    BY <2>1, <2>2, Shift, Zenon
  <2> QED BY <2>1, <2>3
<1>11. /\ e = SizeByte(d, ch) /\ buf = d.chunk_size_buf /\ ch = w.str[next] /\ w.line[k] = line
       /\ Len(line) = L
  OBVIOUS
<1>12. \A q \in Decoder : At(w, next, q) => Reads(w, next, q)
  BY DEF Reads
<1>13. \A i \in 0..L + 1 : \A q : SizeAt(w, next, q, k, i) => At(w, next, q)
  BY DEF At, InLine
<1> SUFFICES Reads(w, next, e)
  BY <1>6
<1> HIDE DEF line, ch, e, buf, next, L
<1>14. ASSUME NEW q, NEW b, q.chunk_state = "SIZE", q.chunk_size_buf = b, q.delivered = d.delivered,
              j + 1 \in 0..L + 1, Len(b) = Fits(IF j + 1 <= L THEN j + 1 ELSE L),
              \A i \in 1..Len(b) : b[i] = line[i]
       PROVE  At(w, next, q)
  <2>1. Given(w, q, w.given[k]) BY <1>14, <1>3 DEF Given
  <2>2. SizeAt(w, next, q, k, j + 1)
    BY <1>14, <2>1, <1>10, <1>11 DEF SizeAt
  <2> QED BY <2>2, <1>13, <1>14
<1>7. CASE j < L
  <2>0. j + 1 \in 1..L /\ j + 1 \in 0..L + 1 /\ j + 1 <= L /\ j \in Nat /\ j <= L
    BY <1>10, <1>7
  <2>1. ch = line[j + 1]
    BY <2>0, <1>3, <1>10, <1>11
  <2>2. ch \in Byte /\ ch # CR /\ ch # LF
    <3>1. line \in Seq(Byte \ {CR, LF}) /\ j + 1 \in 1..Len(line) BY <2>0, <1>3, <1>11
    <3>2. line[j + 1] \in Byte \ {CR, LF} BY <3>1, ElementOfSeq
    <3> QED BY <3>2, <2>1
  <2>3. Len(buf) = Fits(j)
    <3>1. Len(buf) = Fits(IF j <= L THEN j ELSE L) BY <1>3, <1>11
    <3> QED BY <3>1, <2>0
  <2>4. CASE j < BUFSZ - 1
    <3>1. Len(buf) = j /\ ~(Len(buf) >= BUFSZ - 1) /\ Fits(j + 1) = j + 1
      BY <2>0, <2>3, <2>4 DEF Fits, BUFSZ
    <3> DEFINE b2 == Append(buf, ch)
    <3>2. e = [d EXCEPT !.chunk_size_buf = b2]
      BY <2>2, <3>1, <1>11 DEF SizeByte
    <3>3. b2 \in Seq(Byte) /\ Len(b2) = j + 1
      BY <1>4, <2>2, <3>1, AppendProperties
    <3>4. \A i \in 1..Len(b2) : b2[i] = line[i]
      <4>1. \A i \in 1..j : b2[i] = buf[i]
        BY <1>4, <2>2, <3>1, AppendProperties
      <4>2. b2[j + 1] = ch
        BY <1>4, <2>2, <3>1, AppendProperties
      <4> HIDE DEF b2
      <4>3. \A i \in 1..j + 1 : i \in 1..j \/ i = j + 1 BY <2>0
      <4>4. \A i \in 1..j : buf[i] = line[i] BY <3>1, <1>3
      <4>5. ASSUME NEW i \in 1..j + 1 PROVE b2[i] = line[i]
        BY <4>1, <4>2, <4>3, <4>4, <2>1
      <4> QED BY <4>5, <3>3
    <3> HIDE DEF b2
    <3>5. e \in Decoder
      BY <3>2, <3>3 DEF Decoder
    <3>6. e.chunk_state = "SIZE" /\ e.chunk_size_buf = b2 /\ e.delivered = d.delivered
      BY <3>2, <1>4 DEF Decoder
    <3>7. Len(b2) = Fits(IF j + 1 <= L THEN j + 1 ELSE L) BY <2>0, <3>1, <3>3
    <3> QED BY <3>4, <3>5, <3>6, <3>7, <2>0, <1>12, <1>14
  <2>5. CASE j >= BUFSZ - 1
    <3>1. Len(buf) = BUFSZ - 1 /\ Len(buf) >= BUFSZ - 1 /\ Fits(j + 1) = BUFSZ - 1
      BY <2>0, <2>3, <2>5 DEF Fits, BUFSZ
    <3>2. e = d
      BY <2>2, <3>1, <1>11 DEF SizeByte
    <3>3. Len(buf) = Fits(IF j + 1 <= L THEN j + 1 ELSE L) BY <2>0, <3>1
    <3>4. At(w, next, d) BY <3>3, <2>0, <1>3, <1>4, <1>11, <1>14
    <3> QED BY <3>2, <3>4, <1>12
  <2> QED BY <2>4, <2>5, <2>0 DEF BUFSZ
<1>8. CASE j = L
  <2>1. ch = CR
    <3> DEFINE o == w.off[k]
    <3>1. o \in Nat /\ L \in Nat /\ next = o + (L + 1) BY <1>10, <1>8
    <3> HIDE DEF o
    <3>2. next = o + L + 1 BY <3>1
    <3> QED BY <3>2, <1>3, <1>11 DEF o
  <2>2. e = d
    BY <2>1, <1>11, Bytes DEF SizeByte
  <2>3. j + 1 \in 0..L + 1 /\ ~(j + 1 <= L) /\ j <= L
    BY <1>10, <1>8
  <2>4. Len(buf) = Fits(IF j + 1 <= L THEN j + 1 ELSE L)
    <3>1. Len(buf) = Fits(IF j <= L THEN j ELSE L) BY <1>3, <1>11
    <3> QED BY <3>1, <2>3, <1>8
  <2>5. At(w, next, d) BY <2>3, <2>4, <1>3, <1>4, <1>11, <1>14
  <2> QED BY <2>2, <2>5, <1>12
<1>9. CASE j = L + 1
  <2>1. ch = LF
    <3> DEFINE o == w.off[k]
    <3>1. o \in Nat /\ L \in Nat /\ next = o + (L + 1 + 1) BY <1>10, <1>9
    <3> HIDE DEF o
    <3>2. next = o + L + 2 BY <3>1
    <3> QED BY <3>2, <1>3, <1>11 DEF o
  <2>2. Len(buf) = Fits(L)
    <3>1. Len(buf) = Fits(IF j <= L THEN j ELSE L) BY <1>3, <1>11
    <3>2. ~(j <= L) BY <1>9, <1>10
    <3> QED BY <3>1, <3>2
  <2>3. buf = Collected(line)
    <3>0. line \in Seq(Byte) BY <1>3, SeqMonotonic
    <3>1. CASE L < BUFSZ
      <4>1. Len(buf) = Len(line) BY <2>2, <3>1, <1>11 DEF Fits
      <4>2. buf = line BY <4>1, <3>0, <1>3, <1>4, SeqEqual
      <4> QED BY <4>2, <3>1, <1>11 DEF Collected
    <3>2. CASE ~(L < BUFSZ)
      <4> DEFINE cut == SubSeq(line, 1, BUFSZ - 1)
      <4>1. Len(buf) = BUFSZ - 1 /\ BUFSZ - 1 \in 0..L /\ BUFSZ - 1 \in Nat
        BY <2>2, <3>2, <1>10 DEF Fits, BUFSZ
      <4>2. cut \in Seq(Byte) /\ Len(cut) = BUFSZ - 1 /\ \A i \in 1..BUFSZ - 1 : cut[i] = line[i]
        BY <4>1, <3>0, <1>11, CutElements
      <4> HIDE DEF cut
      <4>3. buf = cut BY <4>1, <4>2, <1>3, <1>4, SeqEqual
      <4> QED BY <4>3, <3>2, <1>11 DEF Collected, cut
    <3> QED BY <3>1, <3>2
  <2> DEFINE sz == strtol16(buf)
  <2>4. sz = Size(w, k) BY <2>3, <1>2, <1>11 DEF LineAt
  <2>5. e = [d EXCEPT !.chunk_size_buf = <<>>, !.chunk_remaining = sz,
                       !.chunk_state = IF sz = 0 THEN "TRAILER" ELSE "DATA",
                       !.trailer_just_after_eol = (sz = 0) \/ d.trailer_just_after_eol]
    BY <2>1, <1>11 DEF SizeByte
  <2> HIDE DEF sz
  <2>6. sz \in Nat
    <3>1. CASE k < Len(w.body)
      <4>1. k \in 0..Len(w.body) - 1 BY <3>1, <1>2
      <4>2. ChunkAt(w, k) BY <4>1 DEF Layout
      <4>3. Len(w.body[k + 1]) \in Nat BY <4>2 DEF ChunkAt
      <4> QED BY <4>3, <3>1, <2>4 DEF Size
    <3>2. CASE ~(k < Len(w.body)) BY <3>2, <2>4 DEF Size
    <3> QED BY <3>1, <3>2
  <2>7. /\ e \in Decoder /\ e.chunk_size_buf = <<>> /\ e.chunk_remaining = sz
        /\ e.chunk_state = (IF sz = 0 THEN "TRAILER" ELSE "DATA")
        /\ e.delivered = d.delivered
        /\ sz = 0 => e.trailer_just_after_eol = TRUE
    <3> DEFINE eol == (sz = 0) \/ d.trailer_just_after_eol
               state == IF sz = 0 THEN "TRAILER" ELSE "DATA"
    <3>1. <<>> \in Seq(Byte) BY EmptySeq
    <3>2. eol \in BOOLEAN BY DEF Decoder
    <3>3. sz = 0 => eol = TRUE OBVIOUS
    <3>4. e = [d EXCEPT !.chunk_size_buf = <<>>, !.chunk_remaining = sz,
                         !.chunk_state = state, !.trailer_just_after_eol = eol]
      BY <2>5
    <3>5. state \in {"TRAILER", "DATA"} OBVIOUS
    <3> HIDE DEF eol, state
    <3>6. /\ e \in Decoder /\ e.chunk_size_buf = <<>> /\ e.chunk_remaining = sz
          /\ e.chunk_state = state /\ e.delivered = d.delivered /\ e.trailer_just_after_eol = eol
      BY <3>1, <3>2, <3>4, <3>5, <2>6 DEF Decoder
    <3> QED BY <3>3, <3>6 DEF state
  <2>8. Given(w, e, w.given[k]) BY <2>7, <1>3 DEF Given
  <2>9. next = DataFrom(w, k) /\ DataFrom(w, k) \in Nat
    <3>1. DataFrom(w, k) = w.off[k] + L + 2 BY <1>11 DEF DataFrom
    <3>2. next = w.off[k] + (L + 2) BY <1>9, <1>10
    <3>3. w.off[k] \in Nat /\ L \in Nat BY <1>10
    <3>4. w.off[k] + L + 2 = w.off[k] + (L + 2) /\ w.off[k] + L + 2 \in Nat
      BY <3>3, Shift, Zenon
    <3> QED BY <3>1, <3>2, <3>4
  <2>10. CASE k < Len(w.body)
    <3>1. k \in 0..Len(w.body) - 1 BY <2>10, <1>2
    <3> DEFINE n == Len(w.body[k + 1])
    <3>2. ChunkAt(w, k) BY <3>1 DEF Layout
    <3>3. n \in Nat \ {0} BY <3>2 DEF ChunkAt
    <3>4. sz = n BY <2>4, <2>10 DEF Size
    <3>5. w.given[k] \in Nat BY <1>3 DEF Given
    <3> HIDE DEF n
    <3>6. /\ next = DataFrom(w, k) + 0 /\ e.chunk_remaining = n - 0
          /\ w.given[k] + 0 = w.given[k] /\ 0 \in 0..n - 1
          /\ e.chunk_state = "DATA"
      BY <3>3, <3>4, <3>5, <2>7, <2>9
    <3>7. DataAt(w, next, e, k, 0)
      BY <3>6, <2>7, <2>8 DEF DataAt, n
    <3>8. At(w, next, e) BY <3>1, <3>6, <3>7 DEF InChunk, At, n
    <3> QED BY <3>8, <2>7, <1>12
  <2>11. CASE ~(k < Len(w.body))
    <3>1. k = Len(w.body) BY <2>11, <1>2
    <3>2. sz = 0 BY <2>4, <2>11 DEF Size
    <3>3. w.given[k] = Len(w.flat) BY <3>1 DEF Layout
    <3>4. AtEol(w.trailer, 0) = TRUE BY DEF AtEol
    <3>5. Len(w.trailer) \in Nat BY <1>2 DEF TrailerIn
    <3>6. /\ 0 <= Len(w.trailer) /\ 0 \in 0..Len(w.trailer) + 1
          /\ next = DataFrom(w, Len(w.body)) + 0
      BY <3>1, <3>5, <2>9
    <3>7. e.chunk_state = "TRAILER" /\ e.trailer_just_after_eol = TRUE BY <3>2, <2>7
    <3>8. Given(w, e, Len(w.flat)) BY <3>3, <2>8
    <3>9. e.trailer_just_after_eol = AtEol(w.trailer, IF 0 <= Len(w.trailer) THEN 0 ELSE Len(w.trailer))
      BY <3>4, <3>6, <3>7
    <3>10. TrailerAt(w, next, e, 0)
      BY <3>6, <3>7, <3>8, <3>9, <2>7 DEF TrailerAt
    <3>11. At(w, next, e) BY <3>6, <3>10 DEF InTrailer, At
    <3> QED BY <3>11, <2>7, <1>12
  <2> QED BY <2>10, <2>11
<1> QED BY <1>7, <1>8, <1>9, <1>10

(* The data of a chunk.                                                    *)
LEMMA DataByteStep ==
    ASSUME NEW w, Layout(w), NEW d \in Decoder, NEW p \in Nat, p < Len(w.str), InChunk(w, p, d)
    PROVE  Reads(w, p + 1, ProcessByte(d, w.str[p + 1]))
<1>1. PICK k \in 0..Len(w.body) - 1 :
              \E i \in 0..Len(w.body[k + 1]) - 1 : DataAt(w, p, d, k, i)
  BY DEF InChunk
<1>2. PICK i \in 0..Len(w.body[k + 1]) - 1 : DataAt(w, p, d, k, i)
  BY <1>1
<1> DEFINE n == Len(w.body[k + 1])
           from == DataFrom(w, k)
           g == w.given[k]
           ch == w.str[p + 1]
           e == DataByte(d, ch)
           next == p + 1
<1>3. Len(w.body) \in Nat /\ k \in 0..Len(w.body) /\ k + 1 \in 0..Len(w.body)
  BY DEF Layout
<1>4. LineAt(w, k) /\ LineAt(w, k + 1) /\ ChunkAt(w, k)
  BY <1>3 DEF Layout
<1>5. from \in Nat
  <2>1. w.off[k] \in Nat /\ Len(w.line[k]) \in Nat BY <1>4 DEF LineAt
  <2> QED BY <2>1, Shift, Zenon DEF DataFrom
<1>6. /\ n \in Nat \ {0} /\ i \in 0..n - 1 /\ p = from + i
      /\ w.given[k + 1] = g + n /\ g \in Nat
  BY <1>2, <1>4 DEF ChunkAt, LineAt, DataAt
<1>7. /\ \A j \in 1..n : w.str[from + j] = w.body[k + 1][j] /\ w.flat[g + j] = w.body[k + 1][j]
      /\ w.body[k + 1] \in Seq(Byte) /\ w.given[k + 1] <= Len(w.flat) /\ Len(w.flat) \in Nat
  BY <1>4 DEF ChunkAt, LineAt, Layout
<1>8. /\ d.chunk_state = "DATA" /\ d.chunk_size_buf = <<>> /\ d.chunk_remaining = n - i
      /\ Given(w, d, g + i)
  BY <1>2 DEF DataAt
<1>9. ProcessByte(d, ch) = e
  BY <1>8 DEF ProcessByte
<1>10. \A q \in Decoder : At(w, next, q) => Reads(w, next, q)
  BY DEF Reads
<1>11. e = DataByte(d, ch) /\ ch = w.str[next] /\ n = Len(w.body[k + 1])
  OBVIOUS
<1>12. next = p + 1 OBVIOUS
<1>13. g = w.given[k] /\ from = DataFrom(w, k) OBVIOUS
<1> SUFFICES Reads(w, next, e)
  BY <1>9
<1> HIDE DEF n, from, g, ch, e, next
<1>14. i + 1 \in 1..n /\ i + 1 <= n /\ next = from + (i + 1) /\ i \in Nat /\ (g + i) + 1 = g + (i + 1)
  BY <1>5, <1>6, <1>12
<1>15. ch = w.body[k + 1][i + 1] /\ ch = w.flat[g + (i + 1)] /\ ch \in Byte
  <2>1. ch = w.body[k + 1][i + 1] /\ ch = w.flat[g + (i + 1)] BY <1>7, <1>11, <1>14
  <2>2. i + 1 \in 1..Len(w.body[k + 1]) BY <1>11, <1>14
  <2> QED BY <2>1, <2>2, <1>7, ElementOfSeq
<1> DEFINE b == Append(d.delivered, ch)
           left == d.chunk_remaining - 1
           state == IF d.chunk_remaining = 1 THEN "CRLF" ELSE "DATA"
<1>16. e = [d EXCEPT !.delivered = b, !.chunk_remaining = left, !.chunk_state = state]
  BY <1>11 DEF DataByte
<1>17. d.delivered \in Seq(Byte) /\ Len(d.delivered) = g + i /\ g + i \in Nat
       /\ \A j \in 1..g + i : d.delivered[j] = w.flat[j]
  BY <1>8 DEF Given, Decoder
<1>18. b \in Seq(Byte) /\ Len(b) = g + (i + 1)
  BY <1>14, <1>15, <1>17, AppendProperties
<1>19. \A j \in 1..g + (i + 1) : b[j] = w.flat[j]
  <2>1. \A j \in 1..g + i : b[j] = d.delivered[j]
    BY <1>15, <1>17, AppendProperties
  <2>2. b[(g + i) + 1] = ch
    BY <1>15, <1>17, AppendProperties
  <2> HIDE DEF b
  <2> SUFFICES ASSUME NEW j \in 1..g + (i + 1) PROVE b[j] = w.flat[j]
    OBVIOUS
  <2>3. CASE j \in 1..g + i BY <2>1, <2>3, <1>17
  <2>4. CASE j = g + (i + 1) BY <2>2, <2>4, <1>14, <1>15
  <2>5. j \in 1..g + i \/ j = g + (i + 1)
    <3>1. g \in Nat /\ i \in Nat BY <1>6, <1>14
    <3> QED BY <3>1
  <2> QED BY <2>3, <2>4, <2>5
<1>20. left \in Nat /\ left = n - (i + 1)
  <2>1. n \in Nat /\ i \in 0..n - 1 BY <1>6
  <2>2. left = (n - i) - 1 BY <1>8
  <2> HIDE DEF left
  <2> QED BY <2>1, <2>2
<1>21. state \in {"CRLF", "DATA"} /\ (state = "CRLF" <=> i + 1 = n)
  BY <1>6, <1>8, <1>14
<1> HIDE DEF b, left, state
<1>22. /\ e \in Decoder /\ e.delivered = b /\ e.chunk_remaining = left /\ e.chunk_state = state
       /\ e.chunk_size_buf = <<>>
  BY <1>8, <1>16, <1>18, <1>20, <1>21 DEF Decoder
<1>23. g + (i + 1) \in Nat /\ g + (i + 1) <= Len(w.flat)
  BY <1>6, <1>7, <1>14
<1>24. Given(w, e, g + (i + 1))
  BY <1>18, <1>19, <1>22, <1>23 DEF Given
<1>25. CASE i + 1 = n
  <2>1. Given(w, e, w.given[k + 1]) BY <1>6, <1>24, <1>25
  <2>2. next = from + n + 0 BY <1>5, <1>6, <1>14, <1>25
  <2>3. CrlfAt(w, next, e, k, 0)
    BY <2>1, <2>2, <1>11, <1>13, <1>21, <1>22, <1>25 DEF CrlfAt
  <2>4. At(w, next, e)
    BY <2>3 DEF BehindChunk, At
  <2> QED BY <2>4, <1>10, <1>22
<1>26. CASE i + 1 # n
  <2>1. i + 1 \in 0..n - 1 BY <1>6, <1>14, <1>26
  <2>2. e.chunk_state = "DATA" BY <1>21, <1>22, <1>26
  <2>3. DataAt(w, next, e, k, i + 1)
    BY <2>2, <1>11, <1>13, <1>14, <1>20, <1>22, <1>24 DEF DataAt
  <2>4. At(w, next, e)
    BY <2>1, <2>3, <1>11 DEF InChunk, At
  <2> QED BY <2>4, <1>10, <1>22
<1> QED BY <1>25, <1>26

(* The CRLF behind it.                                                     *)
LEMMA CrlfByteStep ==
    ASSUME NEW w, Layout(w), NEW d \in Decoder, NEW p \in Nat, p < Len(w.str), BehindChunk(w, p, d)
    PROVE  Reads(w, p + 1, ProcessByte(d, w.str[p + 1]))
<1>1. PICK k \in 0..Len(w.body) - 1 : \E e \in {0, 1} : CrlfAt(w, p, d, k, e)
  BY DEF BehindChunk
<1> DEFINE n == Len(w.body[k + 1])
           from == DataFrom(w, k)
           ch == w.str[p + 1]
           next == p + 1
<1>2. Len(w.body) \in Nat /\ k \in 0..Len(w.body) /\ k + 1 \in 0..Len(w.body)
  BY DEF Layout
<1>3. LineAt(w, k) /\ LineAt(w, k + 1) /\ ChunkAt(w, k)
  BY <1>2 DEF Layout
<1>4. from \in Nat /\ n \in Nat
  <2>1. w.off[k] \in Nat /\ Len(w.line[k]) \in Nat BY <1>3 DEF LineAt
  <2>2. n \in Nat BY <1>3 DEF ChunkAt
  <2> QED BY <2>1, <2>2, Shift, Zenon DEF DataFrom
<1>5. /\ w.str[from + n + 1] = CR /\ w.str[from + n + 2] = LF
      /\ w.off[k + 1] = from + n + 2
  BY <1>3 DEF ChunkAt
<1>6. \A q \in Decoder : At(w, next, q) => Reads(w, next, q)
  BY DEF Reads
<1>7. d.chunk_state = "CRLF" /\ d.chunk_size_buf = <<>> /\ Given(w, d, w.given[k + 1])
  BY <1>1 DEF CrlfAt
<1>8. ProcessByte(d, ch) = CrlfByte(d, ch)
  BY <1>7 DEF ProcessByte
<1>9. CrlfAt(w, p, d, k, 0) => p = from + n
  BY <1>4 DEF CrlfAt
<1>10. CrlfAt(w, p, d, k, 1) => p = from + n + 1
  BY DEF CrlfAt
<1>11. ch = w.str[next] /\ n = Len(w.body[k + 1]) /\ from = DataFrom(w, k)
  OBVIOUS
<1>12. next = p + 1 OBVIOUS
<1> SUFFICES Reads(w, next, CrlfByte(d, ch))
  BY <1>8
<1> HIDE DEF n, from, ch, next
<1>13. CASE CrlfAt(w, p, d, k, 0)
  <2>1. next = from + n + 1 BY <1>4, <1>9, <1>12, <1>13
  <2>2. CrlfByte(d, ch) = d BY <2>1, <1>5, <1>11, Bytes DEF CrlfByte
  <2>3. CrlfAt(w, next, d, k, 1)
    BY <2>1, <1>7, <1>11 DEF CrlfAt
  <2>4. At(w, next, d) BY <2>3 DEF BehindChunk, At
  <2> QED BY <2>2, <2>4, <1>6
<1>14. CASE CrlfAt(w, p, d, k, 1)
  <2> DEFINE e == [d EXCEPT !.chunk_state = "SIZE"]
  <2>1. next = from + n + 2 BY <1>4, <1>10, <1>12, <1>14
  <2>2. CrlfByte(d, ch) = e BY <2>1, <1>5, <1>11 DEF CrlfByte
  <2>3. /\ e \in Decoder /\ e.chunk_state = "SIZE" /\ e.chunk_size_buf = <<>>
        /\ e.delivered = d.delivered
    BY <1>7 DEF Decoder
  <2> HIDE DEF e
  <2>4. Given(w, e, w.given[k + 1]) BY <2>3, <1>7 DEF Given
  <2>5. Len(w.line[k + 1]) \in Nat /\ w.off[k + 1] \in Nat BY <1>3 DEF LineAt
  <2>6. next = w.off[k + 1] + 0 /\ 0 \in 0..Len(w.line[k + 1]) + 1 /\ 0 <= Len(w.line[k + 1])
    BY <2>1, <2>5, <1>5
  <2>7. Len(e.chunk_size_buf) = Fits(IF 0 <= Len(w.line[k + 1]) THEN 0 ELSE Len(w.line[k + 1]))
    <3>1. Len(e.chunk_size_buf) = 0 BY <2>3
    <3> QED BY <3>1, <2>6 DEF Fits, BUFSZ
  <2>8. \A i \in 1..Len(e.chunk_size_buf) : e.chunk_size_buf[i] = w.line[k + 1][i]
    <3>1. Len(e.chunk_size_buf) = 0 BY <2>3
    <3> QED BY <3>1
  <2>9. SizeAt(w, next, e, k + 1, 0)
    BY <2>3, <2>4, <2>6, <2>7, <2>8 DEF SizeAt
  <2>10. At(w, next, e) BY <2>6, <2>9, <1>2 DEF InLine, At
  <2> QED BY <2>2, <2>3, <2>10, <1>6
<1> QED BY <1>1, <1>13, <1>14

(* AtEol from one byte to the next.                                        *)
LEMMA AtEolNext ==
    ASSUME NEW t, NEW i \in Nat
    PROVE  /\ t[i + 1] = LF => AtEol(t, i + 1) = TRUE
           /\ t[i + 1] = CR => AtEol(t, i + 1) = AtEol(t, i)
           /\ t[i + 1] \notin {CR, LF} => AtEol(t, i + 1) = FALSE
<1>1. \A j \in 1..i + 1 : j \in 1..i \/ j = i + 1 OBVIOUS
<1>2. \A j \in 1..i : j \in 1..i + 1 /\ i + 1 \in j + 1..i + 1 OBVIOUS
<1>3. \A j \in 1..i : \A k \in j + 1..i : k \in j + 1..i + 1 OBVIOUS
<1>4. \A j \in 1..i : \A k \in j + 1..i + 1 : k \in j + 1..i \/ k = i + 1 OBVIOUS
<1>5. i + 1 \in 1..i + 1 OBVIOUS
<1>6. \A k \in (i + 1) + 1..i + 1 : FALSE OBVIOUS
<1>7. ASSUME t[i + 1] = LF PROVE AtEol(t, i + 1)
  <2> SUFFICES ASSUME NEW j \in 1..i + 1
               PROVE  t[j] \in {CR, LF} \/ \E k \in j + 1..i + 1 : t[k] = LF
    BY DEF AtEol
  <2>1. CASE j \in 1..i BY <2>1, <1>2, <1>7
  <2>2. CASE j = i + 1 BY <2>2, <1>7
  <2> QED BY <2>1, <2>2, <1>1
<1>8. ASSUME t[i + 1] = CR, AtEol(t, i) PROVE AtEol(t, i + 1)
  <2> SUFFICES ASSUME NEW j \in 1..i + 1
               PROVE  t[j] \in {CR, LF} \/ \E k \in j + 1..i + 1 : t[k] = LF
    BY DEF AtEol
  <2>1. CASE j \in 1..i
    <3>1. t[j] \in {CR, LF} \/ \E k \in j + 1..i : t[k] = LF BY <2>1, <1>8 DEF AtEol
    <3> QED BY <3>1, <2>1, <1>3
  <2>2. CASE j = i + 1 BY <2>2, <1>8
  <2> QED BY <2>1, <2>2, <1>1
<1>9. ASSUME t[i + 1] = CR, AtEol(t, i + 1) PROVE AtEol(t, i)
  <2> SUFFICES ASSUME NEW j \in 1..i
               PROVE  t[j] \in {CR, LF} \/ \E k \in j + 1..i : t[k] = LF
    BY DEF AtEol
  <2>1. t[j] \in {CR, LF} \/ \E k \in j + 1..i + 1 : t[k] = LF BY <1>2, <1>9 DEF AtEol
  <2> QED BY <2>1, <1>4, <1>9, Bytes
<1>10. ASSUME t[i + 1] \notin {CR, LF} PROVE ~AtEol(t, i + 1)
  BY <1>5, <1>6, <1>10 DEF AtEol
<1>11. AtEol(t, i) \in BOOLEAN /\ AtEol(t, i + 1) \in BOOLEAN BY DEF AtEol
<1> QED BY <1>7, <1>8, <1>9, <1>10, <1>11

(* The trailer and the empty line that ends it.                            *)
LEMMA TrailerByteStep ==
    ASSUME NEW w, Layout(w), NEW d \in Decoder, NEW p \in Nat, p < Len(w.str), InTrailer(w, p, d)
    PROVE  Reads(w, p + 1, ProcessByte(d, w.str[p + 1]))
<1>1. PICK i \in 0..Len(w.trailer) + 1 : TrailerAt(w, p, d, i)
  BY DEF InTrailer
<1> DEFINE t == w.trailer
           L == Len(w.trailer)
           from == DataFrom(w, Len(w.body))
           ch == w.str[p + 1]
           e == TrailerByte(d, ch)
           next == p + 1
<1>2. Len(w.body) \in Nat /\ Len(w.body) \in 0..Len(w.body) /\ TrailerIn(w)
  BY DEF Layout
<1>3. LineAt(w, Len(w.body))
  BY <1>2 DEF Layout
<1>4. from \in Nat
  <2>1. w.off[Len(w.body)] \in Nat /\ Len(w.line[Len(w.body)]) \in Nat BY <1>3 DEF LineAt
  <2> QED BY <2>1, Shift, Zenon DEF DataFrom
<1>5. /\ L \in Nat /\ AtEol(t, L)
      /\ \A j \in 1..L : t[j] = LF => ~AtEol(t, j - 1)
      /\ \A j \in 1..L : w.str[from + j] = t[j]
      /\ w.str[from + L + 1] = CR /\ w.str[from + L + 2] = LF /\ w.end = from + L + 2
  BY <1>2 DEF TrailerIn
<1>6. /\ p = from + i /\ d.chunk_state = "TRAILER" /\ d.chunk_size_buf = <<>>
      /\ d.trailer_just_after_eol = AtEol(t, IF i <= L THEN i ELSE L)
      /\ Given(w, d, Len(w.flat)) /\ i \in 0..L + 1
  BY <1>1 DEF TrailerAt
<1>7. ProcessByte(d, ch) = e
  BY <1>6 DEF ProcessByte
<1>8. \A q \in Decoder : At(w, next, q) => Reads(w, next, q)
  BY DEF Reads
<1>9. /\ e = TrailerByte(d, ch) /\ ch = w.str[next] /\ L = Len(w.trailer) /\ t = w.trailer
      /\ from = DataFrom(w, Len(w.body))
  OBVIOUS
<1>10. next = p + 1 OBVIOUS
<1> SUFFICES Reads(w, next, e)
  BY <1>7
<1> HIDE DEF t, L, from, ch, e, next
<1>11. next = from + (i + 1) /\ i \in Nat
  BY <1>4, <1>5, <1>6, <1>10
<1>12. ASSUME NEW q, q.chunk_state = "TRAILER", q.chunk_size_buf = <<>>, q.delivered = d.delivered,
              i + 1 \in 0..L + 1, q.trailer_just_after_eol = AtEol(t, IF i + 1 <= L THEN i + 1 ELSE L)
       PROVE  At(w, next, q)
  <2>1. Given(w, q, Len(w.flat)) BY <1>6, <1>12 DEF Given
  <2>2. TrailerAt(w, next, q, i + 1)
    BY <2>1, <1>9, <1>11, <1>12 DEF TrailerAt
  <2> QED BY <2>2, <1>9, <1>12 DEF InTrailer, At
<1>13. CASE i < L
  <2>1. i + 1 \in 1..L /\ i + 1 \in 0..L + 1 /\ i + 1 <= L /\ i <= L /\ (i + 1) - 1 = i
    BY <1>5, <1>11, <1>13
  <2>2. ch = t[i + 1]
    BY <2>1, <1>5, <1>9, <1>11
  <2>3. d.trailer_just_after_eol = AtEol(t, i)
    BY <2>1, <1>6
  <2>4. CASE ch = CR
    <3>1. e = d BY <2>4, <1>9 DEF TrailerByte
    <3>2. AtEol(t, i + 1) = AtEol(t, i) BY <2>2, <2>4, <1>11, AtEolNext
    <3>3. d.trailer_just_after_eol = AtEol(t, IF i + 1 <= L THEN i + 1 ELSE L) BY <2>1, <2>3, <3>2
    <3> QED BY <3>1, <3>3, <2>1, <1>6, <1>8, <1>12
  <2>5. CASE ch = LF
    <3>1. ~AtEol(t, i) BY <2>1, <2>2, <2>5, <1>5
    <3>2. e = [d EXCEPT !.trailer_just_after_eol = TRUE]
      BY <2>3, <2>5, <3>1, <1>9, Bytes DEF TrailerByte
    <3>3. /\ e \in Decoder /\ e.chunk_state = "TRAILER" /\ e.chunk_size_buf = <<>>
          /\ e.delivered = d.delivered /\ e.trailer_just_after_eol = TRUE
      BY <3>2, <1>6 DEF Decoder
    <3>4. AtEol(t, i + 1) = TRUE BY <2>2, <2>5, <1>11, AtEolNext
    <3>5. e.trailer_just_after_eol = AtEol(t, IF i + 1 <= L THEN i + 1 ELSE L) BY <2>1, <3>3, <3>4
    <3> QED BY <3>3, <3>5, <2>1, <1>8, <1>12
  <2>6. CASE ch \notin {CR, LF}
    <3>2. e = [d EXCEPT !.trailer_just_after_eol = FALSE]
      BY <2>6, <1>9 DEF TrailerByte
    <3>3. /\ e \in Decoder /\ e.chunk_state = "TRAILER" /\ e.chunk_size_buf = <<>>
          /\ e.delivered = d.delivered /\ e.trailer_just_after_eol = FALSE
      BY <3>2, <1>6 DEF Decoder
    <3>4. AtEol(t, i + 1) = FALSE BY <2>2, <2>6, <1>11, AtEolNext
    <3>5. e.trailer_just_after_eol = AtEol(t, IF i + 1 <= L THEN i + 1 ELSE L) BY <2>1, <3>3, <3>4
    <3> QED BY <3>3, <3>5, <2>1, <1>8, <1>12
  <2> QED BY <2>4, <2>5, <2>6
<1>14. CASE i = L
  <2>1. i + 1 \in 0..L + 1 /\ ~(i + 1 <= L) /\ i <= L /\ next = from + L + 1
    BY <1>4, <1>5, <1>11, <1>14
  <2>2. e = d BY <2>1, <1>5, <1>9 DEF TrailerByte
  <2>3. d.trailer_just_after_eol = AtEol(t, IF i + 1 <= L THEN i + 1 ELSE L)
    BY <2>1, <1>6, <1>14
  <2> QED BY <2>1, <2>2, <2>3, <1>6, <1>8, <1>12
<1>15. CASE i = L + 1
  <2>1. ~(i <= L) /\ next = from + L + 2
    BY <1>4, <1>5, <1>11, <1>15
  <2>2. d.trailer_just_after_eol = AtEol(t, L)
    BY <2>1, <1>6
  <2>3. e = [d EXCEPT !.chunk_state = "DONE"]
    BY <2>1, <2>2, <1>5, <1>9, Bytes DEF TrailerByte
  <2>4. /\ e \in Decoder /\ e.chunk_state = "DONE" /\ e.chunk_size_buf = <<>>
        /\ e.delivered = d.delivered
    BY <2>3, <1>6 DEF Decoder
  <2>5. Given(w, e, Len(w.flat)) BY <2>4, <1>6 DEF Given
  <2>6. next >= w.end
    <3>1. next = w.end BY <2>1, <1>5
    <3>2. next \in Nat BY <1>10
    <3> QED BY <3>1, <3>2
  <2>7. At(w, next, e) BY <2>4, <2>5, <2>6 DEF DoneAt, At
  <2> QED BY <2>4, <2>7, <1>8
<1>16. i < L \/ i = L \/ i = L + 1
  BY <1>5, <1>6
<1> QED BY <1>13, <1>14, <1>15, <1>16

LEMMA ByteStep ==
    ASSUME NEW w, Layout(w), NEW p \in Nat, NEW d, Reads(w, p, d), p < Len(w.str)
    PROVE  Reads(w, p + 1, ProcessByte(d, w.str[p + 1]))
<1>1. d \in Decoder /\ At(w, p, d) BY DEF Reads
<1>2. CASE InLine(w, p, d) BY <1>1, <1>2, LineByteStep
<1>3. CASE InChunk(w, p, d) BY <1>1, <1>3, DataByteStep
<1>4. CASE BehindChunk(w, p, d) BY <1>1, <1>4, CrlfByteStep
<1>5. CASE InTrailer(w, p, d) BY <1>1, <1>5, TrailerByteStep
<1>6. CASE DoneAt(w, p, d)
  <2>1. ProcessByte(d, w.str[p + 1]) = d
    BY <1>6 DEF DoneAt, ProcessByte
  <2>2. w.end \in Nat
    <3>1. LineAt(w, Len(w.body)) /\ TrailerIn(w) BY DEF Layout
    <3>2. w.off[Len(w.body)] \in Nat /\ Len(w.line[Len(w.body)]) \in Nat BY <3>1 DEF LineAt
    <3>3. DataFrom(w, Len(w.body)) \in Nat BY <3>2, Shift, Zenon DEF DataFrom
    <3>4. Len(w.trailer) \in Nat /\ w.end = DataFrom(w, Len(w.body)) + Len(w.trailer) + 2
      BY <3>1 DEF TrailerIn
    <3> QED BY <3>3, <3>4
  <2>3. p + 1 >= w.end BY <2>2, <1>6 DEF DoneAt
  <2>4. DoneAt(w, p + 1, d) BY <2>3, <1>6 DEF DoneAt
  <2> QED BY <2>1, <2>4, <1>1 DEF Reads, At
<1> QED BY <1>1, <1>2, <1>3, <1>4, <1>5, <1>6 DEF At

(* The bytes one after the other: the recursive function of                *)
(* process_chunked_bytes is what its definition says.                      *)
FoldStep(d, b, f, n) == IF n = 0 THEN d ELSE ProcessByte(f[n - 1], b[n])

LEMMA FoldRecursion ==
    ASSUME NEW S, NEW b \in Seq(S), NEW d
    PROVE  \E f : /\ f = [n \in 0..Len(b) |-> FoldStep(d, b, f, n)]
                  /\ process_chunked_bytes(d, b) = f[Len(b)]
<1> DEFINE Is(f, n) == f = [m \in 0..n |-> FoldStep(d, b, f, m)]
           Bad == {n \in 0..Len(b) : ~\E f : Is(f, n)}
<1>1. Len(b) \in Nat
  BY LenProperties
<1>2. Bad = {}
  <2> SUFFICES ASSUME Bad # {} PROVE FALSE
    OBVIOUS
  <2> DEFINE n == Min(Bad)
  <2>1. n \in Bad /\ \A k \in Bad : n <= k
    <3>1. Bad \in SUBSET Nat BY <1>1
    <3> HIDE DEF Bad
    <3> QED BY <3>1, LeastOf
  <2> HIDE DEF n
  <2>2. n \in 0..Len(b) /\ ~\E f : Is(f, n)
    BY <2>1
  <2>3. CASE n = 0
    <3> DEFINE f == [m \in 0..0 |-> d]
    <3>1. \A m \in 0..0 : m = 0 OBVIOUS
    <3>2. Is(f, 0)
      BY <3>1 DEF FoldStep
    <3> QED BY <3>2, <2>2, <2>3
  <2>4. CASE n # 0
    <3>1. n - 1 \in 0..Len(b) /\ ~(n <= n - 1) /\ n \in Nat
      BY <2>2, <2>4, <1>1
    <3>2. n - 1 \notin Bad
      BY <3>1, <2>1
    <3>3. PICK f : Is(f, n - 1)
      BY <3>1, <3>2
    <3> DEFINE g == [m \in 0..n |-> IF m = n THEN FoldStep(d, b, f, n) ELSE f[m]]
    <3>4. ASSUME NEW m \in 0..n PROVE g[m] = FoldStep(d, b, g, m)
      <4>1. CASE m = 0
        <5>1. g[0] = f[0] /\ f[0] = d BY <2>4, <3>1, <3>3, <4>1 DEF FoldStep
        <5> QED BY <5>1, <4>1 DEF FoldStep
      <4>2. CASE m # 0
        <5>1. m - 1 \in 0..n /\ m - 1 # n /\ m - 1 \in 0..n - 1 BY <4>2, <3>1
        <5>2. g[m - 1] = f[m - 1] BY <5>1
        <5>3. g[m] = FoldStep(d, b, f, m)
          <6>1. CASE m = n BY <6>1
          <6>2. CASE m # n
            <7>1. m \in 0..n - 1 BY <6>2, <3>1
            <7> QED BY <7>1, <6>2, <3>3
          <6> QED BY <6>1, <6>2
        <5> HIDE DEF g
        <5> QED BY <5>2, <5>3, <4>2 DEF FoldStep
      <4> QED BY <4>1, <4>2
    <3>5. g = [m \in 0..n |-> g[m]]
      OBVIOUS
    <3> HIDE DEF g
    <3>6. Is(g, n)
      BY <3>4, <3>5
    <3> QED BY <3>6, <2>2
  <2> QED BY <2>3, <2>4
<1>3. \E f : Is(f, Len(b))
  BY <1>1, <1>2
<1> DEFINE h == CHOOSE f : Is(f, Len(b))
<1>4. Is(h, Len(b))
  BY <1>3
<1>5. process_chunked_bytes(d, b) = h[Len(b)]
  BY DEF process_chunked_bytes, FoldStep
<1> HIDE DEF h
<1> QED BY <1>4, <1>5

(* However many bytes arrive at once.                                      *)
LEMMA BytesStep ==
    ASSUME NEW w, Layout(w), NEW p \in Nat, NEW d, Reads(w, p, d), NEW n \in Nat, p + n <= Len(w.str)
    PROVE  Reads(w, p + n, process_chunked_bytes(d, SubSeq(w.str, p + 1, p + n)))
<1> DEFINE b == SubSeq(w.str, p + 1, p + n)
<1>1. w.str \in Seq(Byte) /\ Len(w.str) \in Nat BY DEF Layout
<1>2. \A i \in p + 1..p + n : w.str[i] \in Byte
  <2>1. \A i \in p + 1..p + n : i \in 1..Len(w.str) BY <1>1
  <2> QED BY <2>1, <1>1, ElementOfSeq
<1>3. b \in Seq(Byte) /\ Len(b) = n /\ \A i \in 1..n : b[i] = w.str[p + i]
  <2>1. p + 1 \in Int /\ p + n \in Int OBVIOUS
  <2>2. /\ b \in Seq(Byte)
        /\ Len(b) = IF p + 1 <= p + n THEN (p + n) - (p + 1) + 1 ELSE 0
        /\ \A i \in 1..(p + n) - (p + 1) + 1 : b[i] = w.str[(p + 1) + i - 1]
    BY <2>1, <1>2, SubSeqProperties
  <2> HIDE DEF b
  <2>3. (p + n) - (p + 1) + 1 = n /\ (p + 1 <= p + n <=> n # 0)
    OBVIOUS
  <2>4. \A i \in 1..n : (p + 1) + i - 1 = p + i OBVIOUS
  <2> QED BY <2>2, <2>3, <2>4
<1> HIDE DEF b
<1>4. PICK f : /\ f = [m \in 0..Len(b) |-> FoldStep(d, b, f, m)]
               /\ process_chunked_bytes(d, b) = f[Len(b)]
  BY <1>3, FoldRecursion
<1> DEFINE Bad == {m \in 0..n : ~Reads(w, p + m, f[m])}
<1>5. Bad = {}
  <2> SUFFICES ASSUME Bad # {} PROVE FALSE
    OBVIOUS
  <2> DEFINE m == Min(Bad)
  <2>1. m \in Bad /\ \A k \in Bad : m <= k
    <3>1. Bad \in SUBSET Nat OBVIOUS
    <3> HIDE DEF Bad
    <3> QED BY <3>1, LeastOf
  <2> HIDE DEF m
  <2>2. m \in 0..n /\ ~Reads(w, p + m, f[m]) BY <2>1
  <2>3. f[m] = FoldStep(d, b, f, m) BY <2>2, <1>3, <1>4
  <2>4. CASE m = 0
    <3>1. f[m] = d /\ p + m = p BY <2>3, <2>4 DEF FoldStep
    <3> QED BY <3>1, <2>2
  <2>5. CASE m # 0
    <3>1. m - 1 \in 0..n /\ ~(m <= m - 1) /\ m \in 1..n BY <2>2, <2>5
    <3>2. Reads(w, p + (m - 1), f[m - 1]) BY <2>1, <3>1
    <3> DEFINE q == p + (m - 1)
    <3>3. q \in Nat /\ q < Len(w.str) /\ q + 1 = p + m BY <3>1, <1>1
    <3>4. Reads(w, q, f[m - 1]) BY <3>2
    <3>5. f[m] = ProcessByte(f[m - 1], w.str[p + m])
      BY <2>3, <2>5, <3>1, <1>3 DEF FoldStep
    <3> HIDE DEF q
    <3>6. Reads(w, q + 1, ProcessByte(f[m - 1], w.str[q + 1]))
      BY <3>3, <3>4, ByteStep
    <3> QED BY <3>3, <3>5, <3>6, <2>2
  <2> QED BY <2>4, <2>5
<1>6. Reads(w, p + n, f[n]) BY <1>5
<1> QED BY <1>3, <1>4, <1>6 DEF b

-----------------------------------------------------------------------------
(* The streams that are sent.                                              *)

LEMMA CrlfIs == CRLF \in Seq(Byte) /\ Len(CRLF) = 2 /\ CRLF[1] = CR /\ CRLF[2] = LF
  BY Bytes DEF CRLF

(* One line and what comes behind it.                                      *)
Framed(r, a, b) ==
    /\ r \in Seq(Byte) /\ Len(r) = Len(a) + 2 + Len(b) + 2
    /\ \A j \in 1..Len(a) : r[j] = a[j]
    /\ r[Len(a) + 1] = CR /\ r[Len(a) + 2] = LF
    /\ \A j \in 1..Len(b) : r[Len(a) + 2 + j] = b[j]
    /\ r[Len(a) + 2 + Len(b) + 1] = CR /\ r[Len(a) + 2 + Len(b) + 2] = LF

(* A sequence and what is put behind it.                                   *)
Joined(r, a, b) ==
    /\ r \in Seq(Byte) /\ Len(r) = Len(a) + Len(b)
    /\ \A j \in 1..Len(a) : r[j] = a[j]
    /\ \A j \in 1..Len(b) : r[Len(a) + j] = b[j]

LEMMA JoinedIs == \A a, b \in Seq(Byte) : Joined(a \o b, a, b)
<1> TAKE a, b \in Seq(Byte)
<1>1. a \o b \in Seq(Byte) BY ConcatProperties
<1>2. /\ Len(a \o b) = Len(a) + Len(b)
      /\ \A j \in 1..Len(a) : (a \o b)[j] = a[j]
      /\ \A j \in 1..Len(b) : (a \o b)[Len(a) + j] = b[j]
  BY JoinElements
<1> QED BY <1>1, <1>2 DEF Joined

LEMMA FramedIs ==
    ASSUME NEW a \in Seq(Byte), NEW b \in Seq(Byte)
    PROVE  Framed(a \o CRLF \o b \o CRLF, a, b)
<1> DEFINE x == a \o CRLF
           y == x \o b
           r == y \o CRLF
           A == Len(a)
           B == Len(b)
<1>1. A \in Nat /\ B \in Nat BY LenProperties
<1>0. CRLF \in Seq(Byte) BY CrlfIs
<1>5. r = a \o CRLF \o b \o CRLF BY DEF x, y
<1>13. Joined(x, a, CRLF) BY <1>0, JoinedIs
<1>14. x \in Seq(Byte) BY <1>13 DEF Joined
<1> HIDE DEF x
<1>15. Joined(y, x, b) BY <1>14, JoinedIs
<1>16. y \in Seq(Byte) BY <1>15 DEF Joined
<1> HIDE DEF y
<1>17. Joined(r, y, CRLF) BY <1>0, <1>16, JoinedIs
<1> HIDE DEF r
<1>18. A = Len(a) /\ B = Len(b) OBVIOUS
<1> HIDE DEF A, B
<1>2. /\ Len(x) = A + 2
      /\ \A j \in 1..A : x[j] = a[j]
      /\ x[A + 1] = CR /\ x[A + 2] = LF
  <2>1. /\ Len(x) = A + Len(CRLF)
        /\ \A j \in 1..A : x[j] = a[j]
        /\ \A j \in 1..Len(CRLF) : x[A + j] = CRLF[j]
    BY <1>13, <1>18 DEF Joined
  <2> QED BY <2>1, CrlfIs
<1>3. /\ Len(y) = A + 2 + B
      /\ \A j \in 1..A + 2 : y[j] = x[j]
      /\ \A j \in 1..B : y[A + 2 + j] = b[j]
  BY <1>2, <1>15, <1>18 DEF Joined
<1>4. /\ r \in Seq(Byte) /\ Len(r) = A + 2 + B + 2
      /\ \A j \in 1..A + 2 + B : r[j] = y[j]
      /\ r[A + 2 + B + 1] = CR /\ r[A + 2 + B + 2] = LF
  <2>1. /\ r \in Seq(Byte) /\ Len(r) = (A + 2 + B) + Len(CRLF)
        /\ \A j \in 1..A + 2 + B : r[j] = y[j]
        /\ \A j \in 1..Len(CRLF) : r[A + 2 + B + j] = CRLF[j]
    BY <1>3, <1>17 DEF Joined
  <2> QED BY <2>1, CrlfIs
<1>6. \A j \in 1..A : j \in 1..A + 2 /\ j \in 1..A + 2 + B BY <1>1
<1>7. /\ A + 1 \in 1..A + 2 /\ A + 1 \in 1..A + 2 + B
      /\ A + 2 \in 1..A + 2 /\ A + 2 \in 1..A + 2 + B
  BY <1>1
<1>8. \A j \in 1..B : A + 2 + j \in 1..A + 2 + B BY <1>1
<1>9. \A j \in 1..A : r[j] = a[j] BY <1>2, <1>3, <1>4, <1>6
<1>10. r[A + 1] = CR /\ r[A + 2] = LF BY <1>2, <1>3, <1>4, <1>7
<1>11. \A j \in 1..B : r[A + 2 + j] = b[j] BY <1>3, <1>4, <1>8
<1>12. Framed(r, a, b) BY <1>4, <1>9, <1>10, <1>11, <1>18 DEF Framed
<1> QED BY <1>5, <1>12

(* What ServerAssumption says of one response.                             *)
Response(body, size, last, trailer, after) ==
    /\ body \in Bodies /\ last \in SizeLine[0] /\ trailer \in Trailers /\ after \in Following
    /\ \A i \in DOMAIN body : size[i] \in SizeLine[Len(body[i])]

Line(line, n) ==
    /\ line \in Seq(Byte \ {CR, LF}) /\ line \in Seq(Byte) /\ Len(line) \in Nat
    /\ strtol16(Collected(line)) = n

LEMMA LineIs == \A n \in DOMAIN SizeLine : \A line \in SizeLine[n] : Line(line, n)
<1> TAKE n \in DOMAIN SizeLine
<1> TAKE line \in SizeLine[n]
<1>1. line \in Seq(Byte \ {CR, LF}) /\ strtol16(Collected(line)) = n
  BY ServerAssumption
<1>2. line \in Seq(Byte)
  <2>1. Byte \ {CR, LF} \subseteq Byte OBVIOUS
  <2> QED BY <1>1, <2>1, SeqMonotonic
<1>3. Len(line) \in Nat BY <1>2, LenProperties
<1> QED BY <1>1, <1>2, <1>3 DEF Line

Chunk(c, size) ==
    /\ c \in Seq(Byte) /\ Len(c) \in Nat \ {0}
    /\ Line(size, Len(c))

LEMMA ChunksAre ==
    ASSUME NEW body, NEW size, NEW last, NEW trailer, NEW after,
           Response(body, size, last, trailer, after)
    PROVE  /\ body \in Seq(Seq(Byte)) /\ Len(body) \in Nat /\ DOMAIN body = 1..Len(body)
           /\ \A i \in 1..Len(body) : Chunk(body[i], size[i])
<1>1. body \in Seq(Seq(Byte)) /\ \A i \in DOMAIN body : body[i] # <<>> /\ Len(body[i]) \in DOMAIN SizeLine
  BY ServerAssumption DEF Response
<1>2. Len(body) \in Nat /\ DOMAIN body = 1..Len(body)
  BY <1>1, LenProperties
<1>3. ASSUME NEW i \in 1..Len(body) PROVE Chunk(body[i], size[i])
  <2>1. body[i] \in Seq(Byte) BY <1>1, ElementOfSeq
  <2>2. body[i] # <<>> /\ Len(body[i]) \in DOMAIN SizeLine /\ size[i] \in SizeLine[Len(body[i])]
    BY <1>1, <1>2 DEF Response
  <2>3. Len(body[i]) \in Nat BY <2>1, LenProperties
  <2>4. Len(body[i]) # 0 BY <2>1, <2>2, EmptySeq
  <2>5. Line(size[i], Len(body[i])) BY <2>2, LineIs
  <2> QED BY <2>1, <2>3, <2>4, <2>5 DEF Chunk
<1> QED BY <1>1, <1>2, <1>3

(* The chunks of a response, one behind the other: chunk k + 1 begins      *)
(* behind the first k, whose length is e[k].                               *)
Segments(body, size) == [i \in DOMAIN body |-> size[i] \o CRLF \o body[i] \o CRLF]

Starts(e, s, r) ==
    /\ e[0] = 0 /\ e[Len(s)] = Len(r)
    /\ \A k \in 0..Len(s) : e[k] \in Nat /\ e[k] <= e[Len(s)]
    /\ \A k \in 0..Len(s) - 1 :
          /\ Len(s[k + 1]) \in Nat /\ e[k + 1] = e[k] + Len(s[k + 1])
          /\ \A j \in 1..Len(s[k + 1]) : e[k] + j \in 1..Len(r) /\ r[e[k] + j] = s[k + 1][j]

LEMMA StartsAre ==
    ASSUME NEW s \in Seq(Seq(Byte))
    PROVE  FlattenSeq(s) \in Seq(Byte) /\ \E e : Starts(e, s, FlattenSeq(s))
<1>1. PICK f : FirstParts(f, s) /\ FlattenSeq(s) = f[Len(s)]
  BY FlattenPrefixes
<1>2. Parts(f, s, Byte) BY <1>1, PrefixParts
<1> DEFINE N == Len(s)
           r == FlattenSeq(s)
           e == [k \in 0..N |-> Len(f[k])]
<1>3. N \in Nat /\ \A k \in 1..N : s[k] \in Seq(Byte)
  BY LenProperties, ElementOfSeq
<1>4. r = f[N] BY <1>1
<1>5. /\ f[0] = <<>>
      /\ \A k \in 0..N : f[k] \in Seq(Byte) /\ Len(f[k]) \in Nat /\ Len(f[k]) <= Len(f[N])
      /\ \A k \in 0..N - 1 :
            /\ Len(f[k + 1]) = Len(f[k]) + Len(s[k + 1])
            /\ \A i \in 1..Len(s[k + 1]) : f[N][Len(f[k]) + i] = s[k + 1][i]
  BY <1>2 DEF Parts
<1>6. \A k \in 0..N : e[k] = Len(f[k])
  OBVIOUS
<1>7. 0 \in 0..N /\ N \in 0..N /\ \A k \in 0..N - 1 : k \in 0..N /\ k + 1 \in 0..N /\ k + 1 \in 1..N
  BY <1>3
<1>8. Len(f[0]) = 0 BY <1>5, EmptySeq
<1> HIDE DEF N, r, e
<1>9. r \in Seq(Byte) BY <1>4, <1>5, <1>7
<1>10. e[0] = 0 /\ e[N] = Len(r) /\ \A k \in 0..N : e[k] \in Nat /\ e[k] <= e[N]
  BY <1>4, <1>5, <1>6, <1>7, <1>8
<1>11. ASSUME NEW k \in 0..N - 1
       PROVE  /\ Len(s[k + 1]) \in Nat /\ e[k + 1] = e[k] + Len(s[k + 1])
              /\ \A j \in 1..Len(s[k + 1]) : e[k] + j \in 1..Len(r) /\ r[e[k] + j] = s[k + 1][j]
  <2> DEFINE n == Len(s[k + 1])
             a == e[k]
  <2>1. s[k + 1] \in Seq(Byte) BY <1>3, <1>7
  <2>2. n \in Nat BY <2>1, LenProperties
  <2>3. a = Len(f[k]) /\ e[k + 1] = a + n /\ \A j \in 1..n : r[a + j] = s[k + 1][j]
    BY <1>4, <1>5, <1>6, <1>7
  <2>4. a \in Nat /\ e[k + 1] <= Len(r) /\ Len(r) \in Nat BY <1>7, <1>9, <1>10, LenProperties
  <2> HIDE DEF n, a
  <2>5. ASSUME NEW j \in 1..n PROVE a + j \in 1..Len(r)
    <3>1. a + n <= Len(r) BY <2>3, <2>4
    <3> QED BY <3>1, <2>2, <2>4
  <2> QED BY <2>2, <2>3, <2>5 DEF n, a
<1>12. Starts(e, s, r) BY <1>10, <1>11 DEF Starts, N
<1>13. r = FlattenSeq(s) BY DEF r
<1> QED BY <1>9, <1>12, <1>13

LEMMA SegmentsAre ==
    ASSUME NEW body, NEW size, NEW last, NEW trailer, NEW after,
           Response(body, size, last, trailer, after)
    PROVE  /\ Segments(body, size) \in Seq(Seq(Byte)) /\ Len(Segments(body, size)) = Len(body)
           /\ \A i \in 1..Len(body) : Framed(Segments(body, size)[i], size[i], body[i])
<1> DEFINE s == Segments(body, size)
           N == Len(body)
<1>1. N \in Nat /\ DOMAIN body = 1..N /\ \A i \in 1..N : Chunk(body[i], size[i])
  BY ChunksAre
<1>2. \A i \in 1..N : body[i] \in Seq(Byte) /\ size[i] \in Seq(Byte)
  BY <1>1 DEF Chunk, Line
<1>3. s = [i \in 1..N |-> size[i] \o CRLF \o body[i] \o CRLF]
  BY <1>1 DEF Segments
<1> HIDE DEF s, N
<1>4. ASSUME NEW i \in 1..N PROVE Framed(s[i], size[i], body[i])
  <2>1. s[i] = size[i] \o CRLF \o body[i] \o CRLF BY <1>3
  <2> DEFINE a == size[i]
             b == body[i]
  <2>2. a \in Seq(Byte) /\ b \in Seq(Byte) BY <1>2
  <2> HIDE DEF a, b
  <2>3. Framed(a \o CRLF \o b \o CRLF, a, b) BY <2>2, FramedIs
  <2> QED BY <2>1, <2>3 DEF a, b
<1>5. \A i \in 1..N : s[i] \in Seq(Byte) BY <1>4 DEF Framed
<1>6. s = [i \in 1..N |-> s[i]] BY <1>3
<1>7. s \in Seq(Seq(Byte)) /\ Len(s) = N
  <2>1. s \in Seq(Seq(Byte)) BY <1>1, <1>5, <1>6
  <2>2. DOMAIN s = 1..N BY <1>3
  <2> QED BY <2>1, <2>2, <1>1, LenProperties
<1> QED BY <1>4, <1>7 DEF s, N

(* What a trailer is, and where it is.                                     *)
LEMMA TrailerIs ==
    ASSUME NEW body, NEW size, NEW last, NEW trailer, NEW after,
           Response(body, size, last, trailer, after)
    PROVE  /\ trailer \in Seq(Byte) /\ Len(trailer) \in Nat
           /\ AtEol(trailer, Len(trailer))
           /\ \A i \in 1..Len(trailer) : trailer[i] = LF => ~AtEol(trailer, i - 1)
           /\ after \in Seq(Byte) /\ Len(after) \in Nat
           /\ Line(last, 0)
<1>1. /\ trailer \in Seq(Byte) /\ AtEol(trailer, Len(trailer)) /\ after \in Seq(Byte)
      /\ \A i \in DOMAIN trailer : trailer[i] = LF => ~AtEol(trailer, i - 1)
  BY ServerAssumption DEF Response
<1>2. Line(last, 0)
  <2>1. 0 \in DOMAIN SizeLine /\ last \in SizeLine[0] BY ServerAssumption DEF Response
  <2> QED BY <2>1, LineIs
<1>3. DOMAIN trailer = 1..Len(trailer) /\ Len(trailer) \in Nat /\ Len(after) \in Nat
  BY <1>1, LenProperties
<1> QED BY <1>1, <1>2, <1>3

(* The stream: the segments, the last size line and its CRLF, the trailer  *)
(* and its CRLF, and what follows.                                         *)
Whole(str, r, last, trailer, after) ==
    LET at == Len(r) + Len(last) + 2 IN
    /\ str \in Seq(Byte) /\ Len(str) = at + Len(trailer) + 2 + Len(after)
    /\ \A i \in 1..Len(r) : str[i] = r[i]
    /\ \A i \in 1..Len(last) : str[Len(r) + i] = last[i]
    /\ str[Len(r) + Len(last) + 1] = CR /\ str[Len(r) + Len(last) + 2] = LF
    /\ \A i \in 1..Len(trailer) : str[at + i] = trailer[i]
    /\ str[at + Len(trailer) + 1] = CR /\ str[at + Len(trailer) + 2] = LF

LEMMA WholeIs ==
    ASSUME NEW r \in Seq(Byte), NEW last \in Seq(Byte), NEW trailer \in Seq(Byte), NEW after \in Seq(Byte)
    PROVE  Whole((r \o last \o CRLF \o trailer \o CRLF) \o after, r, last, trailer, after)
<1> DEFINE a == r \o last
           q == a \o CRLF \o trailer \o CRLF
           str == q \o after
           R == Len(r)
           L == Len(last)
           T == Len(trailer)
           F == Len(after)
<1>1. R \in Nat /\ L \in Nat /\ T \in Nat /\ F \in Nat BY LenProperties
<1>2. str = (r \o last \o CRLF \o trailer \o CRLF) \o after OBVIOUS
<1>3. Joined(a, r, last) BY JoinedIs
<1>4. a \in Seq(Byte) BY <1>3 DEF Joined
<1> HIDE DEF a
<1>5. Framed(q, a, trailer) BY <1>4, FramedIs
<1>6. q \in Seq(Byte) BY <1>5 DEF Framed
<1> HIDE DEF q
<1>7. Joined(str, q, after) BY <1>6, JoinedIs
<1> HIDE DEF str
<1>8. R = Len(r) /\ L = Len(last) /\ T = Len(trailer) /\ F = Len(after) OBVIOUS
<1> HIDE DEF R, L, T, F
<1>9. /\ Len(a) = R + L
      /\ \A i \in 1..R : a[i] = r[i]
      /\ \A i \in 1..L : a[R + i] = last[i]
  BY <1>3, <1>8 DEF Joined
<1>10. /\ Len(q) = R + L + 2 + T + 2
       /\ \A i \in 1..R + L : q[i] = a[i]
       /\ q[R + L + 1] = CR /\ q[R + L + 2] = LF
       /\ \A i \in 1..T : q[R + L + 2 + i] = trailer[i]
       /\ q[R + L + 2 + T + 1] = CR /\ q[R + L + 2 + T + 2] = LF
  BY <1>5, <1>8, <1>9 DEF Framed
<1>11. /\ str \in Seq(Byte) /\ Len(str) = R + L + 2 + T + 2 + F
       /\ \A i \in 1..R + L + 2 + T + 2 : str[i] = q[i]
  BY <1>7, <1>8, <1>10 DEF Joined
<1> DEFINE n == R + L + 2 + T + 2
<1>12. /\ \A i \in 1..R : i \in 1..R + L /\ i \in 1..n
       /\ \A i \in 1..L : R + i \in 1..R + L /\ R + i \in 1..n
       /\ R + L + 1 \in 1..n /\ R + L + 2 \in 1..n
  BY <1>1
<1>13. /\ \A i \in 1..T : R + L + 2 + i \in 1..n
       /\ R + L + 2 + T + 1 \in 1..n /\ R + L + 2 + T + 2 \in 1..n
  BY <1>1
<1>14. \A i \in 1..n : str[i] = q[i] BY <1>11
<1> HIDE DEF n
<1>15. \A i \in 1..R : str[i] = r[i] BY <1>9, <1>10, <1>12, <1>14
<1>16. \A i \in 1..L : str[R + i] = last[i] BY <1>9, <1>10, <1>12, <1>14
<1>17. str[R + L + 1] = CR /\ str[R + L + 2] = LF BY <1>10, <1>12, <1>14
<1>18. \A i \in 1..T : str[R + L + 2 + i] = trailer[i] BY <1>10, <1>13, <1>14
<1>19. str[R + L + 2 + T + 1] = CR /\ str[R + L + 2 + T + 2] = LF BY <1>10, <1>13, <1>14
<1>20. Whole(str, r, last, trailer, after)
  BY <1>8, <1>11, <1>15, <1>16, <1>17, <1>18, <1>19 DEF Whole
<1> QED BY <1>2, <1>20

LEMMA StreamLayout ==
    ASSUME NEW body, NEW size, NEW last, NEW trailer, NEW after,
           Response(body, size, last, trailer, after)
    PROVE  LET str == Encode(body, size, last, trailer) \o after IN
           \E w : /\ Layout(w) /\ w.body = body /\ w.str = str
                  /\ w.end = Len(str) - Len(after) /\ w.flat = FlattenSeq(body)
<1> DEFINE N == Len(body)
           s == Segments(body, size)
           r == FlattenSeq(s)
           flat == FlattenSeq(body)
           str == Encode(body, size, last, trailer) \o after
           line == [k \in 0..N |-> IF k < N THEN size[k + 1] ELSE last]
<1>1. /\ body \in Seq(Seq(Byte)) /\ N \in Nat
      /\ \A i \in 1..N : Chunk(body[i], size[i])
  BY ChunksAre
<1>2. /\ trailer \in Seq(Byte) /\ Len(trailer) \in Nat
      /\ AtEol(trailer, Len(trailer))
      /\ \A i \in 1..Len(trailer) : trailer[i] = LF => ~AtEol(trailer, i - 1)
      /\ after \in Seq(Byte) /\ Len(after) \in Nat
      /\ Line(last, 0)
  BY TrailerIs
<1>3. s \in Seq(Seq(Byte)) /\ Len(s) = N /\ \A i \in 1..N : Framed(s[i], size[i], body[i])
  BY SegmentsAre
<1>4. str = (r \o last \o CRLF \o trailer \o CRLF) \o after
  BY DEF Encode, Segments
<1>5. last \in Seq(Byte) /\ last \in Seq(Byte \ {CR, LF}) /\ Len(last) \in Nat /\ strtol16(Collected(last)) = 0
  BY <1>2 DEF Line
<1>6. /\ \A k \in 0..N - 1 : line[k] = size[k + 1] /\ k \in 0..N /\ k + 1 \in 0..N /\ k + 1 \in 1..N /\ k < N
      /\ line[N] = last
  BY <1>1
<1> HIDE DEF s
<1>7. r \in Seq(Byte) /\ \E e : Starts(e, s, r)
  BY <1>3, StartsAre
<1>8. PICK e : Starts(e, s, r)
  BY <1>7
<1>9. flat \in Seq(Byte) /\ \E g : Starts(g, body, flat)
  BY <1>1, StartsAre
<1>10. PICK g : Starts(g, body, flat)
  BY <1>9
<1>a. str = Encode(body, size, last, trailer) \o after /\ flat = FlattenSeq(body) OBVIOUS
<1> HIDE DEF r, flat, str, line
<1>11. Whole(str, r, last, trailer, after)
  BY <1>2, <1>4, <1>5, <1>7, WholeIs
<1> DEFINE end == Len(str) - Len(after)
           w == [body |-> body, str |-> str, end |-> end, line |-> line, trailer |-> trailer,
                 off |-> e, given |-> g, flat |-> flat]
<1>12. /\ w.body = body /\ w.str = str /\ w.end = end /\ w.line = line /\ w.trailer = trailer
       /\ w.off = e /\ w.given = g /\ w.flat = flat
  OBVIOUS
<1>b. end = Len(str) - Len(after) OBVIOUS
<1> HIDE DEF w, end
<1>c. Len(r) \in Nat /\ Len(flat) \in Nat BY <1>7, <1>9, LenProperties
<1>13. /\ e[0] = 0 /\ e[N] = Len(r)
       /\ \A k \in 0..N : e[k] \in Nat /\ e[k] <= e[N]
       /\ \A k \in 0..N - 1 :
             /\ Len(s[k + 1]) \in Nat /\ e[k + 1] = e[k] + Len(s[k + 1])
             /\ \A j \in 1..Len(s[k + 1]) : e[k] + j \in 1..Len(r) /\ r[e[k] + j] = s[k + 1][j]
  BY <1>3, <1>8 DEF Starts
<1>14. /\ g[0] = 0 /\ g[N] = Len(flat)
       /\ \A k \in 0..N : g[k] \in Nat /\ g[k] <= g[N]
       /\ \A k \in 0..N - 1 :
             /\ g[k + 1] = g[k] + Len(body[k + 1])
             /\ \A j \in 1..Len(body[k + 1]) : flat[g[k] + j] = body[k + 1][j]
  BY <1>10 DEF Starts
<1>15. /\ str \in Seq(Byte)
       /\ \A i \in 1..Len(r) : str[i] = r[i]
       /\ \A i \in 1..Len(last) : str[Len(r) + i] = last[i]
       /\ str[Len(r) + Len(last) + 1] = CR /\ str[Len(r) + Len(last) + 2] = LF
  BY <1>11 DEF Whole
<1>16. Len(str) \in Nat BY <1>15, LenProperties
(* Chunk k + 1 in the stream. *)
<1>17. ASSUME NEW k \in 0..N - 1
       PROVE  LineAt(w, k) /\ ChunkAt(w, k)
  <2> DEFINE seg == s[k + 1]
             ln == size[k + 1]
             c == body[k + 1]
             L == Len(ln)
             n == Len(c)
             o == e[k]
  <2>1. \A j \in 1..Len(seg) : str[o + j] = seg[j]
    BY <1>13, <1>15
  <2>2. Chunk(c, ln) /\ Framed(seg, ln, c) BY <1>1, <1>3, <1>6
  <2>3. o \in Nat /\ o <= e[N] /\ e[k + 1] = o + Len(seg)
    BY <1>6, <1>13
  <2>4. g[k] \in Nat /\ g[k] <= Len(flat) /\ g[k + 1] = g[k] + n /\ \A j \in 1..n : flat[g[k] + j] = c[j]
    BY <1>6, <1>14
  <2>5. w.line[k] = ln /\ w.body[k + 1] = c /\ w.off[k] = o /\ Size(w, k) = n /\ w.given[k] = g[k]
        /\ w.off[k + 1] = e[k + 1] /\ w.given[k + 1] = g[k + 1] /\ w.off[Len(w.body)] = e[N]
    BY <1>6, <1>12 DEF Size
  <2> HIDE DEF seg, ln, c, o
  <2>6. /\ c \in Seq(Byte) /\ n \in Nat \ {0} /\ ln \in Seq(Byte \ {CR, LF}) /\ L \in Nat
        /\ strtol16(Collected(ln)) = n
    BY <2>2 DEF Chunk, Line
  <2>7. /\ Len(seg) = L + 2 + n + 2
        /\ \A j \in 1..L : seg[j] = ln[j]
        /\ seg[L + 1] = CR /\ seg[L + 2] = LF
        /\ \A j \in 1..n : seg[L + 2 + j] = c[j]
        /\ seg[L + 2 + n + 1] = CR /\ seg[L + 2 + n + 2] = LF
    BY <2>2 DEF Framed
  <2>8. L = Len(ln) /\ n = Len(c) OBVIOUS
  <2> HIDE DEF L, n
  <2>9. \A j \in 1..L + 2 + n + 2 : str[o + j] = seg[j] BY <2>1, <2>7
  <2>10. /\ \A j \in 1..L : str[o + j] = ln[j]
         /\ str[o + (L + 1)] = CR /\ str[o + (L + 2)] = LF
    <3>1. /\ \A j \in 1..L : j \in 1..L + 2 + n + 2
          /\ L + 1 \in 1..L + 2 + n + 2 /\ L + 2 \in 1..L + 2 + n + 2
      BY <2>6
    <3> QED BY <3>1, <2>7, <2>9
  <2>11. /\ \A j \in 1..n : str[o + (L + 2 + j)] = c[j]
         /\ str[o + (L + 2 + n + 1)] = CR /\ str[o + (L + 2 + n + 2)] = LF
    <3>1. /\ \A j \in 1..n : L + 2 + j \in 1..L + 2 + n + 2
          /\ L + 2 + n + 1 \in 1..L + 2 + n + 2 /\ L + 2 + n + 2 \in 1..L + 2 + n + 2
      BY <2>6
    <3> QED BY <3>1, <2>7, <2>9
  <2>12. /\ o + (L + 1) = o + L + 1 /\ o + (L + 2) = o + L + 2
         /\ \A j \in 1..n : o + (L + 2 + j) = o + L + 2 + j
         /\ o + (L + 2 + n + 1) = o + L + 2 + n + 1
         /\ o + (L + 2 + n + 2) = o + L + 2 + n + 2
    BY <2>3, <2>6
  <2>13. e[k + 1] = o + L + 2 + n + 2 BY <2>3, <2>6, <2>7
  <2>14. DataFrom(w, k) = o + L + 2 BY <2>5, <2>8 DEF DataFrom
  <2>15. LineAt(w, k)
    BY <2>3, <2>4, <2>5, <2>6, <2>8, <2>10, <2>12, <1>12 DEF LineAt
  <2>16. /\ \A j \in 1..n : str[DataFrom(w, k) + j] = c[j]
         /\ str[DataFrom(w, k) + n + 1] = CR /\ str[DataFrom(w, k) + n + 2] = LF
         /\ e[k + 1] = DataFrom(w, k) + n + 2
    BY <2>11, <2>12, <2>13, <2>14
  <2>17. ChunkAt(w, k)
    BY <2>4, <2>5, <2>6, <2>8, <2>16, <1>12 DEF ChunkAt
  <2> QED BY <2>15, <2>17
(* The last size line. *)
<1>18. LineAt(w, N)
  <2>1. w.line[N] = last /\ Size(w, N) = 0 /\ w.off[N] = Len(r) /\ w.given[N] = Len(flat) /\ w.off[Len(w.body)] = Len(r)
    BY <1>1, <1>6, <1>12, <1>13, <1>14 DEF Size
  <2>2. Len(r) <= Len(r) /\ Len(flat) <= Len(flat) BY <1>c
  <2> QED BY <2>1, <2>2, <1>5, <1>12, <1>15, <1>c DEF LineAt
<1>19. TrailerIn(w)
  <2> DEFINE at == Len(r) + Len(last) + 2
  <2>1. /\ \A i \in 1..Len(trailer) : str[at + i] = trailer[i]
        /\ str[at + Len(trailer) + 1] = CR /\ str[at + Len(trailer) + 2] = LF
        /\ Len(str) = at + Len(trailer) + 2 + Len(after)
    BY <1>11 DEF Whole
  <2>2. DataFrom(w, Len(w.body)) = at BY <1>6, <1>12, <1>13 DEF DataFrom
  <2>3. at \in Nat BY <1>5, <1>c
  <2> HIDE DEF at
  <2>4. end = at + Len(trailer) + 2 /\ end <= Len(str) BY <2>1, <2>3, <1>2, <1>16, <1>b
  <2> QED BY <2>1, <2>2, <2>4, <1>2, <1>12 DEF TrailerIn
<1>20. Layout(w)
  <2>1. \A k \in 0..N : k \in 0..N - 1 \/ k = N BY <1>1
  <2>2. \A k \in 0..N : LineAt(w, k) BY <2>1, <1>17, <1>18
  <2> QED BY <2>2, <1>1, <1>9, <1>12, <1>13, <1>14, <1>15, <1>16, <1>17, <1>19, <1>c DEF Layout
<1> QED BY <1>20, <1>12, <1>a, <1>b

-----------------------------------------------------------------------------
(* The specification.                                                      *)

Laid(w) ==
    /\ Layout(w)
    /\ w.body = chunks /\ w.str = stream /\ w.end = ends /\ w.flat = FlattenSeq(chunks)

DecoderIInv ==
    /\ chunks \in Bodies
    /\ pos \in 0..Len(stream)
    /\ \E w : Laid(w) /\ Reads(w, pos, ctx)

LEMMA DecoderInitIInv == DecoderInit => DecoderIInv
<1> SUFFICES ASSUME DecoderInit PROVE DecoderIInv
  OBVIOUS
<1>1. PICK body \in Bodies, last \in SizeLine[0], trailer \in Trailers, after \in Following :
         \E size \in [DOMAIN body -> UNION {SizeLine[n] : n \in DOMAIN SizeLine}] :
            /\ \A i \in DOMAIN body : size[i] \in SizeLine[Len(body[i])]
            /\ chunks = body
            /\ stream = Encode(body, size, last, trailer) \o after
            /\ ends = Len(stream) - Len(after)
  BY DEF DecoderInit
<1>2. PICK size :
            /\ \A i \in DOMAIN body : size[i] \in SizeLine[Len(body[i])]
            /\ chunks = body
            /\ stream = Encode(body, size, last, trailer) \o after
            /\ ends = Len(stream) - Len(after)
  BY <1>1
<1>3. pos = 0 /\ ctx = [chunk_state |-> "SIZE", chunk_size_buf |-> <<>>, chunk_remaining |-> 0,
                        trailer_just_after_eol |-> FALSE, delivered |-> <<>>]
  BY DEF DecoderInit
<1>4. Response(body, size, last, trailer, after) BY <1>2 DEF Response
<1> DEFINE str == Encode(body, size, last, trailer) \o after
<1>5. \E w : /\ Layout(w) /\ w.body = body /\ w.str = str
             /\ w.end = Len(str) - Len(after) /\ w.flat = FlattenSeq(body)
  BY <1>4, StreamLayout
<1>6. str = stream BY <1>2
<1> HIDE DEF str
<1>7. PICK w : Laid(w)
  BY <1>2, <1>5, <1>6 DEF Laid
<1>8. ctx \in Decoder
  BY <1>3, EmptySeq DEF Decoder
<1>9. /\ Len(w.body) \in Nat /\ w.off[0] = 0 /\ w.given[0] = 0 /\ Len(w.flat) \in Nat
      /\ LineAt(w, 0) /\ Len(w.str) \in Nat
  BY <1>7 DEF Laid, Layout
<1>10. Len(w.line[0]) \in Nat BY <1>9 DEF LineAt
<1>11. Len(<<>>) = 0 /\ \A i \in 1..0 : FALSE OBVIOUS
<1>12. Given(w, ctx, 0) BY <1>3, <1>9, <1>11 DEF Given
<1>13. SizeAt(w, 0, ctx, 0, 0)
  BY <1>3, <1>9, <1>10, <1>11, <1>12 DEF SizeAt, Fits, BUFSZ
<1>14. 0 \in 0..Len(w.body) /\ 0 \in 0..Len(w.line[0]) + 1 /\ 0 \in 0..Len(w.str) BY <1>9, <1>10
<1>15. Reads(w, 0, ctx) BY <1>8, <1>13, <1>14 DEF Reads, At, InLine
<1>16. chunks \in Bodies BY <1>1
<1>17. pos \in 0..Len(stream) BY <1>3, <1>7, <1>14 DEF Laid
<1> QED BY <1>3, <1>7, <1>15, <1>16, <1>17 DEF DecoderIInv

LEMMA DecoderNextIInv == DecoderIInv /\ [DecoderNext]_decoderVars => DecoderIInv'
<1> SUFFICES ASSUME DecoderIInv, [DecoderNext]_decoderVars PROVE DecoderIInv'
  OBVIOUS
<1>1. PICK w : Laid(w) /\ Reads(w, pos, ctx)
  BY DEF DecoderIInv
<1>2. Layout(w) /\ w.str = stream /\ Len(stream) \in Nat
  BY <1>1 DEF Laid, Layout
<1>3. CASE DecoderNext
  <2>1. PICK n \in 1..Len(stream) : Receive(n)
    BY <1>3 DEF DecoderNext
  <2>2. pos \in Nat /\ n \in Nat /\ pos + n <= Len(stream) /\ pos + n \in 0..Len(stream)
    BY <2>1, <1>2 DEF Receive, DecoderIInv
  <2>3. /\ ctx' = process_chunked_bytes(ctx, SubSeq(w.str, pos + 1, pos + n))
        /\ pos' = pos + n /\ UNCHANGED <<chunks, stream, ends>>
    BY <2>1, <1>2 DEF Receive
  <2>4. pos + n <= Len(w.str) BY <2>2, <1>2
  <2>5. Reads(w, pos + n, process_chunked_bytes(ctx, SubSeq(w.str, pos + 1, pos + n)))
    BY <2>2, <2>4, <1>1, <1>2, BytesStep
  <2>6. Reads(w, pos', ctx') BY <2>3, <2>5
  <2>7. Laid(w)' BY <2>3, <1>1 DEF Laid
  <2>8. (chunks \in Bodies)' /\ (pos \in 0..Len(stream))' BY <2>2, <2>3 DEF DecoderIInv
  <2> QED BY <2>6, <2>7, <2>8 DEF DecoderIInv
<1>4. CASE UNCHANGED decoderVars
  BY <1>4 DEF decoderVars, DecoderIInv, Laid
<1> QED BY <1>3, <1>4

LEMMA DecoderInvariant == DecoderSpec => []DecoderIInv
  BY DecoderInitIInv, DecoderNextIInv, PTL DEF DecoderSpec

(* Before the response is in the decoder is not done.                      *)
LEMMA EndOfLine ==
    ASSUME NEW w, Layout(w), NEW k \in 0..Len(w.body)
    PROVE  w.off[k] \in Nat /\ Len(w.line[k]) \in Nat /\ DataFrom(w, k) = w.off[k] + Len(w.line[k]) + 2
           /\ w.off[k] + Len(w.line[k]) + 2 < w.end /\ w.end \in Nat
<1> DEFINE N == Len(w.body)
<1>1. N \in Nat /\ LineAt(w, k) /\ LineAt(w, N) /\ TrailerIn(w)
  <2>1. N \in Nat BY DEF Layout
  <2>2. N \in 0..N BY <2>1
  <2> QED BY <2>1, <2>2 DEF Layout
<1>2. /\ w.off[k] \in Nat /\ Len(w.line[k]) \in Nat /\ w.off[N] \in Nat /\ Len(w.line[N]) \in Nat
      /\ Len(w.trailer) \in Nat
      /\ w.end = w.off[N] + Len(w.line[N]) + 2 + Len(w.trailer) + 2
  BY <1>1 DEF LineAt, TrailerIn, DataFrom
<1>3. w.end \in Nat /\ w.off[N] + Len(w.line[N]) + 2 < w.end /\ w.off[N] < w.end
  <2> DEFINE o == w.off[N]
             L == Len(w.line[N])
             T == Len(w.trailer)
             f == w.end
  <2>1. o \in Nat /\ L \in Nat /\ T \in Nat /\ f = o + L + 2 + T + 2 BY <1>2
  <2> HIDE DEF o, L, T, f
  <2>2. f \in Nat /\ o + L + 2 < f /\ o < f BY <2>1
  <2> QED BY <2>2 DEF o, L, f
<1>4. CASE k = N
  BY <1>2, <1>3, <1>4 DEF DataFrom
<1>5. CASE k # N
  <2>1. k \in 0..N - 1 /\ k + 1 \in 0..N BY <1>1, <1>5
  <2>2. ChunkAt(w, k) /\ LineAt(w, k + 1) BY <2>1 DEF Layout
  <2> DEFINE o == w.off[k]
             L == Len(w.line[k])
             n == Len(w.body[k + 1])
  <2>3. /\ n \in Nat /\ w.off[k + 1] = o + L + 2 + n + 2 /\ w.off[k + 1] <= w.off[N]
    BY <2>2 DEF ChunkAt, LineAt, DataFrom
  <2>4. o \in Nat /\ L \in Nat BY <1>2
  <2>5. DataFrom(w, k) = o + L + 2 BY DEF DataFrom
  <2> HIDE DEF o, L, n
  <2>6. o + L + 2 <= w.off[N]
    <3> DEFINE z == w.off[N]
    <3>1. z \in Nat /\ o + L + 2 + n + 2 <= z BY <2>3, <1>2
    <3> HIDE DEF z
    <3>2. o + L + 2 <= z BY <3>1, <2>3, <2>4
    <3> QED BY <3>2 DEF z
  <2>7. o + L + 2 < w.end
    <3> DEFINE z == w.off[N]
               f == w.end
    <3>1. z \in Nat /\ f \in Nat /\ o + L + 2 <= z /\ z < f BY <2>6, <1>2, <1>3
    <3> HIDE DEF z, f
    <3>2. o + L + 2 < f BY <3>1, <2>4
    <3> QED BY <3>2 DEF f
  <2> QED BY <2>4, <2>5, <2>7, <1>3 DEF o, L
<1> QED BY <1>4, <1>5

LEMMA EndOfChunk ==
    ASSUME NEW w, Layout(w), NEW k \in 0..Len(w.body) - 1
    PROVE  /\ DataFrom(w, k) \in Nat /\ Len(w.body[k + 1]) \in Nat
           /\ DataFrom(w, k) + Len(w.body[k + 1]) + 2 < w.end
<1> DEFINE a == DataFrom(w, k)
           n == Len(w.body[k + 1])
           z == w.off[k + 1]
           L == Len(w.line[k + 1])
           f == w.end
<1>1. k \in 0..Len(w.body) /\ k + 1 \in 0..Len(w.body) /\ ChunkAt(w, k)
  BY DEF Layout
<1>2. z \in Nat /\ L \in Nat /\ z + L + 2 < f /\ f \in Nat BY <1>1, EndOfLine
<1>3. n \in Nat /\ z = a + n + 2 BY <1>1 DEF ChunkAt
<1>4. a \in Nat
  <2> DEFINE o == w.off[k]
             l == Len(w.line[k])
  <2>1. o \in Nat /\ l \in Nat /\ a = o + l + 2
    BY <1>1, EndOfLine
  <2> HIDE DEF o, l, a
  <2> QED BY <2>1
<1> HIDE DEF a, n, z, L, f
<1>5. a + n + 2 < f BY <1>2, <1>3, <1>4
<1> QED BY <1>3, <1>4, <1>5 DEF a, n, f

Undone(w, p, d) == p < w.end /\ d.chunk_state # "DONE" /\ Len(d.chunk_size_buf) < BUFSZ

LEMMA LineUndone ==
    ASSUME NEW w, Layout(w), NEW p, NEW d, InLine(w, p, d)
    PROVE  Undone(w, p, d) /\ \E m : Given(w, d, m)
<1>1. PICK k \in 0..Len(w.body) : \E j \in 0..Len(w.line[k]) + 1 : SizeAt(w, p, d, k, j)
  BY DEF InLine
<1>2. PICK j \in 0..Len(w.line[k]) + 1 : SizeAt(w, p, d, k, j)
  BY <1>1
<1> DEFINE o == w.off[k]
           L == Len(w.line[k])
           f == w.end
           n == Len(d.chunk_size_buf)
<1>3. o \in Nat /\ L \in Nat /\ o + L + 2 < f /\ f \in Nat BY EndOfLine
<1>4. /\ j \in 0..L + 1 /\ p = o + j /\ n = Fits(IF j <= L THEN j ELSE L)
      /\ d.chunk_state = "SIZE" /\ Given(w, d, w.given[k])
  BY <1>2 DEF SizeAt
<1> HIDE DEF o, L, f, n
<1>5. p < f BY <1>3, <1>4
<1>6. n < BUFSZ BY <1>3, <1>4 DEF Fits, BUFSZ
<1> QED BY <1>4, <1>5, <1>6 DEF f, n, Undone

LEMMA ChunkUndone ==
    ASSUME NEW w, Layout(w), NEW p, NEW d, InChunk(w, p, d) \/ BehindChunk(w, p, d)
    PROVE  Undone(w, p, d) /\ \E m : Given(w, d, m)
<1>0. Len(<<>>) < BUFSZ BY DEF BUFSZ
<1>1. CASE InChunk(w, p, d)
  <2>1. PICK k \in 0..Len(w.body) - 1 : \E i \in 0..Len(w.body[k + 1]) - 1 : DataAt(w, p, d, k, i)
    BY <1>1 DEF InChunk
  <2>2. PICK i \in 0..Len(w.body[k + 1]) - 1 : DataAt(w, p, d, k, i)
    BY <2>1
  <2> DEFINE a == DataFrom(w, k)
             n == Len(w.body[k + 1])
             f == w.end
  <2>3. a \in Nat /\ n \in Nat /\ a + n + 2 < f BY EndOfChunk
  <2>4. f \in Nat BY EndOfLine
  <2>5. i \in 0..n - 1 /\ p = a + i /\ d.chunk_state = "DATA" /\ d.chunk_size_buf = <<>>
        /\ Given(w, d, w.given[k] + i)
    BY <2>2 DEF DataAt
  <2> HIDE DEF a, n, f
  <2>6. p < f BY <2>3, <2>4, <2>5
  <2> QED BY <2>5, <2>6, <1>0 DEF f, Undone
<1>2. CASE BehindChunk(w, p, d)
  <2>1. PICK k \in 0..Len(w.body) - 1 : \E e \in {0, 1} : CrlfAt(w, p, d, k, e)
    BY <1>2 DEF BehindChunk
  <2>2. PICK e \in {0, 1} : CrlfAt(w, p, d, k, e)
    BY <2>1
  <2> DEFINE a == DataFrom(w, k)
             n == Len(w.body[k + 1])
             f == w.end
  <2>3. a \in Nat /\ n \in Nat /\ a + n + 2 < f BY EndOfChunk
  <2>4. f \in Nat BY EndOfLine
  <2>5. p = a + n + e /\ d.chunk_state = "CRLF" /\ d.chunk_size_buf = <<>>
        /\ Given(w, d, w.given[k + 1])
    BY <2>2 DEF CrlfAt
  <2> HIDE DEF a, n, f
  <2>6. p < f BY <2>3, <2>4, <2>5
  <2> QED BY <2>5, <2>6, <1>0 DEF f, Undone
<1> QED BY <1>1, <1>2

LEMMA TrailerUndone ==
    ASSUME NEW w, Layout(w), NEW p, NEW d, InTrailer(w, p, d)
    PROVE  Undone(w, p, d) /\ \E m : Given(w, d, m)
<1>0. Len(<<>>) < BUFSZ BY DEF BUFSZ
<1>1. PICK i \in 0..Len(w.trailer) + 1 : TrailerAt(w, p, d, i)
  BY DEF InTrailer
<1> DEFINE a == DataFrom(w, Len(w.body))
           T == Len(w.trailer)
           f == w.end
<1>2. T \in Nat /\ f = a + T + 2 BY DEF Layout, TrailerIn
<1>3. a \in Nat
  <2> DEFINE N == Len(w.body)
  <2>1. N \in Nat BY DEF Layout
  <2>2. N \in 0..N BY <2>1
  <2> DEFINE o == w.off[N]
             L == Len(w.line[N])
  <2>3. o \in Nat /\ L \in Nat /\ a = o + L + 2
    BY <2>2, EndOfLine
  <2> HIDE DEF o, L, a
  <2> QED BY <2>3
<1>4. i \in 0..T + 1 /\ p = a + i /\ d.chunk_state = "TRAILER" /\ d.chunk_size_buf = <<>>
      /\ Given(w, d, Len(w.flat))
  BY <1>1 DEF TrailerAt
<1> HIDE DEF a, T, f
<1>5. p < f BY <1>2, <1>3, <1>4
<1> QED BY <1>4, <1>5, <1>0 DEF f, Undone

(* What the inductive invariant says of the two properties.                *)
LEMMA ReadsMeans ==
    ASSUME NEW w, Layout(w), NEW p \in Nat, NEW d, Reads(w, p, d)
    PROVE  /\ d \in Decoder /\ Len(d.chunk_size_buf) < BUFSZ
           /\ (d.chunk_state = "DONE") <=> p >= w.end
           /\ d.chunk_state = "DONE" => d.delivered = w.flat
           /\ IsPrefix(d.delivered, w.flat)
<1>1. d \in Decoder /\ At(w, p, d) BY DEF Reads
<1>2. w.end \in Nat
  <2>1. 0 \in 0..Len(w.body) BY DEF Layout
  <2> QED BY <2>1, EndOfLine
<1>3. \/ Undone(w, p, d) /\ \E m : Given(w, d, m)
      \/ DoneAt(w, p, d)
  BY <1>1, LineUndone, ChunkUndone, TrailerUndone DEF At
<1>4. w.flat \in Seq(Byte) /\ Len(w.flat) \in Nat /\ d.delivered \in Seq(Byte)
  BY <1>1 DEF Layout, Decoder
<1>5. ASSUME NEW m, Given(w, d, m) PROVE IsPrefix(d.delivered, w.flat)
  <2> DEFINE s == d.delivered
             t == w.flat
  <2>1. m \in Nat /\ m <= Len(t) /\ Len(s) = m /\ \A i \in 1..m : s[i] = t[i]
    BY <1>5 DEF Given
  <2>2. s \in Seq(Byte) /\ t \in Seq(Byte) /\ Len(t) \in Nat BY <1>4
  <2> HIDE DEF s, t
  <2>3. m \in 0..Len(s) /\ m \in 0..Len(t) BY <2>1, <2>2
  <2> DEFINE u == SubSeq(s, 1, m)
             v == SubSeq(t, 1, m)
  <2>4. u \in Seq(Byte) /\ Len(u) = m /\ \A i \in 1..m : u[i] = s[i]
    BY <2>2, <2>3, CutElements
  <2>5. v \in Seq(Byte) /\ Len(v) = m /\ \A i \in 1..m : v[i] = t[i]
    BY <2>2, <2>3, CutElements
  <2> HIDE DEF u, v
  <2>6. \A i \in 1..Len(u) : u[i] = v[i] BY <2>1, <2>4, <2>5
  <2>7. u = v BY <2>4, <2>5, <2>6, SeqEqual
  <2>8. IsPrefix(s, t) BY <2>1, <2>7 DEF IsPrefix, u, v
  <2> QED BY <2>8 DEF s, t
<1>6. CASE Undone(w, p, d) /\ \E m : Given(w, d, m)
  <2>1. p < w.end /\ d.chunk_state # "DONE" /\ Len(d.chunk_size_buf) < BUFSZ BY <1>6 DEF Undone
  <2>2. ~(p >= w.end) BY <2>1, <1>2
  <2>3. IsPrefix(d.delivered, w.flat) BY <1>5, <1>6
  <2> QED BY <2>1, <2>2, <2>3, <1>1
<1>7. CASE DoneAt(w, p, d)
  <2>1. p >= w.end /\ d.chunk_state = "DONE" /\ d.chunk_size_buf = <<>> /\ Given(w, d, Len(w.flat))
    BY <1>7 DEF DoneAt
  <2>2. Len(<<>>) < BUFSZ BY DEF BUFSZ
  <2>3. IsPrefix(d.delivered, w.flat) BY <2>1, <1>5
  <2>4. Len(d.delivered) = Len(w.flat) /\ \A i \in 1..Len(d.delivered) : d.delivered[i] = w.flat[i]
    BY <2>1 DEF Given
  <2>5. d.delivered = w.flat BY <2>4, <1>4, SeqEqual
  <2> QED BY <2>1, <2>2, <2>3, <2>5, <1>1
<1> QED BY <1>3, <1>6, <1>7

(* Whatever the server sends within ServerAssumption and however OTRcv     *)
(* cuts it, process_chunked_bytes hands on the beginning of the body and   *)
(* not a byte of the framing.                                              *)
THEOREM DecoderDeliversBody == DecoderSpec => []DeliversBody
<1>1. DecoderIInv => DeliversBody
  <2> SUFFICES ASSUME DecoderIInv PROVE DeliversBody
    OBVIOUS
  <2>1. PICK w : Laid(w) /\ Reads(w, pos, ctx) BY DEF DecoderIInv
  <2>2. Layout(w) /\ w.flat = FlattenSeq(chunks) BY <2>1 DEF Laid
  <2>3. pos \in Nat BY DEF DecoderIInv
  <2>4. IsPrefix(ctx.delivered, w.flat) BY <2>1, <2>2, <2>3, ReadsMeans
  <2> QED BY <2>2, <2>4 DEF DeliversBody
<1> QED BY <1>1, DecoderInvariant, PTL

(* It says CS_DONE with the last byte of the response, neither before nor  *)
(* after, then has delivered the whole body, and chunk_size_buf is never   *)
(* overrun.                                                                *)
THEOREM DecoderEndsWithResponse == DecoderSpec => []EndsWithResponse
<1>1. DecoderIInv => EndsWithResponse
  <2> SUFFICES ASSUME DecoderIInv PROVE EndsWithResponse
    OBVIOUS
  <2>1. PICK w : Laid(w) /\ Reads(w, pos, ctx) BY DEF DecoderIInv
  <2>2. Layout(w) /\ w.flat = FlattenSeq(chunks) /\ w.end = ends /\ w.str = stream BY <2>1 DEF Laid
  <2>3. pos \in Nat /\ pos \in 0..Len(stream) /\ chunks \in Bodies BY DEF DecoderIInv
  <2>4. /\ ctx \in Decoder /\ Len(ctx.chunk_size_buf) < BUFSZ
        /\ ctx.chunk_state = "DONE" <=> pos >= w.end
        /\ ctx.chunk_state = "DONE" => ctx.delivered = w.flat
    BY <2>1, <2>2, <2>3, ReadsMeans
  <2>5. stream \in Seq(Byte) /\ ends \in 0..Len(stream)
    <3>1. stream \in Seq(Byte) /\ Len(stream) \in Nat /\ w.end <= Len(stream)
      BY <2>2 DEF Layout, TrailerIn
    <3>2. 0 \in 0..Len(w.body) BY <2>2 DEF Layout
    <3>3. w.end \in Nat BY <3>2, <2>2, EndOfLine
    <3> QED BY <3>1, <3>3, <2>2
  <2>6. DecoderTypeOK BY <2>3, <2>4, <2>5 DEF DecoderTypeOK, Decoder
  <2> QED BY <2>2, <2>4, <2>6 DEF EndsWithResponse
<1> QED BY <1>1, DecoderInvariant, PTL
=============================================================================
