----------------------------- MODULE SeqLemmas -----------------------------
(* Facts about InsertAt, RemoveAt and Tail that the proofs about queues    *)
(* cite: what the new sequence holds at each position.  And that a set of  *)
(* numbers has a least element.                                            *)
EXTENDS Integers, Sequences, SequencesExt, SequenceTheorems, WellFoundedInduction, TLAPS

(* Inserting keeps the order of the old elements around the new one        *)
(* (the insertion of an entry in schedule.c's list).                       *)
LEMMA InsertAtElements ==
    ASSUME NEW S, NEW s \in Seq(S), NEW e \in S, NEW n \in 0..Len(s)
    PROVE  /\ InsertAt(s, n + 1, e) \in Seq(S)
           /\ Len(InsertAt(s, n + 1, e)) = Len(s) + 1
           /\ \A i \in 1..n : InsertAt(s, n + 1, e)[i] = s[i]
           /\ InsertAt(s, n + 1, e)[n + 1] = e
           /\ \A i \in n + 1..Len(s) : InsertAt(s, n + 1, e)[i + 1] = s[i]
<1> DEFINE a == SubSeq(s, 1, (n + 1) - 1)
           b == SubSeq(s, n + 1, Len(s))
           ab == a \o <<e>>
<1>1. InsertAt(s, n + 1, e) = ab \o b
  BY DEF InsertAt
<1>2. a \in Seq(S) /\ Len(a) = n /\ \A i \in 1..n : a[i] = s[i]
  BY SubSeqProperties
<1>3. b \in Seq(S) /\ Len(b) = Len(s) - n /\ \A i \in 1..Len(s) - n : b[i] = s[n + i]
  BY SubSeqProperties
<1>4. <<e>> \in Seq(S) /\ Len(<<e>>) = 1 /\ <<e>>[1] = e
  OBVIOUS
<1>5. /\ ab \in Seq(S) /\ Len(ab) = n + 1
      /\ \A i \in 1..n + 1 : ab[i] = IF i <= n THEN a[i] ELSE <<e>>[i - n]
  <2> HIDE DEF a
  <2> QED BY <1>2, <1>4, ConcatProperties
<1> HIDE DEF a, ab, b
<1> DEFINE c == ab \o b
<1>6. /\ c \in Seq(S)
      /\ Len(c) = Len(ab) + Len(b)
      /\ \A i \in 1..Len(ab) + Len(b) : c[i] = IF i <= Len(ab) THEN ab[i] ELSE b[i - Len(ab)]
  BY <1>3, <1>5, ConcatProperties
<1>7. Len(s) \in Nat /\ Len(ab) + Len(b) = Len(s) + 1
  BY <1>3, <1>5, LenProperties
<1> HIDE DEF c
<1>8. ASSUME NEW i \in 1..n
      PROVE  c[i] = s[i]
  BY <1>2, <1>5, <1>6, <1>7
<1>9. c[n + 1] = e
  <2>1. c[n + 1] = ab[n + 1] /\ ab[n + 1] = <<e>>[(n + 1) - n] BY <1>5, <1>6, <1>7
  <2> QED BY <2>1, <1>4
<1>10. ASSUME NEW i \in n + 1..Len(s)
       PROVE  c[i + 1] = s[i]
  <2>1. c[i + 1] = b[(i + 1) - (n + 1)] BY <1>5, <1>6, <1>7
  <2>2. i - n \in 1..Len(s) - n /\ (i + 1) - (n + 1) = i - n /\ n + (i - n) = i BY <1>7
  <2>3. b[i - n] = s[n + (i - n)] BY <2>2, <1>3
  <2> QED BY <2>1, <2>2, <2>3
<1>11. InsertAt(s, n + 1, e) = c
  BY <1>1 DEF c
<1> QED BY <1>6, <1>7, <1>8, <1>9, <1>10, <1>11

(* Removing closes the gap (unlinking an entry of a list or a ring).       *)
LEMMA RemoveAtElements ==
    ASSUME NEW S, NEW s \in Seq(S), NEW n \in 1..Len(s)
    PROVE  /\ RemoveAt(s, n) \in Seq(S)
           /\ Len(RemoveAt(s, n)) = Len(s) - 1
           /\ \A i \in 1..Len(s) - 1 :
                 RemoveAt(s, n)[i] = IF i < n THEN s[i] ELSE s[i + 1]
<1> DEFINE a == SubSeq(s, 1, n - 1)
           b == SubSeq(s, n + 1, Len(s))
<1>1. RemoveAt(s, n) = a \o b
  BY DEF RemoveAt
<1>2. a \in Seq(S) /\ Len(a) = n - 1 /\ \A i \in 1..n - 1 : a[i] = s[i]
  BY SubSeqProperties
<1>3. b \in Seq(S) /\ Len(b) = Len(s) - n /\ \A i \in 1..Len(s) - n : b[i] = s[n + i]
  BY SubSeqProperties
<1> DEFINE c == a \o b
<1> HIDE DEF a, b
<1>4. /\ c \in Seq(S)
      /\ Len(c) = Len(a) + Len(b)
      /\ \A i \in 1..Len(a) + Len(b) : c[i] = IF i <= Len(a) THEN a[i] ELSE b[i - Len(a)]
  BY <1>2, <1>3, ConcatProperties
<1>5. Len(s) \in Nat /\ Len(a) + Len(b) = Len(s) - 1
  BY <1>2, <1>3, LenProperties
<1> HIDE DEF c
<1>6. ASSUME NEW i \in 1..Len(s) - 1
      PROVE  c[i] = IF i < n THEN s[i] ELSE s[i + 1]
  <2>1. CASE i < n
    <3>1. c[i] = a[i] /\ a[i] = s[i] BY <2>1, <1>2, <1>4, <1>5
    <3> QED BY <3>1, <2>1
  <2>2. CASE i >= n
    <3>1. c[i] = b[i - (n - 1)] BY <2>2, <1>2, <1>4, <1>5
    <3>2. i - (n - 1) \in 1..Len(s) - n BY <2>2, <1>5
    <3>3. b[i - (n - 1)] = s[n + (i - (n - 1))] BY <3>2, <1>3
    <3>4. n + (i - (n - 1)) = i + 1 /\ ~(i < n) BY <2>2, <1>5
    <3> QED BY <3>1, <3>3, <3>4
  <2> QED BY <2>1, <2>2, <1>5
<1>7. RemoveAt(s, n) = c
  BY <1>1 DEF c
<1> QED BY <1>4, <1>5, <1>6, <1>7
-----------------------------------------------------------------------------
(* A list that holds every element once, and what it holds.                *)
Distinct(s) == \A i, j \in DOMAIN s : s[i] = s[j] => i = j
Holds(s, x) == \E i \in DOMAIN s : s[i] = x

(* Unlinking one element of such a list takes exactly that element away    *)
(* (RING_REMOVE in fetch.c).                                               *)
LEMMA RemoveDistinct ==
    ASSUME NEW S, NEW s \in Seq(S), Distinct(s), NEW n \in DOMAIN s
    PROVE  /\ RemoveAt(s, n) \in Seq(S)
           /\ Distinct(RemoveAt(s, n))
           /\ \A x : Holds(RemoveAt(s, n), x) <=> Holds(s, x) /\ x # s[n]
<1> DEFINE r == RemoveAt(s, n)
           old(i) == IF i < n THEN i ELSE i + 1
<1>1. DOMAIN s = 1..Len(s) /\ Len(s) \in Nat
  BY LenProperties
<1>2. /\ r \in Seq(S)
      /\ Len(r) = Len(s) - 1
      /\ \A i \in 1..Len(s) - 1 : r[i] = IF i < n THEN s[i] ELSE s[i + 1]
  BY <1>1, RemoveAtElements
<1> HIDE DEF r
<1>3. DOMAIN r = 1..Len(s) - 1
  BY <1>2, LenProperties
<1>4. \A i \in DOMAIN r : old(i) \in DOMAIN s /\ r[i] = s[old(i)] /\ old(i) # n
  BY <1>1, <1>2, <1>3
<1>5. \A i, j \in DOMAIN r : old(i) = old(j) => i = j
  BY <1>1, <1>3
<1>6. \A k \in DOMAIN s : k # n => \E i \in DOMAIN r : old(i) = k
  <2> SUFFICES ASSUME NEW k \in DOMAIN s, k # n PROVE \E i \in DOMAIN r : old(i) = k
    OBVIOUS
  <2>1. CASE k < n
    <3>1. k \in DOMAIN r /\ old(k) = k BY <2>1, <1>1, <1>3
    <3> QED BY <3>1
  <2>2. CASE k > n
    <3>1. k - 1 \in DOMAIN r /\ old(k - 1) = k BY <2>2, <1>1, <1>3
    <3> QED BY <3>1
  <2> QED BY <2>1, <2>2, <1>1
<1> HIDE DEF old
<1>7. Distinct(r)
  BY <1>4, <1>5 DEF Distinct
<1>8. ASSUME NEW x
      PROVE  Holds(r, x) <=> Holds(s, x) /\ x # s[n]
  BY <1>4, <1>6 DEF Distinct, Holds
<1> QED BY <1>2, <1>7, <1>8 DEF r

(* Linking a new element at the end adds exactly that element.             *)
LEMMA AppendDistinct ==
    ASSUME NEW S, NEW s \in Seq(S), Distinct(s), NEW e \in S, ~Holds(s, e)
    PROVE  /\ Append(s, e) \in Seq(S)
           /\ Distinct(Append(s, e))
           /\ \A x : Holds(Append(s, e), x) <=> Holds(s, x) \/ x = e
<1> DEFINE r == Append(s, e)
<1>1. DOMAIN s = 1..Len(s) /\ Len(s) \in Nat
  BY LenProperties
<1>2. /\ r \in Seq(S) /\ Len(r) = Len(s) + 1
      /\ \A i \in 1..Len(s) : r[i] = s[i]
      /\ r[Len(s) + 1] = e
  BY AppendProperties
<1> HIDE DEF r
<1>3. DOMAIN r = 1..Len(s) + 1
  BY <1>2, LenProperties
<1>4. \A i \in DOMAIN r : (i \in DOMAIN s /\ r[i] = s[i]) \/ i = Len(s) + 1
  BY <1>1, <1>2, <1>3
<1>5. \A i \in DOMAIN s : i \in DOMAIN r /\ r[i] = s[i]
  BY <1>1, <1>2, <1>3
<1>6. Len(s) + 1 \in DOMAIN r
  BY <1>1, <1>3
<1>7. Distinct(r)
  BY <1>2, <1>4 DEF Distinct, Holds
<1>8. ASSUME NEW x
      PROVE  Holds(r, x) <=> Holds(s, x) \/ x = e
  BY <1>2, <1>4, <1>5, <1>6 DEF Holds
<1> QED BY <1>2, <1>7, <1>8 DEF r

(* The two parts of a list cut after n elements (a read of n units).       *)
LEMMA CutElements ==
    ASSUME NEW S, NEW s \in Seq(S), NEW n \in 0..Len(s)
    PROVE  /\ SubSeq(s, 1, n) \in Seq(S)
           /\ Len(SubSeq(s, 1, n)) = n
           /\ \A i \in 1..n : SubSeq(s, 1, n)[i] = s[i]
           /\ SubSeq(s, n + 1, Len(s)) \in Seq(S)
           /\ Len(SubSeq(s, n + 1, Len(s))) = Len(s) - n
           /\ \A i \in 1..Len(s) - n : SubSeq(s, n + 1, Len(s))[i] = s[n + i]
<1>1. Len(s) \in Nat /\ DOMAIN s = 1..Len(s) /\ \A i \in 1..Len(s) : s[i] \in S
  BY LenProperties, ElementOfSeq
<1>2. n \in Int /\ Len(s) \in Int /\ n + 1 \in Int
  BY <1>1
<1>3. \A i \in 1..n : s[i] \in S
  BY <1>1
<1>4. \A i \in n + 1..Len(s) : s[i] \in S
  BY <1>1
<1>5. /\ SubSeq(s, 1, n) \in Seq(S)
      /\ Len(SubSeq(s, 1, n)) = n
      /\ \A i \in 1..n : SubSeq(s, 1, n)[i] = s[i]
  BY <1>1, <1>2, <1>3, SubSeqProperties
<1> DEFINE m == n + 1
           b == SubSeq(s, m, Len(s))
<1>6. /\ b \in Seq(S)
      /\ Len(b) = IF m <= Len(s) THEN Len(s) - m + 1 ELSE 0
      /\ \A i \in 1..Len(s) - m + 1 : b[i] = s[m + i - 1]
  <2>1. m \in Int /\ \A i \in m..Len(s) : s[i] \in S BY <1>2, <1>4
  <2> HIDE DEF m
  <2> QED BY <1>2, <2>1, SubSeqProperties
<1>7. Len(b) = Len(s) - n /\ \A i \in 1..Len(s) - n : b[i] = s[n + i]
  <2> HIDE DEF b
  <2>0. ASSUME NEW k \in Int, NEW l \in Int, k <= l
        PROVE  l - (k + 1) + 1 = l - k /\ (~(k + 1 <= l) => l - k = 0)
    BY <2>0
  <2>1. Len(s) - m + 1 = Len(s) - n /\ (~(m <= Len(s)) => Len(s) - n = 0) BY <1>2, <2>0
  <2>2. Len(b) = Len(s) - n BY <1>6, <2>1
  <2>3. ASSUME NEW i \in 1..Len(s) - n PROVE b[i] = s[n + i]
    <3>1. m + i - 1 = n + i BY <1>1
    <3> QED BY <3>1, <2>1, <1>6
  <2> QED BY <2>2, <2>3
<1> QED BY <1>5, <1>6, <1>7 DEF b, m

(* A list followed by another.                                             *)
LEMMA JoinElements ==
    ASSUME NEW S, NEW s \in Seq(S), NEW u \in Seq(S)
    PROVE  /\ s \o u \in Seq(S)
           /\ Len(s \o u) = Len(s) + Len(u)
           /\ \A i \in 1..Len(s) : (s \o u)[i] = s[i]
           /\ \A i \in 1..Len(u) : (s \o u)[Len(s) + i] = u[i]
<1>1. Len(s) \in Nat /\ Len(u) \in Nat
  BY LenProperties
<1> DEFINE c == s \o u
<1>2. /\ c \in Seq(S)
      /\ Len(c) = Len(s) + Len(u)
      /\ \A i \in 1..Len(s) + Len(u) : c[i] = IF i <= Len(s) THEN s[i] ELSE u[i - Len(s)]
  BY ConcatProperties
<1> HIDE DEF c
<1>3. \A i \in 1..Len(s) : c[i] = s[i]
  BY <1>1, <1>2
<1>4. ASSUME NEW i \in 1..Len(u) PROVE c[Len(s) + i] = u[i]
  <2>1. Len(s) + i \in 1..Len(s) + Len(u) /\ ~(Len(s) + i <= Len(s)) /\ Len(s) + i - Len(s) = i
    BY <1>1
  <2> QED BY <2>1, <1>2
<1> QED BY <1>2, <1>3, <1>4 DEF c

(* Dropping the head of such a list takes exactly that element away.       *)
LEMMA TailDistinct ==
    ASSUME NEW S, NEW s \in Seq(S), Distinct(s), s # <<>>
    PROVE  /\ Tail(s) \in Seq(S)
           /\ Len(Tail(s)) = Len(s) - 1
           /\ Head(s) \in S /\ Holds(s, Head(s))
           /\ Distinct(Tail(s))
           /\ \A x : Holds(Tail(s), x) <=> Holds(s, x) /\ x # Head(s)
<1> DEFINE r == Tail(s)
<1>1. DOMAIN s = 1..Len(s) /\ Len(s) \in Nat /\ Len(s) # 0
  BY LenProperties, EmptySeq
<1>2. /\ r \in Seq(S) /\ Len(r) = Len(s) - 1
      /\ \A i \in 1..Len(r) : r[i] = s[i + 1]
      /\ Head(s) \in S
  BY HeadTailProperties
<1>3. Head(s) = s[1] /\ 1 \in DOMAIN s
  BY <1>1
<1> HIDE DEF r
<1>4. DOMAIN r = 1..Len(s) - 1
  BY <1>2, LenProperties
<1>5. \A i \in DOMAIN r : i + 1 \in DOMAIN s /\ i + 1 # 1 /\ r[i] = s[i + 1]
  BY <1>1, <1>2, <1>4
<1>6. \A k \in DOMAIN s : k # 1 => k - 1 \in DOMAIN r /\ r[k - 1] = s[k]
  <2> SUFFICES ASSUME NEW k \in DOMAIN s, k # 1 PROVE k - 1 \in DOMAIN r /\ r[k - 1] = s[k]
    OBVIOUS
  <2>1. k - 1 \in DOMAIN r /\ (k - 1) + 1 = k BY <1>1, <1>4
  <2> QED BY <2>1, <1>5
<1>7. Distinct(r)
  <2> SUFFICES ASSUME NEW i \in DOMAIN r, NEW j \in DOMAIN r, r[i] = r[j] PROVE i = j
    BY DEF Distinct
  <2>1. i + 1 = j + 1 BY <1>5 DEF Distinct
  <2> QED BY <2>1, <1>4
<1>8. ASSUME NEW x
      PROVE  Holds(r, x) <=> Holds(s, x) /\ x # s[1]
  BY <1>3, <1>5, <1>6 DEF Distinct, Holds
<1> QED BY <1>2, <1>3, <1>7, <1>8 DEF r, Holds

(* The least of a set of numbers, which Min stands for.                    *)
LEMMA LeastOf ==
    ASSUME NEW T \in SUBSET Nat, T # {}
    PROVE  Min(T) \in T /\ \A y \in T : Min(T) <= y
<1> DEFINE R == OpToRel(<, Nat)
<1>1. IsWellFoundedOn(R, Nat)
  BY NatLessThanWellFounded
<1>2. \A x, y \in Nat : x < y => <<x, y>> \in R
  BY DEF OpToRel
<1> HIDE DEF R
<1>3. PICK x \in T : \A y \in T : ~(<<y, x>> \in R)
  BY <1>1, WFMin
<1>4. ASSUME NEW y \in T PROVE x <= y
  <2>1. x \in Nat /\ y \in Nat OBVIOUS
  <2>2. ~(y < x) BY <2>1, <1>2, <1>3
  <2> QED BY <2>1, <2>2
<1> QED BY <1>4 DEF Min
=============================================================================
