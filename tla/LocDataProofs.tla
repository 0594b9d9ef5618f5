------------------------- MODULE LocDataProofs -----------------------------
(***************************************************************************)
(* What the operators of LocData return, preserve and bound, for every     *)
(* cache size and every set of keys and values: the facts about the cache, *)
(* the directory and the lookup that the proofs about Coordinator cite     *)
(* instead of unfolding the data structures.                               *)
(***************************************************************************)
EXTENDS LocData, SequenceTheorems, TLAPS

\* Taking an element out of a list (lookup_.erase, a received message) leaves
\* the others in their order.
LEMMA RemoveAtProperties ==
  ASSUME NEW S, NEW q \in Seq(S), NEW i \in DOMAIN q
  PROVE  /\ RemoveAt(q, i) \in Seq(S)
         /\ Len(RemoveAt(q, i)) = Len(q) - 1
         /\ \A j \in 1..(Len(q) - 1) :
              RemoveAt(q, i)[j] = IF j < i THEN q[j] ELSE q[j + 1]
<1>0. /\ Len(q) \in Nat /\ i \in 1..Len(q)
      /\ \A j \in 1..Len(q) : q[j] \in S
  BY LenProperties, ElementOfSeq
<1> DEFINE a == SubSeq(q, 1, i - 1)
           b == SubSeq(q, i + 1, Len(q))
<1>1. /\ a \in Seq(S) /\ Len(a) = i - 1
      /\ \A j \in 1..(i - 1) : a[j] = q[j]
  <2>1. \A j \in 1..(i - 1) : q[j] \in S
    BY <1>0
  <2>2. /\ a \in Seq(S)
        /\ Len(a) = IF 1 <= i - 1 THEN (i - 1) - 1 + 1 ELSE 0
        /\ \A j \in 1..((i - 1) - 1 + 1) : a[j] = q[1 + j - 1]
    BY <1>0, <2>1, SubSeqProperties
  <2> QED BY <1>0, <2>2
<1>2. /\ b \in Seq(S) /\ Len(b) = Len(q) - i
      /\ \A j \in 1..(Len(q) - i) : b[j] = q[i + j]
  <2>1. \A j \in (i + 1)..Len(q) : q[j] \in S
    BY <1>0
  <2>2. /\ b \in Seq(S)
        /\ Len(b) = IF i + 1 <= Len(q) THEN Len(q) - (i + 1) + 1 ELSE 0
        /\ \A j \in 1..(Len(q) - (i + 1) + 1) : b[j] = q[(i + 1) + j - 1]
    BY <1>0, <2>1, SubSeqProperties
  <2> QED BY <1>0, <2>2
<1>3. /\ a \o b \in Seq(S)
      /\ Len(a \o b) = Len(a) + Len(b)
      /\ \A j \in 1..(Len(a) + Len(b)) :
           (a \o b)[j] = IF j <= Len(a) THEN a[j] ELSE b[j - Len(a)]
  BY <1>1, <1>2, ConcatProperties
<1> HIDE DEF a, b
<1>4. ASSUME NEW j \in 1..(Len(q) - 1)
      PROVE  (a \o b)[j] = IF j < i THEN q[j] ELSE q[j + 1]
  <2>1. (a \o b)[j] = IF j <= Len(a) THEN a[j] ELSE b[j - Len(a)]
    <3>1. j \in 1..(Len(a) + Len(b)) BY <1>0, <1>1, <1>2
    <3> QED BY <1>3, <3>1
  <2>2. CASE j < i
    <3>1. j <= Len(a) /\ a[j] = q[j] BY <1>0, <1>1, <2>2
    <3> QED BY <2>1, <2>2, <3>1
  <2>3. CASE ~(j < i)
    <3>1. ~(j <= Len(a)) /\ b[j - Len(a)] = q[j + 1]
      BY <1>0, <1>1, <1>2, <2>3
    <3> QED BY <2>1, <2>3, <3>1
  <2> QED BY <2>2, <2>3
<1>5. RemoveAt(q, i) = a \o b
  BY DEF RemoveAt, a, b
<1>6. Len(a \o b) = Len(q) - 1
  BY <1>0, <1>1, <1>2, <1>3
<1> QED BY <1>3, <1>4, <1>5, <1>6

\* No element is lost but the one taken out.
LEMMA ToSetRemoveAt ==
  ASSUME NEW S, NEW q \in Seq(S), NEW i \in DOMAIN q
  PROVE  ToSet(q) = ToSet(RemoveAt(q, i)) \cup {q[i]}
<1> DEFINE r == RemoveAt(q, i)
<1>0. Len(q) \in Nat /\ DOMAIN q = 1..Len(q)
  BY LenProperties
<1>1. /\ r \in Seq(S) /\ Len(r) = Len(q) - 1
      /\ \A j \in 1..(Len(q) - 1) : r[j] = IF j < i THEN q[j] ELSE q[j + 1]
  BY RemoveAtProperties
<1>2. DOMAIN r = 1..(Len(q) - 1)
  BY <1>1, LenProperties
<1> HIDE DEF r
<1>3. \A x \in ToSet(r) : x \in ToSet(q)
  BY <1>0, <1>1, <1>2 DEF ToSet
<1>4. ASSUME NEW j \in 1..Len(q), j # i PROVE q[j] \in ToSet(r)
  <2>1. CASE j < i
    <3>1. j \in 1..(Len(q) - 1) /\ r[j] = q[j] BY <1>0, <1>1, <2>1
    <3> QED BY <3>1, <1>2 DEF ToSet
  <2>2. CASE j > i
    <3>1. (j - 1) \in 1..(Len(q) - 1) /\ r[j - 1] = q[j] BY <1>0, <1>1, <2>2
    <3> QED BY <3>1, <1>2 DEF ToSet
  <2> QED BY <1>0, <1>4, <2>1, <2>2
<1> QED BY <1>0, <1>3, <1>4 DEF ToSet, r

\* Appending, as Comm::send does to a channel, adds exactly one element.
LEMMA ToSetAppend ==
  ASSUME NEW S, NEW q \in Seq(S), NEW m \in S
  PROVE  /\ Append(q, m) \in Seq(S)
         /\ ToSet(Append(q, m)) = ToSet(q) \cup {m}
<1>1. /\ Append(q, m) \in Seq(S)
      /\ Len(Append(q, m)) = Len(q) + 1
      /\ \A i \in 1..Len(q) : Append(q, m)[i] = q[i]
      /\ Append(q, m)[Len(q) + 1] = m
  BY AppendProperties
<1>2. /\ Len(q) \in Nat /\ DOMAIN q = 1..Len(q)
      /\ DOMAIN Append(q, m) = 1..(Len(q) + 1)
  BY <1>1, LenProperties
<1> QED BY <1>1, <1>2 DEF ToSet

\* A concatenation holds the elements of both sequences.
LEMMA ToSetConcat ==
  ASSUME NEW S, NEW q \in Seq(S), NEW t \in Seq(S)
  PROVE  /\ q \o t \in Seq(S)
         /\ ToSet(q \o t) = ToSet(q) \cup ToSet(t)
<1> DEFINE c == q \o t
<1>1. /\ c \in Seq(S)
      /\ Len(c) = Len(q) + Len(t)
      /\ \A i \in 1..(Len(q) + Len(t)) :
           c[i] = IF i <= Len(q) THEN q[i] ELSE t[i - Len(q)]
  BY ConcatProperties
<1>2. /\ Len(q) \in Nat /\ DOMAIN q = 1..Len(q)
      /\ Len(t) \in Nat /\ DOMAIN t = 1..Len(t)
      /\ DOMAIN c = 1..(Len(q) + Len(t))
  BY <1>1, LenProperties
<1> HIDE DEF c
<1>3. ASSUME NEW i \in 1..(Len(q) + Len(t))
      PROVE  c[i] \in ToSet(q) \cup ToSet(t)
  <2>1. CASE i <= Len(q)
    <3>1. i \in DOMAIN q /\ c[i] = q[i] BY <1>1, <1>2, <2>1
    <3> QED BY <3>1 DEF ToSet
  <2>2. CASE ~(i <= Len(q))
    <3>1. i - Len(q) \in DOMAIN t /\ c[i] = t[i - Len(q)]
      BY <1>1, <1>2, <2>2
    <3> QED BY <3>1 DEF ToSet
  <2> QED BY <2>1, <2>2
<1>4. ToSet(q) \subseteq ToSet(c)
  BY <1>1, <1>2 DEF ToSet
<1>5. ASSUME NEW i \in 1..Len(t) PROVE t[i] \in ToSet(c)
  <2> DEFINE k == i + Len(q)
  <2>1. k \in 1..(Len(q) + Len(t)) /\ ~(k <= Len(q)) /\ k - Len(q) = i
    BY <1>2
  <2> HIDE DEF k
  <2>2. k \in DOMAIN c /\ c[k] = t[i]
    BY <1>1, <1>2, <2>1
  <2> QED BY <2>2 DEF ToSet
<1> QED BY <1>1, <1>2, <1>3, <1>4, <1>5 DEF ToSet, c

\* k copies of a message are no message at all or that message.
LEMMA ToSetRepeat ==
  ASSUME NEW S, NEW m \in S, NEW k \in Nat
  PROVE  /\ [i \in 1..k |-> m] \in Seq(S)
         /\ ToSet([i \in 1..k |-> m]) = IF k > 0 THEN {m} ELSE {}
<1>1. [i \in 1..k |-> m] \in Seq(S)
  BY SeqDef
<1>2. CASE k > 0
  <2>1. 1 \in 1..k BY <1>2
  <2> QED BY <1>1, <1>2, <2>1 DEF ToSet
<1>3. CASE k = 0
  BY <1>1, <1>3 DEF ToSet
<1> QED BY <1>2, <1>3

\* emplace_front on the LRU list.
LEMMA ConsProperties ==
  ASSUME NEW S, NEW q \in Seq(S), NEW x \in S
  PROVE  /\ Cons(x, q) \in Seq(S)
         /\ Len(Cons(x, q)) = Len(q) + 1
         /\ Cons(x, q)[1] = x
         /\ \A i \in 1..Len(q) : Cons(x, q)[i + 1] = q[i]
         /\ ToSet(Cons(x, q)) = {x} \cup ToSet(q)
<1>1. <<x>> \in Seq(S) /\ Len(<<x>>) = 1 /\ <<x>>[1] = x
  OBVIOUS
<1>2. Len(q) \in Nat
  BY LenProperties
<1>3. ToSet(<<x>>) = {x}
  BY DEF ToSet
<1> DEFINE c == <<x>> \o q
<1>4. /\ c \in Seq(S)
      /\ Len(c) = 1 + Len(q)
      /\ \A i \in 1..(1 + Len(q)) : c[i] = IF i <= 1 THEN <<x>>[i] ELSE q[i - 1]
  BY <1>1, ConcatProperties
<1>5. ToSet(c) = {x} \cup ToSet(q)
  <2>1. ToSet(c) = ToSet(<<x>>) \cup ToSet(q)
    BY <1>1, ToSetConcat
  <2> HIDE DEF c
  <2> QED BY <1>3, <2>1
<1>6. Cons(x, q) = c
  BY DEF Cons
<1> HIDE DEF c
<1>7. c[1] = x
  <2>1. 1 \in 1..(1 + Len(q)) BY <1>2
  <2> QED BY <1>1, <1>4, <2>1
<1>8. ASSUME NEW i \in 1..Len(q) PROVE c[i + 1] = q[i]
  <2>1. i + 1 \in 1..(1 + Len(q)) /\ ~(i + 1 <= 1) /\ (i + 1) - 1 = i
    BY <1>2
  <2> QED BY <1>4, <2>1
<1> QED BY <1>2, <1>4, <1>5, <1>6, <1>7, <1>8

\* pop_back on a non-empty LRU list.
LEMMA FrontProperties ==
  ASSUME NEW S, NEW q \in Seq(S), Len(q) > 0
  PROVE  /\ Front(q) \in Seq(S)
         /\ Len(Front(q)) = Len(q) - 1
         /\ \A i \in 1..(Len(q) - 1) : Front(q)[i] = q[i]
         /\ ToSet(Front(q)) \subseteq ToSet(q)
<1>1. Len(q) \in Nat /\ DOMAIN q = 1..Len(q) /\ \A i \in 1..Len(q) : q[i] \in S
  BY LenProperties, ElementOfSeq
<1> DEFINE f == SubSeq(q, 1, Len(q) - 1)
<1>2. \A i \in 1..(Len(q) - 1) : q[i] \in S
  BY <1>1
<1>3. /\ f \in Seq(S)
      /\ Len(f) = IF 1 <= Len(q) - 1 THEN (Len(q) - 1) - 1 + 1 ELSE 0
      /\ \A i \in 1..((Len(q) - 1) - 1 + 1) : f[i] = q[1 + i - 1]
  BY <1>1, <1>2, SubSeqProperties
<1> HIDE DEF f
<1>4. Len(f) = Len(q) - 1 /\ \A i \in 1..(Len(q) - 1) : f[i] = q[i]
  <2>1. Len(f) = Len(q) - 1
    <3>1. CASE 1 <= Len(q) - 1
      <4>1. Len(f) = (Len(q) - 1) - 1 + 1
        BY <1>3, <3>1
      <4>2. (Len(q) - 1) - 1 + 1 = Len(q) - 1
        BY <1>1
      <4> QED BY <4>1, <4>2
    <3>2. CASE ~(1 <= Len(q) - 1)
      <4>1. Len(f) = 0
        BY <1>3, <3>2
      <4>2. Len(q) - 1 = 0
        BY <1>1, <3>2
      <4> QED BY <4>1, <4>2
    <3> QED BY <3>1, <3>2
  <2>2. ASSUME NEW i \in 1..(Len(q) - 1) PROVE f[i] = q[i]
    <3>1. i \in 1..((Len(q) - 1) - 1 + 1) /\ 1 + i - 1 = i
      BY <1>1
    <3> QED BY <1>3, <3>1
  <2> QED BY <2>1, <2>2
<1>5. DOMAIN f = 1..(Len(q) - 1)
  BY <1>3, <1>4, LenProperties
<1>6. ToSet(f) \subseteq ToSet(q)
  BY <1>1, <1>4, <1>5 DEF ToSet
<1> QED BY <1>3, <1>4, <1>6 DEF Front, f

\* The keys of a cache, by its elements instead of its positions.
LEMMA KeysOfToSet ==
  ASSUME NEW c
  PROVE  CacheKeys(c) = {x.key : x \in ToSet(c)}
BY DEF CacheKeys, ToSet

\* lookup_.find on a key that exists yields a list position of that key.
LEMMA CachePosProperties ==
  ASSUME NEW c, NEW k, CacheExists(c, k)
  PROVE  CachePos(c, k) \in DOMAIN c /\ c[CachePos(c, k)].key = k
BY DEF CacheExists, CacheKeys, CachePos

\* Erasing an entry keeps the keys distinct and its key is gone: a key is in
\* the list at most once.
LEMMA KeysDistinctRemoveAt ==
  ASSUME NEW S, NEW c \in Seq(S), NEW p \in DOMAIN c, KeysDistinct(c)
  PROVE  /\ KeysDistinct(RemoveAt(c, p))
         /\ c[p].key \notin CacheKeys(RemoveAt(c, p))
<1> DEFINE r == RemoveAt(c, p)
<1>0. Len(c) \in Nat /\ DOMAIN c = 1..Len(c)
  BY LenProperties
<1>1. /\ r \in Seq(S) /\ Len(r) = Len(c) - 1
      /\ \A j \in 1..(Len(c) - 1) : r[j] = IF j < p THEN c[j] ELSE c[j + 1]
  BY RemoveAtProperties
<1>2. DOMAIN r = 1..(Len(c) - 1)
  BY <1>1, LenProperties
<1> HIDE DEF r
<1>3. ASSUME NEW j \in DOMAIN r
      PROVE  \E k \in DOMAIN c : /\ r[j] = c[k] /\ k # p
                                 /\ IF j < p THEN k = j ELSE k = j + 1
  <2>1. CASE j < p
    <3>1. j \in DOMAIN c /\ r[j] = c[j] /\ j # p
      BY <1>0, <1>1, <1>2, <2>1
    <3> QED BY <2>1, <3>1
  <2>2. CASE ~(j < p)
    <3>1. j + 1 \in DOMAIN c /\ r[j] = c[j + 1] /\ j + 1 # p
      BY <1>0, <1>1, <1>2, <2>2
    <3> QED BY <2>2, <3>1
  <2> QED BY <2>1, <2>2
<1>4. ASSUME NEW i \in DOMAIN r, NEW j \in DOMAIN r, r[i].key = r[j].key
      PROVE  i = j
  <2>1. PICK k \in DOMAIN c : /\ r[i] = c[k] /\ k # p
                              /\ IF i < p THEN k = i ELSE k = i + 1
    BY <1>3
  <2>2. PICK l \in DOMAIN c : /\ r[j] = c[l] /\ l # p
                              /\ IF j < p THEN l = j ELSE l = j + 1
    BY <1>3
  <2>3. k = l
    BY <1>4, <2>1, <2>2 DEF KeysDistinct
  <2> QED BY <1>0, <1>2, <2>1, <2>2, <2>3
<1>5. c[p].key \notin CacheKeys(r)
  <2> SUFFICES ASSUME NEW j \in DOMAIN r, r[j].key = c[p].key
               PROVE  FALSE
    BY DEF CacheKeys
  <2> QED BY <1>3 DEF KeysDistinct
<1> QED BY <1>4, <1>5 DEF KeysDistinct, r

\* Putting an entry with a new key in front keeps the keys distinct.
LEMMA KeysDistinctCons ==
  ASSUME NEW S, NEW c \in Seq(S), NEW x \in S,
         KeysDistinct(c), x.key \notin CacheKeys(c)
  PROVE  KeysDistinct(Cons(x, c))
<1> DEFINE d == Cons(x, c)
<1>0. Len(c) \in Nat /\ DOMAIN c = 1..Len(c)
  BY LenProperties
<1>1. /\ d \in Seq(S) /\ Len(d) = Len(c) + 1 /\ d[1] = x
      /\ \A i \in 1..Len(c) : d[i + 1] = c[i]
  BY ConsProperties
<1>2. DOMAIN d = 1..(Len(c) + 1)
  BY <1>1, LenProperties
<1> HIDE DEF d
<1>3. ASSUME NEW i \in DOMAIN d, i # 1
      PROVE  /\ i - 1 \in DOMAIN c /\ d[i] = c[i - 1]
             /\ d[i].key # x.key
  <2>1. i - 1 \in 1..Len(c) /\ (i - 1) + 1 = i
    BY <1>0, <1>2, <1>3
  <2>2. d[i] = c[i - 1]
    BY <1>1, <2>1
  <2> QED BY <1>0, <2>1, <2>2 DEF CacheKeys
<1>4. ASSUME NEW i \in DOMAIN d, NEW j \in DOMAIN d, d[i].key = d[j].key
      PROVE  i = j
  <2>1. CASE i = 1 \/ j = 1
    BY <1>1, <1>3, <1>4, <2>1
  <2>2. CASE i # 1 /\ j # 1
    <3>1. i - 1 = j - 1
      BY <1>3, <1>4, <2>2 DEF KeysDistinct
    <3> QED BY <1>0, <1>2, <3>1
  <2> QED BY <2>1, <2>2
<1> QED BY <1>4 DEF KeysDistinct, d

\* Evicting the last entry keeps the keys distinct.
LEMMA KeysDistinctFront ==
  ASSUME NEW S, NEW c \in Seq(S), Len(c) > 0, KeysDistinct(c)
  PROVE  KeysDistinct(Front(c))
<1> DEFINE f == Front(c)
<1>0. Len(c) \in Nat /\ DOMAIN c = 1..Len(c)
  BY LenProperties
<1>1. /\ f \in Seq(S) /\ Len(f) = Len(c) - 1
      /\ \A i \in 1..(Len(c) - 1) : f[i] = c[i]
  BY FrontProperties
<1>2. DOMAIN f = 1..(Len(c) - 1)
  BY <1>1, LenProperties
<1> HIDE DEF f
<1>3. ASSUME NEW i \in DOMAIN f, NEW j \in DOMAIN f, f[i].key = f[j].key
      PROVE  i = j
  BY <1>0, <1>1, <1>2, <1>3 DEF KeysDistinct
<1> QED BY <1>3 DEF KeysDistinct, f

\* remove shrinks the cache at most, and the key is gone.
LEMMA CacheRemoveProperties ==
  ASSUME NEW S, NEW c \in Seq(S), NEW k
  PROVE  /\ CacheRemove(c, k) \in Seq(S)
         /\ Len(CacheRemove(c, k)) <= Len(c)
         /\ CacheKeys(CacheRemove(c, k)) \subseteq CacheKeys(c)
         /\ KeysDistinct(c) => /\ KeysDistinct(CacheRemove(c, k))
                               /\ k \notin CacheKeys(CacheRemove(c, k))
<1>0. Len(c) \in Nat
  BY LenProperties
<1>1. CASE CacheExists(c, k)
  <2> DEFINE p == CachePos(c, k)
  <2>1. p \in DOMAIN c /\ c[p].key = k
    BY <1>1, CachePosProperties
  <2> HIDE DEF p
  <2>2. /\ RemoveAt(c, p) \in Seq(S)
        /\ Len(RemoveAt(c, p)) = Len(c) - 1
    BY <2>1, RemoveAtProperties
  <2>3. ToSet(c) = ToSet(RemoveAt(c, p)) \cup {c[p]}
    BY <2>1, ToSetRemoveAt
  <2>4. CacheKeys(RemoveAt(c, p)) \subseteq CacheKeys(c)
    BY <2>3, KeysOfToSet
  <2>5. CacheRemove(c, k) = RemoveAt(c, p)
    BY <1>1 DEF CacheRemove, p
  <2>6. KeysDistinct(c) => /\ KeysDistinct(RemoveAt(c, p))
                           /\ k \notin CacheKeys(RemoveAt(c, p))
    BY <2>1, KeysDistinctRemoveAt
  <2> QED BY <1>0, <2>2, <2>4, <2>5, <2>6
<1>2. CASE ~CacheExists(c, k)
  BY <1>0, <1>2 DEF CacheRemove, CacheExists
<1> QED BY <1>1, <1>2

\* get reorders the cache and neither adds nor drops an entry.
LEMMA CacheTouchProperties ==
  ASSUME NEW S, NEW c \in Seq(S), NEW k, CacheExists(c, k)
  PROVE  /\ CacheTouch(c, k) \in Seq(S)
         /\ Len(CacheTouch(c, k)) = Len(c)
         /\ CacheKeys(CacheTouch(c, k)) = CacheKeys(c)
         /\ CacheValue(c, k) \in {x.value : x \in S}
         /\ KeysDistinct(c) => KeysDistinct(CacheTouch(c, k))
<1> DEFINE p == CachePos(c, k)
           r == RemoveAt(c, p)
<1>0. Len(c) \in Nat /\ DOMAIN c = 1..Len(c)
  BY LenProperties
<1>1. p \in DOMAIN c
  BY CachePosProperties
<1> HIDE DEF p
<1>2. c[p] \in S
  BY <1>0, <1>1, ElementOfSeq
<1>3. r \in Seq(S) /\ Len(r) = Len(c) - 1
  BY <1>1, RemoveAtProperties
<1>4. ToSet(c) = ToSet(r) \cup {c[p]}
  BY <1>1, ToSetRemoveAt
<1> HIDE DEF r
<1>5. /\ Cons(c[p], r) \in Seq(S)
      /\ Len(Cons(c[p], r)) = Len(r) + 1
      /\ ToSet(Cons(c[p], r)) = {c[p]} \cup ToSet(r)
  BY <1>2, <1>3, ConsProperties
<1>6. CacheTouch(c, k) = Cons(c[p], r)
  BY DEF CacheTouch, p, r
<1>7. CacheKeys(CacheTouch(c, k)) = CacheKeys(c)
  BY <1>4, <1>5, <1>6, KeysOfToSet
<1>8. CacheValue(c, k) \in {x.value : x \in S}
  BY <1>2 DEF CacheValue, p
<1>9. ASSUME KeysDistinct(c) PROVE KeysDistinct(Cons(c[p], r))
  <2>1. KeysDistinct(r) /\ c[p].key \notin CacheKeys(r)
    BY <1>1, <1>9, KeysDistinctRemoveAt DEF r
  <2> QED BY <1>2, <1>3, <2>1, KeysDistinctCons
<1> QED BY <1>0, <1>3, <1>5, <1>6, <1>7, <1>8, <1>9

\* insert never outgrows max_size_, adds no key but its own and never makes a
\* second entry for it, whether the key is present, the cache full, or neither.
LEMMA CacheInsertProperties ==
  ASSUME NEW S, NEW c \in Seq(S), NEW k, NEW v,
         [key |-> k, value |-> v] \in S, Len(c) <= MaxCacheSize
  PROVE  /\ CacheInsert(c, k, v) \in Seq(S)
         /\ Len(CacheInsert(c, k, v)) <= MaxCacheSize
         /\ CacheKeys(CacheInsert(c, k, v)) \subseteq CacheKeys(c) \cup {k}
         /\ KeysDistinct(c) => KeysDistinct(CacheInsert(c, k, v))
<1> DEFINE x == [key |-> k, value |-> v]
           b == IF CacheExists(c, k) THEN CacheRemove(c, k) ELSE CacheEvict(c)
<1>0. Len(c) \in Nat /\ MaxCacheSize \in Nat /\ MaxCacheSize >= 1
  BY LenProperties, CacheSizeAssumption
<1>1. /\ b \in Seq(S) /\ Len(b) + 1 <= MaxCacheSize
      /\ CacheKeys(b) \subseteq CacheKeys(c)
      /\ KeysDistinct(c) => KeysDistinct(b) /\ k \notin CacheKeys(b)
  <2>1. CASE CacheExists(c, k)
    <3> DEFINE p == CachePos(c, k)
    <3>1. p \in DOMAIN c
      BY <2>1, CachePosProperties
    <3> HIDE DEF p
    <3>2. /\ RemoveAt(c, p) \in Seq(S)
          /\ Len(RemoveAt(c, p)) = Len(c) - 1
      BY <3>1, RemoveAtProperties
    <3>3. b = RemoveAt(c, p) /\ b = CacheRemove(c, k)
      BY <2>1 DEF CacheRemove, p
    <3> HIDE DEF b
    <3>4. /\ CacheKeys(b) \subseteq CacheKeys(c)
          /\ KeysDistinct(c) => KeysDistinct(b) /\ k \notin CacheKeys(b)
      BY <3>3, CacheRemoveProperties
    <3> QED BY <1>0, <3>2, <3>3, <3>4
  <2>2. CASE ~CacheExists(c, k) /\ Len(c) + 1 > MaxCacheSize
    <3>1. b = Front(c)
      BY <2>2 DEF CacheEvict
    <3> HIDE DEF b
    <3>2. Len(c) > 0
      BY <1>0, <2>2
    <3>3. /\ b \in Seq(S) /\ Len(b) = Len(c) - 1
          /\ ToSet(b) \subseteq ToSet(c)
      BY <3>1, <3>2, FrontProperties
    <3>4. CacheKeys(b) \subseteq CacheKeys(c)
      BY <3>3, KeysOfToSet
    <3>5. KeysDistinct(c) => KeysDistinct(b)
      BY <3>1, <3>2, KeysDistinctFront
    <3> QED BY <1>0, <2>2, <3>3, <3>4, <3>5 DEF CacheExists
  <2>3. CASE ~CacheExists(c, k) /\ ~(Len(c) + 1 > MaxCacheSize)
    <3>1. b = c
      BY <2>3 DEF CacheEvict
    <3> HIDE DEF b
    <3> QED BY <1>0, <2>3, <3>1 DEF CacheExists
  <2> QED BY <2>1, <2>2, <2>3
<1>2. CacheInsert(c, k, v) = Cons(x, b)
  BY DEF CacheInsert
<1>3. x \in S /\ x.key = k
  OBVIOUS
<1> HIDE DEF x, b
<1>4. /\ Cons(x, b) \in Seq(S)
      /\ Len(Cons(x, b)) = Len(b) + 1
      /\ ToSet(Cons(x, b)) = {x} \cup ToSet(b)
  BY <1>1, <1>3, ConsProperties
<1>5. CacheKeys(Cons(x, b)) \subseteq CacheKeys(c) \cup {k}
  BY <1>1, <1>3, <1>4, KeysOfToSet
<1>6. KeysDistinct(c) => KeysDistinct(Cons(x, b))
  BY <1>1, <1>3, KeysDistinctCons
<1> QED BY <1>0, <1>1, <1>2, <1>4, <1>5, <1>6

\* A lookup of the right shape whose cache respects its bound.
WellFormed(l, K, V) ==
  /\ l \in Lookup(K, V)
  /\ Len(l.cache) <= MaxCacheSize
  /\ KeysDistinct(l.cache)

\* A freshly constructed lookup is well formed and knows no key.
LEMMA EmptyLookupProperties ==
  ASSUME NEW K, NEW V
  PROVE  /\ WellFormed(EmptyLookup(K), K, V)
         /\ \A k \in K : ~LookupExists(EmptyLookup(K), k)
<1>1. <<>> \in Seq([key : K, value : V]) /\ Len(<<>>) = 0 /\ DOMAIN <<>> = {}
  OBVIOUS
<1>2. KeysDistinct(<<>>) /\ CacheKeys(<<>>) = {}
  BY <1>1 DEF KeysDistinct, CacheKeys
<1>3. Len(<<>>) <= MaxCacheSize
  BY <1>1, CacheSizeAssumption
<1> QED BY <1>1, <1>2, <1>3
        DEF WellFormed, EmptyLookup, Lookup, LookupExists, DirExists, CacheExists

\* get on a key that exists returns a stored value, from either container.
LEMMA LookupValueType ==
  ASSUME NEW K, NEW V, NEW l \in Lookup(K, V), NEW k \in K, LookupExists(l, k)
  PROVE  LookupValue(l, k) \in V
<1>1. CASE DirExists(l.directory, k)
  BY <1>1 DEF Lookup, LookupValue, DirExists
<1>2. CASE ~DirExists(l.directory, k)
  <2>1. l.cache \in Seq([key : K, value : V]) /\ CacheExists(l.cache, k)
    BY <1>2 DEF Lookup, LookupExists
  <2>2. CacheValue(l.cache, k) \in {x.value : x \in [key : K, value : V]}
    BY <2>1, CacheTouchProperties
  <2>3. CacheValue(l.cache, k) \in V
    BY <2>2
  <2> QED BY <1>2, <2>3 DEF LookupValue
<1> QED BY <1>1, <1>2

\* get changes no more than the order of the cache.
LEMMA LookupGetProperties ==
  ASSUME NEW K, NEW V, NEW l, WellFormed(l, K, V), NEW k, LookupExists(l, k)
  PROVE  /\ WellFormed(LookupGet(l, k), K, V)
         /\ LookupGet(l, k).directory = l.directory
         /\ CacheKeys(LookupGet(l, k).cache) = CacheKeys(l.cache)
<1>0. /\ l \in [directory : [K -> V \cup {Absent}],
                cache : Seq([key : K, value : V])]
      /\ l.cache \in Seq([key : K, value : V])
      /\ Len(l.cache) <= MaxCacheSize /\ KeysDistinct(l.cache)
  BY DEF WellFormed, Lookup
<1>1. CASE DirExists(l.directory, k)
  BY <1>1 DEF LookupGet
<1>2. CASE ~DirExists(l.directory, k)
  <2> DEFINE c == CacheTouch(l.cache, k)
  <2>1. CacheExists(l.cache, k)
    BY <1>2 DEF LookupExists
  <2>2. /\ c \in Seq([key : K, value : V]) /\ Len(c) = Len(l.cache)
        /\ CacheKeys(c) = CacheKeys(l.cache) /\ KeysDistinct(c)
    BY <1>0, <2>1, CacheTouchProperties
  <2>3. LookupGet(l, k) = [l EXCEPT !.cache = c]
    BY <1>2 DEF LookupGet
  <2> HIDE DEF c
  <2> QED BY <1>0, <2>2, <2>3 DEF WellFormed, Lookup
<1> QED BY <1>1, <1>2

\* remove takes the key out of both containers.
LEMMA LookupRemoveProperties ==
  ASSUME NEW K, NEW V, NEW l, WellFormed(l, K, V), NEW k \in K
  PROVE  /\ WellFormed(LookupRemove(l, k), K, V)
         /\ LookupRemove(l, k).directory = [l.directory EXCEPT ![k] = Absent]
         /\ CacheKeys(LookupRemove(l, k).cache) \subseteq CacheKeys(l.cache)
         /\ ~LookupExists(LookupRemove(l, k), k)
<1>0. /\ l \in [directory : [K -> V \cup {Absent}],
                cache : Seq([key : K, value : V])]
      /\ l.cache \in Seq([key : K, value : V])
      /\ Len(l.cache) <= MaxCacheSize /\ KeysDistinct(l.cache)
  BY DEF WellFormed, Lookup
<1> DEFINE c == CacheRemove(l.cache, k)
<1>1. /\ c \in Seq([key : K, value : V]) /\ Len(c) <= Len(l.cache)
      /\ CacheKeys(c) \subseteq CacheKeys(l.cache) /\ KeysDistinct(c)
      /\ k \notin CacheKeys(c)
  BY <1>0, CacheRemoveProperties
<1>2. Len(c) <= MaxCacheSize
  BY <1>0, <1>1, CacheSizeAssumption, LenProperties
<1>3. LookupRemove(l, k) =
        [directory |-> [l.directory EXCEPT ![k] = Absent], cache |-> c]
  BY DEF LookupRemove, DirRemove
<1> HIDE DEF c
<1> QED BY <1>0, <1>1, <1>2, <1>3
        DEF WellFormed, Lookup, LookupExists, DirExists, CacheExists

\* insert on the home rank writes the directory and leaves the cache alone.
LEMMA LookupInsertHomeProperties ==
  ASSUME NEW K, NEW V, NEW l, WellFormed(l, K, V), NEW k \in K, NEW v \in V,
         NEW h
  PROVE  /\ WellFormed(LookupInsert(l, h, k, h, v), K, V)
         /\ LookupInsert(l, h, k, h, v).directory =
              [l.directory EXCEPT ![k] = v]
         /\ LookupInsert(l, h, k, h, v).cache = l.cache
BY DEF WellFormed, Lookup, LookupInsert, DirInsert

\* update writes the directory if it has the key and the cache otherwise; the
\* set of keys in the directory stays as it is.
LEMMA LookupUpdateProperties ==
  ASSUME NEW K, NEW V, NEW l, WellFormed(l, K, V), NEW k \in K, NEW v \in V
  PROVE  /\ WellFormed(LookupUpdate(l, k, v), K, V)
         /\ DirExists(l.directory, k) =>
              /\ LookupUpdate(l, k, v).directory = [l.directory EXCEPT ![k] = v]
              /\ LookupUpdate(l, k, v).cache = l.cache
         /\ ~DirExists(l.directory, k) =>
              /\ LookupUpdate(l, k, v).directory = l.directory
              /\ CacheKeys(LookupUpdate(l, k, v).cache)
                   \subseteq CacheKeys(l.cache) \cup {k}
<1>0. /\ l \in [directory : [K -> V \cup {Absent}],
                cache : Seq([key : K, value : V])]
      /\ l.cache \in Seq([key : K, value : V])
      /\ Len(l.cache) <= MaxCacheSize /\ KeysDistinct(l.cache)
      /\ [key |-> k, value |-> v] \in [key : K, value : V]
  BY DEF WellFormed, Lookup
<1>1. CASE DirExists(l.directory, k)
  BY <1>0, <1>1 DEF WellFormed, Lookup, LookupUpdate, DirInsert
<1>2. CASE ~DirExists(l.directory, k)
  <2> DEFINE c == CacheInsert(l.cache, k, v)
             S == [key : K, value : V]
  <2>1. /\ c \in Seq([key : K, value : V]) /\ Len(c) <= MaxCacheSize
        /\ CacheKeys(c) \subseteq CacheKeys(l.cache) \cup {k}
        /\ KeysDistinct(c)
    <3>1. /\ l.cache \in Seq(S) /\ [key |-> k, value |-> v] \in S
      BY <1>0
    <3> HIDE DEF S
    <3>2. /\ c \in Seq(S) /\ Len(c) <= MaxCacheSize
          /\ CacheKeys(c) \subseteq CacheKeys(l.cache) \cup {k}
          /\ KeysDistinct(c)
      BY <1>0, <3>1, CacheInsertProperties
    <3> QED BY <3>2 DEF S
  <2>2. LookupUpdate(l, k, v) = [l EXCEPT !.cache = c]
    BY <1>2 DEF LookupUpdate
  <2> HIDE DEF c
  <2> QED BY <1>0, <1>2, <2>1, <2>2 DEF WellFormed, Lookup
<1> QED BY <1>1, <1>2

\* clearCache empties the cache and leaves the directory alone.
LEMMA LookupClearCacheProperties ==
  ASSUME NEW K, NEW V, NEW l, WellFormed(l, K, V)
  PROVE  /\ WellFormed(LookupClearCache(l), K, V)
         /\ LookupClearCache(l).directory = l.directory
         /\ CacheKeys(LookupClearCache(l).cache) = {}
<1>1. <<>> \in Seq([key : K, value : V]) /\ Len(<<>>) = 0 /\ DOMAIN <<>> = {}
  OBVIOUS
<1>2. KeysDistinct(<<>>) /\ CacheKeys(<<>>) = {}
  BY <1>1 DEF KeysDistinct, CacheKeys
<1>3. Len(<<>>) <= MaxCacheSize
  BY <1>1, CacheSizeAssumption
<1> QED BY <1>1, <1>2, <1>3 DEF WellFormed, Lookup, LookupClearCache

\* makeRec builds a record that names the node it was given.
LEMMA makeRecType ==
  ASSUME NEW N, NEW this_node, NEW node \in N
  PROVE  /\ makeRec(this_node, node) \in LocRecord(N)
         /\ makeRec(this_node, node).cur_node = node
BY DEF makeRec, updateNode, LocRecord, eLocState

-----------------------------------------------------------------------------
(* Which entries a cache holds after an operation                          *)

\* get keeps the entries.
LEMMA CacheTouchEntries ==
  ASSUME NEW S, NEW c \in Seq(S), NEW k, CacheExists(c, k)
  PROVE  ToSet(CacheTouch(c, k)) = ToSet(c)
<1> DEFINE p == CachePos(c, k)
           r == RemoveAt(c, p)
<1>1. p \in DOMAIN c
  BY CachePosProperties
<1> HIDE DEF p
<1>2. c[p] \in S
  BY <1>1, ElementOfSeq, LenProperties
<1>3. r \in Seq(S)
  BY <1>1, RemoveAtProperties
<1>4. ToSet(c) = ToSet(r) \cup {c[p]}
  BY <1>1, ToSetRemoveAt
<1> HIDE DEF r
<1>5. ToSet(Cons(c[p], r)) = {c[p]} \cup ToSet(r)
  BY <1>2, <1>3, ConsProperties
<1>6. CacheTouch(c, k) = Cons(c[p], r)
  BY DEF CacheTouch, p, r
<1> QED BY <1>4, <1>5, <1>6

\* remove adds no entry.
LEMMA CacheRemoveEntries ==
  ASSUME NEW S, NEW c \in Seq(S), NEW k
  PROVE  ToSet(CacheRemove(c, k)) \subseteq ToSet(c)
<1>1. CASE CacheExists(c, k)
  <2> DEFINE p == CachePos(c, k)
  <2>1. p \in DOMAIN c
    BY <1>1, CachePosProperties
  <2> HIDE DEF p
  <2>2. ToSet(c) = ToSet(RemoveAt(c, p)) \cup {c[p]}
    BY <2>1, ToSetRemoveAt
  <2>3. CacheRemove(c, k) = RemoveAt(c, p)
    BY <1>1 DEF CacheRemove, p
  <2> QED BY <2>2, <2>3
<1>2. CASE ~CacheExists(c, k)
  BY <1>2 DEF CacheRemove
<1> QED BY <1>1, <1>2

\* insert adds its entry and keeps no older entry of the same key: the value of
\* a key is the last one inserted.
LEMMA CacheInsertEntries ==
  ASSUME NEW S, NEW c \in Seq(S), NEW k, NEW v,
         [key |-> k, value |-> v] \in S, KeysDistinct(c)
  PROVE  /\ [key |-> k, value |-> v] \in ToSet(CacheInsert(c, k, v))
         /\ \A x \in ToSet(CacheInsert(c, k, v)) :
              x = [key |-> k, value |-> v] \/ (x \in ToSet(c) /\ x.key # k)
<1> DEFINE y == [key |-> k, value |-> v]
           b == IF CacheExists(c, k) THEN CacheRemove(c, k) ELSE CacheEvict(c)
<1>0. Len(c) \in Nat /\ MaxCacheSize \in Nat /\ MaxCacheSize >= 1
  BY LenProperties, CacheSizeAssumption
<1>1. b \in Seq(S) /\ ToSet(b) \subseteq ToSet(c) /\ k \notin CacheKeys(b)
  <2>1. CASE CacheExists(c, k)
    <3>1. b = CacheRemove(c, k)
      BY <2>1
    <3> HIDE DEF b
    <3>2. CacheRemove(c, k) \in Seq(S) /\ k \notin CacheKeys(CacheRemove(c, k))
      BY CacheRemoveProperties
    <3>3. ToSet(CacheRemove(c, k)) \subseteq ToSet(c)
      BY CacheRemoveEntries
    <3> QED BY <3>1, <3>2, <3>3
  <2>2. CASE ~CacheExists(c, k) /\ Len(c) + 1 > MaxCacheSize
    <3>1. b = Front(c)
      BY <2>2 DEF CacheEvict
    <3> HIDE DEF b
    <3>2. Len(c) > 0
      BY <1>0, <2>2
    <3>3. b \in Seq(S) /\ ToSet(b) \subseteq ToSet(c)
      BY <3>1, <3>2, FrontProperties
    <3> QED BY <2>2, <3>3, KeysOfToSet DEF CacheExists
  <2>3. CASE ~CacheExists(c, k) /\ ~(Len(c) + 1 > MaxCacheSize)
    <3>1. b = c
      BY <2>3 DEF CacheEvict
    <3> HIDE DEF b
    <3> QED BY <2>3, <3>1 DEF CacheExists
  <2> QED BY <2>1, <2>2, <2>3
<1>2. CacheInsert(c, k, v) = Cons(y, b)
  BY DEF CacheInsert
<1>3. y \in S
  OBVIOUS
<1> HIDE DEF b, y
<1>4. ToSet(Cons(y, b)) = {y} \cup ToSet(b)
  BY <1>1, <1>3, ConsProperties
<1>5. \A x \in ToSet(b) : x.key # k
  BY <1>1, KeysOfToSet
<1> QED BY <1>1, <1>2, <1>4, <1>5 DEF y

\* The entries a lookup caches, after each of its operations.
LEMMA LookupGetEntries ==
  ASSUME NEW K, NEW V, NEW l, WellFormed(l, K, V), NEW k, LookupExists(l, k)
  PROVE  ToSet(LookupGet(l, k).cache) = ToSet(l.cache)
<1>0. /\ l \in [directory : [K -> V \cup {Absent}],
                cache : Seq([key : K, value : V])]
      /\ l.cache \in Seq([key : K, value : V])
  BY DEF WellFormed, Lookup
<1>1. CASE DirExists(l.directory, k)
  BY <1>1 DEF LookupGet
<1>2. CASE ~DirExists(l.directory, k)
  <2>1. CacheExists(l.cache, k)
    BY <1>2 DEF LookupExists
  <2>2. ToSet(CacheTouch(l.cache, k)) = ToSet(l.cache)
    BY <1>0, <2>1, CacheTouchEntries
  <2>3. LookupGet(l, k).cache = CacheTouch(l.cache, k)
    BY <1>0, <1>2 DEF LookupGet
  <2> QED BY <2>2, <2>3
<1> QED BY <1>1, <1>2

\* update leaves no older entry of its key in the cache.
LEMMA LookupUpdateEntries ==
  ASSUME NEW K, NEW V, NEW l, WellFormed(l, K, V), NEW k \in K, NEW v \in V,
         ~DirExists(l.directory, k)
  PROVE  \A x \in ToSet(LookupUpdate(l, k, v).cache) :
           x = [key |-> k, value |-> v] \/ (x \in ToSet(l.cache) /\ x.key # k)
<1> DEFINE S == [key : K, value : V]
<1>0. /\ l \in [directory : [K -> V \cup {Absent}], cache : Seq(S)]
      /\ l.cache \in Seq(S) /\ KeysDistinct(l.cache)
      /\ [key |-> k, value |-> v] \in S
  BY DEF WellFormed, Lookup
<1>1. LookupUpdate(l, k, v).cache = CacheInsert(l.cache, k, v)
  BY <1>0 DEF LookupUpdate
<1> HIDE DEF S
<1>2. \A x \in ToSet(CacheInsert(l.cache, k, v)) :
        x = [key |-> k, value |-> v] \/ (x \in ToSet(l.cache) /\ x.key # k)
  BY <1>0, CacheInsertEntries
<1> QED BY <1>1, <1>2

\* After update the lookup has the key, whatever it has evicted for it.
LEMMA LookupUpdateKnows ==
  ASSUME NEW K, NEW V, NEW l, WellFormed(l, K, V), NEW k \in K, NEW v \in V,
         Absent \notin V
  PROVE  LookupExists(LookupUpdate(l, k, v), k)
<1> DEFINE S == [key : K, value : V]
<1>0. /\ l \in [directory : [K -> V \cup {Absent}], cache : Seq(S)]
      /\ l.cache \in Seq(S) /\ KeysDistinct(l.cache)
      /\ [key |-> k, value |-> v] \in S
  BY DEF WellFormed, Lookup
<1>1. CASE DirExists(l.directory, k)
  BY <1>0, <1>1 DEF LookupExists, LookupUpdate, DirInsert, DirExists
<1>2. CASE ~DirExists(l.directory, k)
  <2>1. LookupUpdate(l, k, v).cache = CacheInsert(l.cache, k, v)
    BY <1>0, <1>2 DEF LookupUpdate
  <2> HIDE DEF S
  <2>2. [key |-> k, value |-> v] \in ToSet(CacheInsert(l.cache, k, v))
    BY <1>0, CacheInsertEntries
  <2>3. k \in CacheKeys(CacheInsert(l.cache, k, v))
    BY <2>2, KeysOfToSet
  <2> QED BY <2>1, <2>3 DEF LookupExists, CacheExists
<1> QED BY <1>1, <1>2

\* remove and clearCache add no entry to the cache.
LEMMA LookupDropEntries ==
  ASSUME NEW K, NEW V, NEW l, WellFormed(l, K, V), NEW k
  PROVE  /\ ToSet(LookupRemove(l, k).cache) \subseteq ToSet(l.cache)
         /\ ToSet(LookupClearCache(l).cache) = {}
<1>0. /\ l \in [directory : [K -> V \cup {Absent}],
                cache : Seq([key : K, value : V])]
      /\ l.cache \in Seq([key : K, value : V])
  BY DEF WellFormed, Lookup
<1>1. ToSet(CacheRemove(l.cache, k)) \subseteq ToSet(l.cache)
  BY <1>0, CacheRemoveEntries
<1>2. LookupClearCache(l).cache = <<>>
  BY <1>0 DEF LookupClearCache
<1>3. ToSet(<<>>) = {}
  BY DEF ToSet
<1> QED BY <1>1, <1>2, <1>3 DEF LookupRemove

=============================================================================
