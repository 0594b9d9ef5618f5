------------------------ MODULE LocationCacheProofs -------------------------
(***************************************************************************)
(* The list and the hash map of LocationCache stay coherent and implement  *)
(* the LRU list of LRUCache, for every set of keys, values and cells and   *)
(* every max_size_ of at least one.  The proof treats the list as the set  *)
(* of its cells wherever the order does not matter (Linked), and carries   *)
(* the order over from the cells to the entries they hold with Contents.   *)
(***************************************************************************)
EXTENDS LocationCache, LocDataProofs, FiniteSetTheorems

Entry == [key : Key, value : Value]

-----------------------------------------------------------------------------
(* Lists without repetition                                                *)

\* Erasing a cell of a list without repetition takes that cell out, and no
\* other cell.
LEMMA InjectiveRemoveAt ==
  ASSUME NEW S, NEW q \in Seq(S), NEW p \in DOMAIN q, IsInjective(q)
  PROVE  /\ IsInjective(RemoveAt(q, p))
         /\ ToSet(RemoveAt(q, p)) = ToSet(q) \ {q[p]}
<1> DEFINE r == RemoveAt(q, p)
<1>0. Len(q) \in Nat /\ DOMAIN q = 1..Len(q)
  BY LenProperties
<1>1. /\ r \in Seq(S) /\ Len(r) = Len(q) - 1
      /\ \A j \in 1..(Len(q) - 1) : r[j] = IF j < p THEN q[j] ELSE q[j + 1]
  BY RemoveAtProperties
<1>2. DOMAIN r = 1..(Len(q) - 1)
  BY <1>1, LenProperties
<1>3. ToSet(q) = ToSet(r) \cup {q[p]}
  BY ToSetRemoveAt
<1> HIDE DEF r
<1>4. ASSUME NEW i \in DOMAIN r
      PROVE  \E m \in DOMAIN q : /\ r[i] = q[m] /\ m # p
                                 /\ m = IF i < p THEN i ELSE i + 1
  <2>1. CASE i < p
    <3>1. i \in DOMAIN q /\ i # p /\ r[i] = q[i] BY <1>0, <1>1, <1>2, <2>1
    <3> QED BY <2>1, <3>1
  <2>2. CASE ~(i < p)
    <3>1. i + 1 \in DOMAIN q /\ i + 1 # p /\ r[i] = q[i + 1]
      BY <1>0, <1>1, <1>2, <2>2
    <3> QED BY <2>2, <3>1
  <2> QED BY <2>1, <2>2
<1>5. ASSUME NEW i \in DOMAIN r, NEW j \in DOMAIN r, r[i] = r[j]
      PROVE  i = j
  <2>1. PICK m \in DOMAIN q : r[i] = q[m] /\ m = IF i < p THEN i ELSE i + 1
    BY <1>4
  <2>2. PICK n \in DOMAIN q : r[j] = q[n] /\ n = IF j < p THEN j ELSE j + 1
    BY <1>4
  <2>3. m = n
    BY <1>5, <2>1, <2>2 DEF IsInjective
  <2> QED BY <1>0, <1>2, <2>1, <2>2, <2>3
<1>6. q[p] \notin ToSet(r)
  BY <1>4 DEF IsInjective, ToSet
<1>7. IsInjective(r)
  BY <1>5 DEF IsInjective
<1> QED BY <1>3, <1>6, <1>7 DEF r

\* Pushing a cell that the list does not have makes no repetition.
LEMMA InjectiveCons ==
  ASSUME NEW S, NEW q \in Seq(S), NEW x \in S, IsInjective(q),
         x \notin ToSet(q)
  PROVE  IsInjective(Cons(x, q))
<1> DEFINE d == Cons(x, q)
<1>0. Len(q) \in Nat /\ DOMAIN q = 1..Len(q)
  BY LenProperties
<1>1. /\ d \in Seq(S) /\ Len(d) = Len(q) + 1 /\ d[1] = x
      /\ \A i \in 1..Len(q) : d[i + 1] = q[i]
  BY ConsProperties
<1>2. DOMAIN d = 1..(Len(q) + 1)
  BY <1>1, LenProperties
<1> HIDE DEF d
<1>3. ASSUME NEW i \in DOMAIN d, i # 1
      PROVE  i - 1 \in DOMAIN q /\ d[i] = q[i - 1] /\ d[i] # x
  <2>1. i - 1 \in 1..Len(q) /\ (i - 1) + 1 = i
    BY <1>0, <1>2, <1>3
  <2>2. d[i] = q[i - 1]
    BY <1>1, <2>1
  <2> QED BY <1>0, <2>1, <2>2 DEF ToSet
<1>4. ASSUME NEW i \in DOMAIN d, NEW j \in DOMAIN d, d[i] = d[j]
      PROVE  i = j
  <2>1. CASE i = 1 \/ j = 1
    BY <1>1, <1>3, <1>4, <2>1
  <2>2. CASE i # 1 /\ j # 1
    <3>1. i - 1 = j - 1
      BY <1>3, <1>4, <2>2 DEF IsInjective
    <3> QED BY <1>0, <1>2, <3>1
  <2> QED BY <2>1, <2>2
<1> QED BY <1>4 DEF IsInjective, d

\* pop_back is the erasure of the last element.
LEMMA FrontIsRemoveAt ==
  ASSUME NEW S, NEW q \in Seq(S), Len(q) > 0
  PROVE  /\ Len(q) \in DOMAIN q
         /\ Front(q) = RemoveAt(q, Len(q))
<1>0. Len(q) \in Nat /\ DOMAIN q = 1..Len(q) /\ Len(q) \in DOMAIN q
  BY LenProperties
<1> DEFINE n == Len(q)
           f == Front(q)
           r == RemoveAt(q, n)
<1>1. /\ f \in Seq(S) /\ Len(f) = n - 1
      /\ \A i \in 1..(n - 1) : f[i] = q[i]
  BY FrontProperties
<1>2. /\ r \in Seq(S) /\ Len(r) = n - 1
      /\ \A i \in 1..(n - 1) : r[i] = IF i < n THEN q[i] ELSE q[i + 1]
  BY <1>0, RemoveAtProperties
<1> HIDE DEF f, r
<1>3. \A i \in 1..Len(f) : f[i] = r[i]
  BY <1>0, <1>1, <1>2
<1>4. f = r
  BY <1>1, <1>2, <1>3, SeqEqual
<1> QED BY <1>0, <1>4 DEF f, r

-----------------------------------------------------------------------------
(* What the cells of a list hold                                           *)

Contents(h, q) == [i \in DOMAIN q |-> h[q[i]]]

\* The contents are a list as long as the list of cells.
LEMMA ContentsType ==
  ASSUME NEW S, NEW h, NEW q \in Seq(S)
  PROVE  /\ Contents(h, q) \in Seq({h[c] : c \in S})
         /\ Len(Contents(h, q)) = Len(q)
<1> DEFINE T == {h[c] : c \in S}
<1>0. Len(q) \in Nat /\ DOMAIN q = 1..Len(q)
  BY LenProperties
<1>1. \A i \in 1..Len(q) : h[q[i]] \in T
  BY ElementOfSeq
<1> HIDE DEF T
<1>2. Contents(h, q) \in [1..Len(q) -> T]
  BY <1>0, <1>1 DEF Contents
<1>3. Contents(h, q) \in Seq(T)
  <2>1. \E n \in Nat : Contents(h, q) \in [1..n -> T]
    BY <1>0, <1>2
  <2> QED BY <2>1, SeqDef
<1>4. DOMAIN Contents(h, q) = 1..Len(q)
  BY <1>2
<1>5. Len(Contents(h, q)) = Len(q)
  BY <1>0, <1>3, <1>4, LenProperties
<1> QED BY <1>3, <1>5 DEF T

\* A write to a cell outside the list does not show.
LEMMA ContentsFrame ==
  ASSUME NEW q, NEW h, NEW g, \A c \in ToSet(q) : h[c] = g[c]
  PROVE  Contents(h, q) = Contents(g, q)
BY DEF Contents, ToSet

\* Erasing a cell erases the entry at its place.
LEMMA ContentsRemoveAt ==
  ASSUME NEW S, NEW h, NEW q \in Seq(S), NEW p \in DOMAIN q
  PROVE  Contents(h, RemoveAt(q, p)) = RemoveAt(Contents(h, q), p)
<1> DEFINE T == {h[c] : c \in S}
           r == RemoveAt(q, p)
           e == Contents(h, q)
           a == Contents(h, r)
           b == RemoveAt(e, p)
<1>0. Len(q) \in Nat /\ DOMAIN q = 1..Len(q)
  BY LenProperties
<1>a. \A w \in Seq(S) : /\ Contents(h, w) \in Seq(T)
                       /\ Len(Contents(h, w)) = Len(w)
  BY ContentsType
<1> HIDE DEF T
<1>1. /\ r \in Seq(S) /\ Len(r) = Len(q) - 1
      /\ \A j \in 1..(Len(q) - 1) : r[j] = IF j < p THEN q[j] ELSE q[j + 1]
  BY RemoveAtProperties
<1>2. /\ e \in Seq(T) /\ Len(e) = Len(q)
      /\ \A i \in DOMAIN q : e[i] = h[q[i]]
  BY <1>a DEF Contents
<1> HIDE DEF r
<1>3. a \in Seq(T) /\ Len(a) = Len(q) - 1
  BY <1>a, <1>1
<1>4. \A i \in DOMAIN r : a[i] = h[r[i]]
  BY DEF Contents
<1> HIDE DEF e, a
<1>5. /\ b \in Seq(T) /\ Len(b) = Len(q) - 1
      /\ \A j \in 1..(Len(q) - 1) : b[j] = IF j < p THEN e[j] ELSE e[j + 1]
  BY <1>2, RemoveAtProperties
<1>6. DOMAIN r = 1..(Len(q) - 1)
  BY <1>1, LenProperties
<1> HIDE DEF b
<1>7. ASSUME NEW j \in 1..(Len(q) - 1) PROVE a[j] = b[j]
  <2>1. CASE j < p
    <3>1. j \in DOMAIN q
      BY <1>0
    <3> QED BY <1>1, <1>2, <1>4, <1>5, <1>6, <2>1, <3>1
  <2>2. CASE ~(j < p)
    <3>1. j + 1 \in DOMAIN q
      BY <1>0
    <3>2. r[j] = q[j + 1] /\ b[j] = e[j + 1]
      BY <1>1, <1>5, <2>2
    <3>3. a[j] = h[r[j]] /\ e[j + 1] = h[q[j + 1]]
      BY <1>2, <1>4, <1>6, <3>1
    <3> QED BY <3>2, <3>3
  <2> QED BY <2>1, <2>2
<1>8. a = b
  BY <1>3, <1>5, <1>7, SeqEqual
<1> QED BY <1>8 DEF a, b, e, r

\* Pushing a cell pushes its entry.
LEMMA ContentsCons ==
  ASSUME NEW S, NEW h, NEW q \in Seq(S), NEW x \in S
  PROVE  Contents(h, Cons(x, q)) = Cons(h[x], Contents(h, q))
<1> DEFINE T == {h[c] : c \in S}
           r == Cons(x, q)
           e == Contents(h, q)
           a == Contents(h, r)
           y == h[x]
           b == Cons(y, e)
<1>0. Len(q) \in Nat /\ DOMAIN q = 1..Len(q)
  BY LenProperties
<1>a. \A w \in Seq(S) : /\ Contents(h, w) \in Seq(T)
                       /\ Len(Contents(h, w)) = Len(w)
  BY ContentsType
<1>b. y \in T
  OBVIOUS
<1> HIDE DEF T, y
<1>1. /\ r \in Seq(S) /\ Len(r) = Len(q) + 1 /\ r[1] = x
      /\ \A i \in 1..Len(q) : r[i + 1] = q[i]
  BY ConsProperties
<1>2. /\ e \in Seq(T) /\ Len(e) = Len(q)
      /\ \A i \in DOMAIN q : e[i] = h[q[i]]
  BY <1>a DEF Contents
<1> HIDE DEF r, e
<1>3. /\ b \in Seq(T) /\ Len(b) = Len(q) + 1 /\ b[1] = y
      /\ \A i \in 1..Len(q) : b[i + 1] = e[i]
  <2>1. e \in Seq(T) /\ Len(e) = Len(q)
    BY <1>2
  <2>2. /\ b \in Seq(T) /\ Len(b) = Len(e) + 1 /\ b[1] = y
        /\ \A i \in 1..Len(e) : b[i + 1] = e[i]
    BY <1>b, <2>1, ConsProperties
  <2> QED BY <2>1, <2>2
<1>4. /\ a \in Seq(T) /\ Len(a) = Len(q) + 1
      /\ \A i \in DOMAIN r : a[i] = h[r[i]]
  <2>1. a \in Seq(T) /\ Len(a) = Len(r)
    BY <1>a, <1>1
  <2> QED BY <1>1, <2>1 DEF Contents
<1>5. DOMAIN r = 1..(Len(q) + 1)
  BY <1>1, LenProperties
<1> HIDE DEF a, b
<1>6. ASSUME NEW j \in 1..(Len(q) + 1) PROVE a[j] = b[j]
  <2>1. CASE j = 1
    BY <1>1, <1>3, <1>4, <1>5, <2>1 DEF y
  <2>2. CASE j # 1
    <3>1. j - 1 \in 1..Len(q) /\ (j - 1) + 1 = j
      BY <1>0, <2>2
    <3>2. r[j] = q[j - 1] /\ b[j] = e[j - 1]
      BY <1>1, <1>3, <3>1
    <3> QED BY <1>0, <1>2, <1>4, <1>5, <3>1, <3>2
  <2> QED BY <2>1, <2>2
<1>7. a = b
  BY <1>3, <1>4, <1>6, SeqEqual
<1> QED BY <1>7 DEF a, b, e, r, y

-----------------------------------------------------------------------------
(* The links between the containers, with the list taken as a set          *)

Linked(h, L, l) ==
  /\ \A k \in Key : l[k] # Absent => l[k] \in L /\ h[l[k]].key = k
  /\ \A c \in Cell : c \in L <=> h[c] # Absent
  /\ \A c \in L : l[h[c].key] = c

\* Erasing a live cell together with the map entry of its key (remove, and the
\* eviction of insert) leaves no dangling iterator.
LEMMA LinkedErase ==
  ASSUME NEW h \in [Cell -> Entry \cup {Absent}], NEW L \in SUBSET Cell,
         NEW l \in [Key -> Cell \cup {Absent}], Linked(h, L, l), NEW c \in L
  PROVE  /\ h[c] \in Entry
         /\ Linked([h EXCEPT ![c] = Absent], L \ {c},
                   [l EXCEPT ![h[c].key] = Absent])
<1>1. h[c] \in Entry /\ h[c].key \in Key /\ l[h[c].key] = c
  BY DEF Linked, Entry
<1> DEFINE g == [h EXCEPT ![c] = Absent]
           m == [l EXCEPT ![h[c].key] = Absent]
<1>2. /\ g[c] = Absent
      /\ \A d \in Cell : d # c => g[d] = h[d]
      /\ m[h[c].key] = Absent
      /\ \A k \in Key : k # h[c].key => m[k] = l[k]
  BY <1>1
<1> HIDE DEF g, m
<1>3. ASSUME NEW k \in Key, m[k] # Absent
      PROVE  m[k] \in L \ {c} /\ g[m[k]].key = k
  <2>1. k # h[c].key /\ m[k] = l[k]
    BY <1>2, <1>3
  <2>2. l[k] \in L /\ h[l[k]].key = k
    BY <1>3, <2>1 DEF Linked
  <2>3. l[k] # c
    BY <2>1, <2>2
  <2> QED BY <1>2, <2>1, <2>2, <2>3
<1>4. \A d \in Cell : d \in L \ {c} <=> g[d] # Absent
  BY <1>2 DEF Linked
<1>5. ASSUME NEW d \in L \ {c} PROVE m[g[d].key] = d
  <2>1. g[d] = h[d] /\ h[d] \in Entry /\ l[h[d].key] = d
    BY <1>2 DEF Linked
  <2>2. h[d].key \in Key /\ h[d].key # h[c].key
    BY <1>1, <2>1 DEF Entry
  <2> QED BY <1>2, <2>1, <2>2
<1>6. Linked(g, L \ {c}, m)
  BY <1>3, <1>4, <1>5 DEF Linked
<1> QED BY <1>1, <1>6 DEF g, m

\* A free cell given to a key without an iterator becomes a live one.
LEMMA LinkedAdd ==
  ASSUME NEW h \in [Cell -> Entry \cup {Absent}], NEW L \in SUBSET Cell,
         NEW l \in [Key -> Cell \cup {Absent}], Linked(h, L, l),
         NEW c \in Cell, h[c] = Absent, NEW e \in Entry, l[e.key] = Absent
  PROVE  Linked([h EXCEPT ![c] = e], L \cup {c}, [l EXCEPT ![e.key] = c])
<1> DEFINE g == [h EXCEPT ![c] = e]
           m == [l EXCEPT ![e.key] = c]
<1>1. c \notin L /\ e.key \in Key /\ c # Absent /\ e # Absent
  BY AbsentAssumption DEF Linked, Entry
<1>2. /\ g[c] = e
      /\ \A d \in Cell : d # c => g[d] = h[d]
      /\ m[e.key] = c
      /\ \A k \in Key : k # e.key => m[k] = l[k]
  BY <1>1
<1> HIDE DEF g, m
<1>3. ASSUME NEW k \in Key, m[k] # Absent
      PROVE  m[k] \in L \cup {c} /\ g[m[k]].key = k
  <2>1. CASE k = e.key
    BY <1>2, <2>1
  <2>2. CASE k # e.key
    <3>1. m[k] = l[k] /\ l[k] \in L /\ h[l[k]].key = k
      BY <1>2, <1>3, <2>2 DEF Linked
    <3> QED BY <1>1, <1>2, <3>1
  <2> QED BY <2>1, <2>2
<1>4. \A d \in Cell : d \in L \cup {c} <=> g[d] # Absent
  BY <1>1, <1>2 DEF Linked
<1>5. ASSUME NEW d \in L \cup {c} PROVE m[g[d].key] = d
  <2>1. CASE d = c
    BY <1>2, <2>1
  <2>2. CASE d # c
    <3>1. g[d] = h[d] /\ h[d] \in Entry /\ l[h[d].key] = d
      BY <1>2, <2>2 DEF Linked
    <3>2. h[d].key \in Key /\ h[d].key # e.key
      BY <3>1, AbsentAssumption DEF Entry
    <3> QED BY <1>2, <3>1, <3>2
  <2> QED BY <2>1, <2>2
<1>6. Linked(g, L \cup {c}, m)
  BY <1>3, <1>4, <1>5 DEF Linked
<1> QED BY <1>6 DEF g, m

\* Writing the value of a live cell leaves the links alone.
LEMMA LinkedWrite ==
  ASSUME NEW h \in [Cell -> Entry \cup {Absent}], NEW L \in SUBSET Cell,
         NEW l \in [Key -> Cell \cup {Absent}], Linked(h, L, l),
         NEW c \in L, NEW v \in Value
  PROVE  /\ [h[c] EXCEPT !.value = v] \in Entry
         /\ [h[c] EXCEPT !.value = v] = [key |-> h[c].key, value |-> v]
         /\ Linked([h EXCEPT ![c].value = v], L, l)
<1>1. h[c] \in Entry
  BY DEF Linked
<1> DEFINE e == [h[c] EXCEPT !.value = v]
           g == [h EXCEPT ![c].value = v]
<1>2. e \in Entry /\ e.key = h[c].key /\ e = [key |-> h[c].key, value |-> v]
  BY <1>1 DEF Entry
<1>3. g[c] = e /\ \A d \in Cell : d # c => g[d] = h[d]
  OBVIOUS
<1> HIDE DEF e, g
<1>4. \A d \in Cell : g[d] # Absent <=> h[d] # Absent
  BY <1>1, <1>2, <1>3, AbsentAssumption DEF Entry
<1>5. \A d \in Cell : d \in L => g[d].key = h[d].key
  BY <1>2, <1>3
<1>6. Linked(g, L, l)
  BY <1>4, <1>5 DEF Linked
<1> QED BY <1>2, <1>6 DEF e, g

-----------------------------------------------------------------------------
(* The containers as an LRU list                                           *)

\* The containers have their types and the list respects max_size_.
Shape ==
  /\ heap \in [Cell -> Entry \cup {Absent}]
  /\ cache_ \in Seq(Cell)
  /\ lookup_ \in [Key -> Cell \cup {Absent}]
  /\ Len(cache_) <= MaxCacheSize

\* Coherent, with the list taken as a set.
LEMMA CoherentIsLinked ==
  Coherent <=> Linked(heap, ToSet(cache_), lookup_) /\ IsInjective(cache_)
BY DEF Coherent, Linked, exists, ToSet

\* The same after a step.
LEMMA CoherentNextIsLinked ==
  Linked(heap', ToSet(cache_'), lookup_') /\ IsInjective(cache_') => Coherent'
BY DEF Coherent, Linked, exists, ToSet

\* Every key of the map is the key of exactly one place of the list: looking a
\* key up in the map and in the list of entries finds the same place, and the
\* map is as large as the list is long.
LEMMA ContainersAgree ==
  ASSUME Shape, Coherent
  PROVE  /\ Entries = Contents(heap, cache_)
         /\ \A k \in Key : CacheExists(Entries, k) <=> exists(k)
         /\ \A k \in Key : exists(k) =>
              /\ lookup_[k] \in Cell /\ heap[lookup_[k]] \in Entry
              /\ Place(lookup_[k]) \in DOMAIN cache_
              /\ cache_[Place(lookup_[k])] = lookup_[k]
              /\ CachePos(Entries, k) = Place(lookup_[k])
         /\ size = Len(cache_)
<1>0. /\ Len(cache_) \in Nat /\ DOMAIN cache_ = 1..Len(cache_)
      /\ \A i \in DOMAIN cache_ : cache_[i] \in Cell
  BY LenProperties, ElementOfSeq DEF Shape
<1>1. /\ DOMAIN Entries = DOMAIN cache_
      /\ \A i \in DOMAIN cache_ : Entries[i] = heap[cache_[i]]
  BY DEF Entries
<1>2. ASSUME NEW i \in DOMAIN cache_
      PROVE  /\ heap[cache_[i]] \in Entry /\ heap[cache_[i]].key \in Key
             /\ lookup_[heap[cache_[i]].key] = cache_[i]
  <2>1. heap[cache_[i]] # Absent
    BY <1>0 DEF Coherent, ToSet
  <2> QED BY <1>0, <2>1 DEF Coherent, Shape, Entry
<1>3. ASSUME NEW k \in Key, exists(k)
      PROVE  \E i \in DOMAIN cache_ : lookup_[k] = cache_[i]
                                     /\ heap[cache_[i]].key = k
  <2>1. lookup_[k] \in ToSet(cache_) /\ heap[lookup_[k]].key = k
    BY <1>3 DEF Coherent
  <2>2. PICK i \in DOMAIN cache_ : lookup_[k] = cache_[i]
    BY <2>1 DEF ToSet
  <2> QED BY <2>1, <2>2
<1>4. ASSUME NEW k \in Key, exists(k)
      PROVE  /\ lookup_[k] \in Cell /\ heap[lookup_[k]] \in Entry
             /\ Place(lookup_[k]) \in DOMAIN cache_
             /\ cache_[Place(lookup_[k])] = lookup_[k]
             /\ CacheExists(Entries, k)
             /\ CachePos(Entries, k) = Place(lookup_[k])
  <2>1. PICK i \in DOMAIN cache_ :
          lookup_[k] = cache_[i] /\ heap[cache_[i]].key = k
    BY <1>3, <1>4
  <2>2. /\ Place(lookup_[k]) \in DOMAIN cache_
        /\ cache_[Place(lookup_[k])] = lookup_[k]
    BY <2>1 DEF Place
  <2>3. CacheExists(Entries, k)
    BY <1>1, <2>1 DEF CacheExists, CacheKeys
  <2>4. CachePos(Entries, k) \in DOMAIN Entries
        /\ Entries[CachePos(Entries, k)].key = k
    BY <2>3, CachePosProperties
  <2>5. cache_[CachePos(Entries, k)] = lookup_[k]
    BY <1>1, <1>2, <2>4
  <2>6. CachePos(Entries, k) = Place(lookup_[k])
    BY <1>1, <2>2, <2>4, <2>5 DEF Coherent, IsInjective
  <2> QED BY <1>0, <1>2, <2>1, <2>2, <2>3, <2>6
<1>5. ASSUME NEW k \in Key, CacheExists(Entries, k)
      PROVE  exists(k)
  <2>1. PICK i \in DOMAIN cache_ : heap[cache_[i]].key = k
    BY <1>1, <1>5 DEF CacheExists, CacheKeys
  <2>2. lookup_[k] = cache_[i]
    BY <1>2, <2>1
  <2> QED BY <1>0, <2>2, AbsentAssumption DEF exists
<1>6. size = Len(cache_)
  <2> DEFINE Ks == {k \in Key : exists(k)}
             f == [i \in 1..Len(cache_) |-> heap[cache_[i]].key]
  <2>1. f \in [1..Len(cache_) -> Ks]
    BY <1>0, <1>2, AbsentAssumption DEF exists
  <2>2. \A i, j \in 1..Len(cache_) : f[i] = f[j] => i = j
    <3>1. \A i, j \in 1..Len(cache_) : f[i] = f[j] => cache_[i] = cache_[j]
      BY <1>0, <1>2
    <3> QED BY <1>0, <3>1 DEF Coherent, IsInjective
  <2>3. \A k \in Ks : \E i \in 1..Len(cache_) : f[i] = k
    BY <1>0, <1>3
  <2> HIDE DEF f, Ks
  <2>4. f \in Injection(1..Len(cache_), Ks)
    BY <2>1, <2>2 DEF Injection, IsInjective
  <2>5. f \in Surjection(1..Len(cache_), Ks)
    BY <2>1, <2>3 DEF Surjection
  <2>6. ExistsBijection(1..Len(cache_), Ks)
    BY <2>4, <2>5 DEF ExistsBijection, Bijection
  <2>7. Cardinality(Ks) = Len(cache_)
    BY <1>0, <2>6, FS_CountingElements
  <2> QED BY <2>7 DEF size, Ks
<1> QED BY <1>4, <1>5, <1>6 DEF Entries, Contents

-----------------------------------------------------------------------------
(* What each operation does to the containers and to the list of entries   *)

\* Splicing a cell of the list to its front keeps the cells and moves the
\* cell's entry to the front.
LEMMA SplicedProperties ==
  ASSUME Shape, Coherent, NEW k \in Key, exists(k), NEW h
  PROVE  /\ Spliced(lookup_[k]) \in Seq(Cell)
         /\ Len(Spliced(lookup_[k])) = Len(cache_)
         /\ ToSet(Spliced(lookup_[k])) = ToSet(cache_)
         /\ IsInjective(Spliced(lookup_[k]))
         /\ Contents(h, Spliced(lookup_[k])) =
              Cons(h[lookup_[k]],
                   RemoveAt(Contents(h, cache_), Place(lookup_[k])))
<1> DEFINE c == lookup_[k]
           p == Place(c)
           r == RemoveAt(cache_, p)
<1>1. cache_ \in Seq(Cell) /\ Len(cache_) \in Nat /\ IsInjective(cache_)
  BY LenProperties DEF Shape, Coherent
<1>2. c \in Cell /\ p \in DOMAIN cache_ /\ cache_[p] = c
  BY ContainersAgree
<1>3. c \in ToSet(cache_)
  BY <1>2 DEF ToSet
<1>4. Spliced(c) = Cons(c, r)
  BY DEF Spliced
<1> HIDE DEF c, p
<1>5. r \in Seq(Cell) /\ Len(r) = Len(cache_) - 1
  BY <1>1, <1>2, RemoveAtProperties
<1>6. IsInjective(r) /\ ToSet(r) = ToSet(cache_) \ {c}
  BY <1>1, <1>2, InjectiveRemoveAt
<1>8. Contents(h, r) = RemoveAt(Contents(h, cache_), p)
  <2>1. cache_ \in Seq(Cell) /\ p \in DOMAIN cache_
    BY <1>1, <1>2
  <2> QED BY <2>1, ContentsRemoveAt
<1> HIDE DEF r
<1>9. /\ Cons(c, r) \in Seq(Cell) /\ Len(Cons(c, r)) = Len(r) + 1
      /\ ToSet(Cons(c, r)) = {c} \cup ToSet(r)
  BY <1>2, <1>5, ConsProperties
<1>10. IsInjective(Cons(c, r))
  BY <1>2, <1>5, <1>6, InjectiveCons
<1>11. Contents(h, Cons(c, r)) = Cons(h[c], Contents(h, r))
  BY <1>2, <1>5, ContentsCons
<1>12. ToSet(Cons(c, r)) = ToSet(cache_)
  BY <1>3, <1>6, <1>9
<1>13. Len(Cons(c, r)) = Len(cache_)
  BY <1>1, <1>5, <1>9
<1> QED BY <1>4, <1>8, <1>9, <1>10, <1>11, <1>12, <1>13 DEF c, p

\* get moves the entry of its key to the front.
LEMMA GetStep ==
  ASSUME Shape, Coherent, NEW k \in Key, get(k)
  PROVE  /\ Shape' /\ Coherent'
         /\ CacheExists(Entries, k)
         /\ Entries' = CacheTouch(Entries, k)
<1>1. exists(k) /\ heap' = heap /\ lookup_' = lookup_
      /\ cache_' = Spliced(lookup_[k])
  BY DEF get
<1>3. /\ cache_' \in Seq(Cell)
      /\ Len(cache_') = Len(cache_)
      /\ ToSet(cache_') = ToSet(cache_)
      /\ IsInjective(cache_')
      /\ Contents(heap, cache_') =
           Cons(heap[lookup_[k]],
                RemoveAt(Contents(heap, cache_), Place(lookup_[k])))
  BY <1>1, SplicedProperties
<1>4. Shape'
  BY <1>1, <1>3 DEF Shape
<1>5. Coherent'
  <2>1. Linked(heap, ToSet(cache_), lookup_)
    BY CoherentIsLinked
  <2> QED BY <1>1, <1>3, <2>1, CoherentNextIsLinked
<1>6. /\ Entries = Contents(heap, cache_)
      /\ CacheExists(Entries, k)
      /\ Place(lookup_[k]) \in DOMAIN cache_
      /\ cache_[Place(lookup_[k])] = lookup_[k]
      /\ CachePos(Entries, k) = Place(lookup_[k])
  BY <1>1, ContainersAgree
<1>7. Entries[CachePos(Entries, k)] = heap[lookup_[k]]
  BY <1>6 DEF Contents
<1>8. Entries' = Contents(heap, cache_')
  BY <1>1 DEF Entries, Contents
<1> QED BY <1>3, <1>4, <1>5, <1>6, <1>7, <1>8 DEF CacheTouch

\* insert on a known key writes its value and moves its entry to the front.
LEMMA InsertKnownStep ==
  ASSUME Shape, Coherent, NEW k \in Key, NEW v \in Value, insertKnown(k, v)
  PROVE  /\ Shape' /\ Coherent'
         /\ Entries' = CacheInsert(Entries, k, v)
<1> DEFINE c == lookup_[k]
           p == Place(c)
           r == RemoveAt(cache_, p)
<1>1. exists(k) /\ heap' = [heap EXCEPT ![c].value = v] /\ lookup_' = lookup_
      /\ cache_' = Spliced(c)
  BY DEF insertKnown
<1>2. /\ heap \in [Cell -> Entry \cup {Absent}] /\ cache_ \in Seq(Cell)
      /\ lookup_ \in [Key -> Cell \cup {Absent}] /\ ToSet(cache_) \subseteq Cell
  BY ElementOfSeq, LenProperties DEF Shape, ToSet
<1>3. Linked(heap, ToSet(cache_), lookup_) /\ IsInjective(cache_)
  BY CoherentIsLinked
<1>4. c \in ToSet(cache_) /\ heap[c].key = k
  BY <1>1, <1>3 DEF Linked, exists
<1>5. /\ [heap[c] EXCEPT !.value = v] \in Entry
      /\ [heap[c] EXCEPT !.value = v] = [key |-> k, value |-> v]
      /\ Linked(heap', ToSet(cache_), lookup_)
  <2> HIDE DEF c
  <2>1. /\ [heap[c] EXCEPT !.value = v] \in Entry
        /\ [heap[c] EXCEPT !.value = v] = [key |-> heap[c].key, value |-> v]
        /\ Linked([heap EXCEPT ![c].value = v], ToSet(cache_), lookup_)
    BY <1>2, <1>3, <1>4, LinkedWrite
  <2> QED BY <1>1, <1>4, <2>1
<1>6. /\ heap' \in [Cell -> Entry \cup {Absent}]
      /\ heap'[c] = [key |-> k, value |-> v]
      /\ \A d \in Cell : d # c => heap'[d] = heap[d]
  BY <1>1, <1>2, <1>4, <1>5
<1>7. /\ cache_' \in Seq(Cell)
      /\ Len(cache_') = Len(cache_)
      /\ ToSet(cache_') = ToSet(cache_)
      /\ IsInjective(cache_')
      /\ Contents(heap', cache_') =
           Cons(heap'[c], RemoveAt(Contents(heap', cache_), p))
  BY <1>1, SplicedProperties
<1>8. Shape'
  BY <1>1, <1>6, <1>7 DEF Shape
<1>9. Coherent'
  BY <1>1, <1>5, <1>7, CoherentNextIsLinked
<1>10. /\ Entries = Contents(heap, cache_)
       /\ CacheExists(Entries, k)
       /\ p \in DOMAIN cache_ /\ cache_[p] = c
       /\ CachePos(Entries, k) = p
  BY <1>1, ContainersAgree
<1>11. RemoveAt(Contents(heap', cache_), p) = RemoveAt(Contents(heap, cache_), p)
  <2> HIDE DEF c, p
  <2>1. ToSet(r) = ToSet(cache_) \ {c} /\ r \in Seq(Cell)
    BY <1>2, <1>3, <1>10, InjectiveRemoveAt, RemoveAtProperties
  <2>2. Contents(heap', r) = Contents(heap, r)
    BY <1>2, <1>6, <2>1, ContentsFrame
  <2>4. cache_ \in Seq(Cell) /\ p \in DOMAIN cache_
    BY <1>2, <1>10
  <2>5. Contents(heap', r) = RemoveAt(Contents(heap', cache_), p)
    BY <2>4, ContentsRemoveAt
  <2>6. Contents(heap, r) = RemoveAt(Contents(heap, cache_), p)
    BY <2>4, ContentsRemoveAt
  <2> QED BY <2>2, <2>5, <2>6
<1>12. Entries' = Contents(heap', cache_')
  BY DEF Entries, Contents
<1> HIDE DEF c, p
<1>13. CacheInsert(Entries, k, v) =
         Cons([key |-> k, value |-> v], RemoveAt(Contents(heap, cache_), p))
  BY <1>10 DEF CacheInsert, CacheRemove
<1> QED BY <1>6, <1>7, <1>8, <1>9, <1>11, <1>12, <1>13

\* The free cells and the map without a cell and without the key it holds.
ErasedHeap(c) == [heap EXCEPT ![c] = Absent]
ErasedLookup(c) == [lookup_ EXCEPT ![heap[c].key] = Absent]

\* Erasing one place of the list, the cell it names and the map entry of the
\* key the cell holds keeps the rest linked and in its order.
LEMMA EraseProperties ==
  ASSUME Shape, Coherent, NEW p \in DOMAIN cache_
  PROVE  /\ ErasedHeap(cache_[p]) \in [Cell -> Entry \cup {Absent}]
         /\ RemoveAt(cache_, p) \in Seq(Cell)
         /\ Len(RemoveAt(cache_, p)) = Len(cache_) - 1
         /\ ErasedLookup(cache_[p]) \in [Key -> Cell \cup {Absent}]
         /\ Linked(ErasedHeap(cache_[p]), ToSet(RemoveAt(cache_, p)),
                   ErasedLookup(cache_[p]))
         /\ IsInjective(RemoveAt(cache_, p))
         /\ Contents(ErasedHeap(cache_[p]), RemoveAt(cache_, p)) =
              RemoveAt(Entries, p)
         /\ \A k \in Key : lookup_[k] = Absent =>
                           ErasedLookup(cache_[p])[k] = Absent
<1> DEFINE c == cache_[p]
           h == ErasedHeap(c)
           q == RemoveAt(cache_, p)
           l == ErasedLookup(c)
<1>0. /\ h = [heap EXCEPT ![c] = Absent]
      /\ l = [lookup_ EXCEPT ![heap[c].key] = Absent]
  BY DEF ErasedHeap, ErasedLookup
<1> HIDE DEF h, l
<1>1. /\ heap \in [Cell -> Entry \cup {Absent}] /\ cache_ \in Seq(Cell)
      /\ lookup_ \in [Key -> Cell \cup {Absent}] /\ ToSet(cache_) \subseteq Cell
  BY ElementOfSeq, LenProperties DEF Shape, ToSet
<1>2. Linked(heap, ToSet(cache_), lookup_) /\ IsInjective(cache_)
  BY CoherentIsLinked
<1>3. c \in ToSet(cache_) /\ c \in Cell
  BY <1>1 DEF ToSet
<1>4. heap[c] \in Entry /\ Linked(h, ToSet(cache_) \ {c}, l)
  BY <1>0, <1>1, <1>2, <1>3, LinkedErase
<1>5. /\ h \in [Cell -> Entry \cup {Absent}]
      /\ \A d \in Cell : d # c => h[d] = heap[d]
  BY <1>0, <1>1, <1>3
<1>6. /\ l \in [Key -> Cell \cup {Absent}]
      /\ \A k \in Key : lookup_[k] = Absent => l[k] = Absent
  <2>1. heap[c].key \in Key
    BY <1>4 DEF Entry
  <2> QED BY <1>0, <1>1, <2>1
<1>7. cache_ \in Seq(Cell)
  BY <1>1
<1>8. q \in Seq(Cell) /\ Len(q) = Len(cache_) - 1
  BY <1>7, RemoveAtProperties
<1>9. IsInjective(q) /\ ToSet(q) = ToSet(cache_) \ {c}
  BY <1>2, <1>7, InjectiveRemoveAt
<1>10. Contents(heap, q) = RemoveAt(Contents(heap, cache_), p)
  BY <1>7, ContentsRemoveAt
<1>11. Contents(h, q) = Contents(heap, q)
  <2>1. \A d \in ToSet(q) : h[d] = heap[d]
    BY <1>1, <1>5, <1>9
  <2> QED BY <2>1, ContentsFrame
<1>12. Entries = Contents(heap, cache_)
  BY DEF Entries, Contents
<1>13. Linked(h, ToSet(q), l)
  BY <1>4, <1>9
<1> QED BY <1>5, <1>6, <1>8, <1>9, <1>10, <1>11, <1>12, <1>13 DEF h, l

\* remove takes out the entry of its key, if there is one.
LEMMA RemoveStep ==
  ASSUME Shape, Coherent, NEW k \in Key, remove(k)
  PROVE  /\ Shape' /\ Coherent'
         /\ Entries' = CacheRemove(Entries, k)
<1>1. CASE exists(k)
  <2> DEFINE c == lookup_[k]
             p == Place(c)
  <2>1. /\ cache_' = RemoveAt(cache_, p)
        /\ heap' = [heap EXCEPT ![c] = Absent]
        /\ lookup_' = [lookup_ EXCEPT ![k] = Absent]
    BY <1>1 DEF remove
  <2>2. /\ p \in DOMAIN cache_ /\ c = cache_[p]
        /\ CacheExists(Entries, k) /\ CachePos(Entries, k) = p
    BY <1>1, ContainersAgree
  <2>3. heap[c].key = k
    BY <1>1 DEF Coherent
  <2> HIDE DEF c, p
  <2>4. lookup_' = [lookup_ EXCEPT ![heap[c].key] = Absent]
    BY <2>1, <2>3
  <2>5. /\ heap' \in [Cell -> Entry \cup {Absent}]
        /\ cache_' \in Seq(Cell) /\ Len(cache_') = Len(cache_) - 1
        /\ lookup_' \in [Key -> Cell \cup {Absent}]
        /\ Linked(heap', ToSet(cache_'), lookup_') /\ IsInjective(cache_')
        /\ Contents(heap', cache_') = RemoveAt(Entries, p)
    <3>1. heap' = ErasedHeap(cache_[p]) /\ lookup_' = ErasedLookup(cache_[p])
      BY <2>1, <2>2, <2>4 DEF ErasedHeap, ErasedLookup
    <3> QED BY <2>1, <2>2, <3>1, EraseProperties
  <2>6. Shape'
    <3>1. Len(cache_) \in Nat /\ Len(cache_) <= MaxCacheSize
      BY LenProperties DEF Shape
    <3>2. Len(cache_') <= MaxCacheSize
      BY <2>5, <3>1, CacheSizeAssumption
    <3> QED BY <2>5, <3>2 DEF Shape
  <2>7. Coherent'
    BY <2>5, CoherentNextIsLinked
  <2>8. Entries' = Contents(heap', cache_')
    BY DEF Entries, Contents
  <2>9. CacheRemove(Entries, k) = RemoveAt(Entries, p)
    BY <2>2 DEF CacheRemove
  <2> QED BY <2>5, <2>6, <2>7, <2>8, <2>9
<1>2. CASE ~exists(k)
  <2>1. UNCHANGED cacheVars
    BY <1>2 DEF remove
  <2>2. ~CacheExists(Entries, k)
    BY <1>2, ContainersAgree
  <2>3. Shape'
    BY <2>1 DEF Shape, cacheVars
  <2>4. Coherent'
    BY <2>1 DEF Coherent, exists, cacheVars
  <2>5. Entries' = Entries
    BY <2>1 DEF Entries, cacheVars
  <2> QED BY <2>2, <2>3, <2>4, <2>5 DEF CacheRemove
<1> QED BY <1>1, <1>2

\* The eviction of insert makes room by giving up the last entry of a full
\* list, and only that: list, map and free cells stay linked.
LEMMA EvictedProperties ==
  ASSUME Shape, Coherent
  PROVE  /\ Evicted.heap \in [Cell -> Entry \cup {Absent}]
         /\ Evicted.list \in Seq(Cell) /\ Len(Evicted.list) + 1 <= MaxCacheSize
         /\ Evicted.lookup \in [Key -> Cell \cup {Absent}]
         /\ Linked(Evicted.heap, ToSet(Evicted.list), Evicted.lookup)
         /\ IsInjective(Evicted.list)
         /\ Contents(Evicted.heap, Evicted.list) = CacheEvict(Entries)
         /\ \A k \in Key : lookup_[k] = Absent => Evicted.lookup[k] = Absent
<1>1. size = Len(cache_) /\ Entries = Contents(heap, cache_)
  BY ContainersAgree
<1>2. /\ cache_ \in Seq(Cell)
      /\ Len(cache_) \in Nat /\ Len(cache_) <= MaxCacheSize
      /\ MaxCacheSize \in Nat /\ MaxCacheSize >= 1
  BY LenProperties, CacheSizeAssumption DEF Shape
<1>3. /\ Entries \in Seq({heap[c] : c \in Cell})
      /\ Len(Entries) = Len(cache_)
  BY <1>1, <1>2, ContentsType
<1>4. CASE Len(cache_) + 1 > MaxCacheSize
  <2> DEFINE n == Len(cache_)
             c == Last(cache_)
             h == ErasedHeap(c)
             l == ErasedLookup(c)
  <2>1. n > 0
    BY <1>2, <1>4
  <2>2. n \in DOMAIN cache_ /\ Front(cache_) = RemoveAt(cache_, n)
    BY <1>2, <2>1, FrontIsRemoveAt
  <2>3. Front(Entries) = RemoveAt(Entries, n)
    BY <1>3, <2>1, FrontIsRemoveAt
  <2>4. c = cache_[n]
    BY DEF Last
  <2>5. Evicted = [heap |-> h, list |-> Front(cache_), lookup |-> l]
    BY <1>1, <1>4 DEF Evicted, ErasedHeap, ErasedLookup
  <2> HIDE DEF n, c
  <2>6. h = ErasedHeap(cache_[n]) /\ l = ErasedLookup(cache_[n])
    BY <2>4
  <2> HIDE DEF h, l
  <2>7. /\ h \in [Cell -> Entry \cup {Absent}]
        /\ Front(cache_) \in Seq(Cell) /\ Len(Front(cache_)) = Len(cache_) - 1
        /\ l \in [Key -> Cell \cup {Absent}]
        /\ Linked(h, ToSet(Front(cache_)), l) /\ IsInjective(Front(cache_))
        /\ Contents(h, Front(cache_)) = RemoveAt(Entries, n)
        /\ \A k \in Key : lookup_[k] = Absent => l[k] = Absent
    BY <2>2, <2>4, <2>6, EraseProperties
  <2>8. CacheEvict(Entries) = RemoveAt(Entries, n)
    BY <1>3, <1>4, <2>3 DEF CacheEvict
  <2>9. Len(Front(cache_)) + 1 <= MaxCacheSize
    BY <1>2, <2>7
  <2>10. /\ Evicted.heap = h /\ Evicted.list = Front(cache_)
         /\ Evicted.lookup = l
    BY <2>5
  <2> QED BY <2>7, <2>8, <2>9, <2>10
<1>5. CASE ~(Len(cache_) + 1 > MaxCacheSize)
  <2>1. /\ Evicted.heap = heap /\ Evicted.list = cache_
        /\ Evicted.lookup = lookup_
    BY <1>1, <1>5 DEF Evicted
  <2>2. CacheEvict(Entries) = Entries
    BY <1>3, <1>5 DEF CacheEvict
  <2>3. Len(cache_) + 1 <= MaxCacheSize
    BY <1>2, <1>5
  <2>4. Linked(heap, ToSet(cache_), lookup_) /\ IsInjective(cache_)
    BY CoherentIsLinked
  <2> QED BY <1>1, <2>1, <2>2, <2>3, <2>4 DEF Shape
<1> QED BY <1>4, <1>5

\* insert of a new key evicts if it must and puts the entry in front.
LEMMA InsertNewStep ==
  ASSUME Shape, Coherent, NEW k \in Key, NEW v \in Value, insertNew(k, v)
  PROVE  /\ Shape' /\ Coherent'
         /\ Entries' = CacheInsert(Entries, k, v)
<1> DEFINE h == Evicted.heap
           q == Evicted.list
           l == Evicted.lookup
           x == [key |-> k, value |-> v]
<1>1. PICK c \in Cell : /\ h[c] = Absent
                       /\ heap' = [h EXCEPT ![c] = x]
                       /\ cache_' = Cons(c, q)
                       /\ lookup_' = [l EXCEPT ![k] = c]
  BY DEF insertNew
<1>2. /\ h \in [Cell -> Entry \cup {Absent}]
      /\ q \in Seq(Cell) /\ Len(q) + 1 <= MaxCacheSize
      /\ l \in [Key -> Cell \cup {Absent}]
      /\ Linked(h, ToSet(q), l) /\ IsInjective(q)
      /\ Contents(h, q) = CacheEvict(Entries)
      /\ \A i \in Key : lookup_[i] = Absent => l[i] = Absent
  BY EvictedProperties
<1>3. ~exists(k)
  BY DEF insertNew
<1>4. ~CacheExists(Entries, k)
  BY <1>3, ContainersAgree
<1>5. x \in Entry /\ x.key = k /\ l[x.key] = Absent
  BY <1>2, <1>3 DEF Entry, exists
<1> HIDE DEF h, q, l, x
<1>6. q \in Seq(Cell) /\ ToSet(q) \subseteq Cell /\ c \notin ToSet(q)
  <2>1. ToSet(q) \subseteq Cell
    BY <1>2, ElementOfSeq, LenProperties DEF ToSet
  <2> QED BY <1>1, <1>2, <2>1 DEF Linked
<1>7. /\ cache_' \in Seq(Cell) /\ Len(cache_') = Len(q) + 1
      /\ ToSet(cache_') = {c} \cup ToSet(q)
  BY <1>1, <1>6, ConsProperties
<1>8. IsInjective(cache_')
  BY <1>1, <1>2, <1>6, InjectiveCons
<1>9. Linked(heap', ToSet(cache_'), lookup_')
  <2>1. Linked([h EXCEPT ![c] = x], ToSet(q) \cup {c}, [l EXCEPT ![x.key] = c])
    BY <1>1, <1>2, <1>5, <1>6, LinkedAdd
  <2>2. ToSet(cache_') = ToSet(q) \cup {c}
    BY <1>7
  <2> QED BY <1>1, <1>5, <2>1, <2>2
<1>10. Shape'
  <2>1. heap' \in [Cell -> Entry \cup {Absent}]
    BY <1>1, <1>2, <1>5
  <2>2. lookup_' \in [Key -> Cell \cup {Absent}]
    BY <1>1, <1>2
  <2> QED BY <1>2, <1>7, <2>1, <2>2 DEF Shape
<1>11. Coherent'
  BY <1>8, <1>9, CoherentNextIsLinked
<1>12. Entries' = Cons(x, CacheEvict(Entries))
  <2>1. Entries' = Contents(heap', cache_')
    BY DEF Entries, Contents
  <2>2. Contents(heap', Cons(c, q)) = Cons(heap'[c], Contents(heap', q))
    BY <1>6, ContentsCons
  <2>3. heap'[c] = x /\ \A d \in Cell : d # c => heap'[d] = h[d]
    BY <1>1, <1>2
  <2>4. \A d \in ToSet(q) : heap'[d] = h[d]
    BY <1>6, <2>3
  <2>5. Contents(heap', q) = Contents(h, q)
    BY <2>4, ContentsFrame
  <2> QED BY <1>1, <1>2, <2>1, <2>2, <2>3, <2>5
<1>13. CacheInsert(Entries, k, v) = Cons(x, CacheEvict(Entries))
  BY <1>4 DEF CacheInsert, x
<1> QED BY <1>10, <1>11, <1>12, <1>13

\* An empty cache is coherent: the initial state, and what clear assigns.
LEMMA EmptyContainers ==
  ASSUME NEW h, h = [c \in Cell |-> Absent], NEW q, q = <<>>,
         NEW l, l = [k \in Key |-> Absent]
  PROVE  /\ h \in [Cell -> Entry \cup {Absent}]
         /\ q \in Seq(Cell) /\ Len(q) <= MaxCacheSize
         /\ l \in [Key -> Cell \cup {Absent}]
         /\ Linked(h, ToSet(q), l) /\ IsInjective(q)
         /\ Contents(h, q) = <<>>
<1>1. q \in Seq(Cell) /\ Len(q) = 0 /\ DOMAIN q = {}
  OBVIOUS
<1>2. ToSet(q) = {} /\ IsInjective(q)
  BY <1>1 DEF ToSet, IsInjective
<1>3. Linked(h, ToSet(q), l)
  BY <1>2 DEF Linked
<1>4. Len(q) <= MaxCacheSize
  BY <1>1, CacheSizeAssumption
<1>5. Contents(h, q) = <<>>
  BY <1>1 DEF Contents
<1> QED BY <1>1, <1>2, <1>3, <1>4, <1>5

\* clear empties both containers.
LEMMA ClearStep ==
  ASSUME clear
  PROVE  Shape' /\ Coherent' /\ Entries' = <<>>
<1>1. /\ heap' = [c \in Cell |-> Absent] /\ cache_' = <<>>
      /\ lookup_' = [k \in Key |-> Absent]
  BY DEF clear
<1>2. /\ heap' \in [Cell -> Entry \cup {Absent}]
      /\ cache_' \in Seq(Cell) /\ Len(cache_') <= MaxCacheSize
      /\ lookup_' \in [Key -> Cell \cup {Absent}]
      /\ Linked(heap', ToSet(cache_'), lookup_') /\ IsInjective(cache_')
      /\ Contents(heap', cache_') = <<>>
  BY <1>1, EmptyContainers
<1>3. Shape'
  BY <1>2 DEF Shape
<1>4. Coherent'
  BY <1>2, CoherentNextIsLinked
<1>5. Entries' = Contents(heap', cache_')
  BY DEF Entries, Contents
<1> QED BY <1>2, <1>3, <1>4, <1>5

-----------------------------------------------------------------------------
(* The theorems                                                            *)

CacheInv == Shape /\ Coherent

\* Both containers of a new cache are empty.
LEMMA CacheInvInit == Init => CacheInv
<1> SUFFICES ASSUME Init PROVE CacheInv
  OBVIOUS
<1>1. /\ heap = [c \in Cell |-> Absent] /\ cache_ = <<>>
      /\ lookup_ = [k \in Key |-> Absent]
  BY DEF Init
<1>2. /\ heap \in [Cell -> Entry \cup {Absent}]
      /\ cache_ \in Seq(Cell) /\ Len(cache_) <= MaxCacheSize
      /\ lookup_ \in [Key -> Cell \cup {Absent}]
      /\ Linked(heap, ToSet(cache_), lookup_) /\ IsInjective(cache_)
  BY <1>1, EmptyContainers
<1> QED BY <1>2, CoherentIsLinked DEF CacheInv, Shape

\* No operation of the cache breaks the invariant.
LEMMA CacheInvStep == CacheInv /\ [Next]_cacheVars => CacheInv'
<1> SUFFICES ASSUME CacheInv, [Next]_cacheVars PROVE CacheInv'
  OBVIOUS
<1> USE DEF CacheInv
<1>1. ASSUME NEW k \in Key, get(k) PROVE CacheInv'
  BY <1>1, GetStep
<1>2. ASSUME NEW k \in Key, remove(k) PROVE CacheInv'
  BY <1>2, RemoveStep
<1>3. ASSUME NEW k \in Key, NEW v \in Value, insertNew(k, v) PROVE CacheInv'
  BY <1>3, InsertNewStep
<1>4. ASSUME NEW k \in Key, NEW v \in Value, insertKnown(k, v)
      PROVE  CacheInv'
  BY <1>4, InsertKnownStep
<1>5. CASE clear
  BY <1>5, ClearStep
<1>6. CASE UNCHANGED cacheVars
  BY <1>6 DEF cacheVars, Shape, Coherent, exists
<1> QED BY <1>1, <1>2, <1>3, <1>4, <1>5, <1>6 DEF Next

\* The list and the hash map of LocationCache describe the same entries in
\* every reachable state: no iterator of the map dangles or points at another
\* key's entry, whatever cells the allocator reuses.
THEOREM ContainersCoherent == Spec => []Coherent
<1>1. CacheInv => Coherent
  BY DEF CacheInv
<1> QED BY <1>1, CacheInvInit, CacheInvStep, PTL DEF Spec

\* The hash map never holds more than max_size_ keys.
THEOREM ContainersBounded == Spec => [](size <= MaxCacheSize)
<1>1. CacheInv => size <= MaxCacheSize
  BY ContainersAgree DEF CacheInv, Shape
<1> QED BY <1>1, CacheInvInit, CacheInvStep, PTL DEF Spec

\* The instance of LRUCache uses the operators of LocData.
LEMMA LRUOperators ==
  ASSUME NEW c, NEW k, NEW v
  PROVE  /\ LRU!CacheExists(c, k) <=> CacheExists(c, k)
         /\ LRU!CacheTouch(c, k) = CacheTouch(c, k)
         /\ LRU!CacheRemove(c, k) = CacheRemove(c, k)
         /\ LRU!CacheInsert(c, k, v) = CacheInsert(c, k, v)
<1>1. \A x, q : LRU!Cons(x, q) = Cons(x, q)
  BY DEF LRU!Cons, Cons
<1>2. \A q, i : LRU!RemoveAt(q, i) = RemoveAt(q, i)
  BY DEF LRU!RemoveAt, RemoveAt
<1>3. LRU!Front(c) = Front(c)
  BY DEF LRU!Front, Front
<1>4. LRU!CacheExists(c, k) <=> CacheExists(c, k)
  BY DEF LRU!CacheExists, LRU!CacheKeys, CacheExists, CacheKeys
<1>5. LRU!CachePos(c, k) = CachePos(c, k)
  BY DEF LRU!CachePos, CachePos
<1>6. LRU!CacheTouch(c, k) = CacheTouch(c, k)
  BY <1>1, <1>2, <1>5 DEF LRU!CacheTouch, CacheTouch
<1>7. LRU!CacheRemove(c, k) = CacheRemove(c, k)
  BY <1>2, <1>4, <1>5 DEF LRU!CacheRemove, CacheRemove
<1>8. LRU!CacheEvict(c) = CacheEvict(c)
  BY <1>3 DEF LRU!CacheEvict, CacheEvict
<1>9. LRU!CacheInsert(c, k, v) = CacheInsert(c, k, v)
  BY <1>1, <1>4, <1>7, <1>8 DEF LRU!CacheInsert, CacheInsert
<1> QED BY <1>4, <1>6, <1>7, <1>9

\* Every step of the containers is a step of the LRU list or leaves it alone.
LEMMA LRUStep ==
  CacheInv /\ [Next]_cacheVars => [LRU!Next]_Entries
<1> SUFFICES ASSUME CacheInv, [Next]_cacheVars
             PROVE  LRU!Next \/ Entries' = Entries
  OBVIOUS
<1> USE DEF CacheInv
<1>1. ASSUME NEW k \in Key, get(k) PROVE LRU!Get(k)
  <2>1. CacheExists(Entries, k) /\ Entries' = CacheTouch(Entries, k)
    BY <1>1, GetStep
  <2> QED BY <2>1, LRUOperators DEF LRU!Get
<1>2. ASSUME NEW k \in Key, remove(k) PROVE LRU!Discard(k)
  <2>1. Entries' = CacheRemove(Entries, k)
    BY <1>2, RemoveStep
  <2> QED BY <2>1, LRUOperators DEF LRU!Discard
<1>3. ASSUME NEW k \in Key, NEW v \in Value,
             insertNew(k, v) \/ insertKnown(k, v)
      PROVE  LRU!Insert(k, v)
  <2>1. Entries' = CacheInsert(Entries, k, v)
    BY <1>3, InsertNewStep, InsertKnownStep
  <2> QED BY <2>1, LRUOperators DEF LRU!Insert
<1>4. CASE clear
  BY <1>4, ClearStep DEF LRU!Next, LRU!Clear
<1>5. CASE UNCHANGED cacheVars
  BY <1>5 DEF cacheVars, Entries
<1> QED BY <1>1, <1>2, <1>3, <1>4, <1>5 DEF Next, LRU!Next

\* The list and the hash map together implement the LRU list that the model of
\* the coordinator uses: get and re-insert promote, overflow evicts the least
\* recently used entry and no other, and the value kept is the last inserted.
THEOREM ContainersImplementLRU == Spec => ImplementsLRU
<1>1. Init => LRU!Init
  <2> SUFFICES ASSUME Init PROVE Entries = <<>>
    BY DEF LRU!Init
  <2>1. heap = [c \in Cell |-> Absent] /\ cache_ = <<>>
    BY DEF Init
  <2> QED BY <2>1 DEF Entries
<1> QED BY <1>1, CacheInvInit, CacheInvStep, LRUStep, PTL
        DEF Spec, ImplementsLRU, LRU!Spec

=============================================================================
