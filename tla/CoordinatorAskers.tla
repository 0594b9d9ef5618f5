------------------------- MODULE CoordinatorAskers -------------------------
(***************************************************************************)
(* Eager refresh, for every instance: over ordered channels and with paced *)
(* moves, the last the home has told a rank it has answered is what the    *)
(* home's directory says (AskersFollow), so that the cached records agree  *)
(* with the directory once nothing is under way (AskersConverge).  Unlike  *)
(* the other invariants this one depends on the order of the messages in a *)
(* channel, so the proof starts from what sending and taking a message     *)
(* does to the last word on it.                                            *)
(***************************************************************************)
EXTENDS CoordinatorSafety

-----------------------------------------------------------------------------
(* The last word on a channel                                              *)

\* Channel p says about x whatever channel q said.
Keeps(q, p, x) ==
  /\ \A d : LastWord(q, x, d) => LastWord(p, x, d)
  /\ Silent(q, x) => Silent(p, x)

\* Sending a message that tells nothing of x leaves the last word about x.
LEMMA KeepsAppend ==
  ASSUME NEW S, NEW q \in Seq(S), NEW m \in S, NEW x, ~Tells(m, x)
  PROVE  Keeps(q, Append(q, m), x)
<1> DEFINE p == Append(q, m)
<1>1. /\ Len(q) \in Nat /\ DOMAIN q = 1..Len(q)
      /\ p \in Seq(S) /\ Len(p) = Len(q) + 1
      /\ \A i \in 1..Len(q) : p[i] = q[i]
      /\ p[Len(q) + 1] = m
  BY LenProperties, AppendProperties
<1>2. DOMAIN p = 1..(Len(q) + 1)
  BY <1>1, LenProperties
<1> HIDE DEF p
<1>3. \A j \in DOMAIN p : (j \in DOMAIN q /\ p[j] = q[j]) \/ ~Tells(p[j], x)
  BY <1>1, <1>2
<1>4. ASSUME NEW d, LastWord(q, x, d) PROVE LastWord(p, x, d)
  <2>1. PICK i \in DOMAIN q : /\ Tells(q[i], x) /\ q[i].node = d
                              /\ \A j \in DOMAIN q : j > i => ~Tells(q[j], x)
    BY <1>4 DEF LastWord
  <2>2. i \in DOMAIN p /\ p[i] = q[i]
    BY <1>1, <1>2
  <2>3. \A j \in DOMAIN p : j > i => ~Tells(p[j], x)
    BY <1>3, <2>1
  <2> QED BY <2>1, <2>2, <2>3 DEF LastWord
<1>5. Silent(q, x) => Silent(p, x)
  BY <1>3 DEF Silent
<1> QED BY <1>4, <1>5 DEF Keeps, p

\* A message that tells where x is becomes the last word when it is sent.
LEMMA AppendTells ==
  ASSUME NEW S, NEW q \in Seq(S), NEW m \in S, NEW x, Tells(m, x)
  PROVE  LastWord(Append(q, m), x, m.node)
<1> DEFINE p == Append(q, m)
<1>1. /\ Len(q) \in Nat
      /\ p \in Seq(S) /\ Len(p) = Len(q) + 1
      /\ p[Len(q) + 1] = m
  BY LenProperties, AppendProperties
<1>2. DOMAIN p = 1..(Len(q) + 1)
  BY <1>1, LenProperties
<1> HIDE DEF p
<1>3. Len(q) + 1 \in DOMAIN p /\ \A j \in DOMAIN p : ~(j > Len(q) + 1)
  BY <1>1, <1>2
<1> QED BY <1>1, <1>3 DEF LastWord, p

\* Taking a message that tells nothing of x leaves the last word about x.
LEMMA KeepsRemoveAt ==
  ASSUME NEW S, NEW q \in Seq(S), NEW k \in DOMAIN q, NEW x, ~Tells(q[k], x)
  PROVE  Keeps(q, RemoveAt(q, k), x)
<1> DEFINE p == RemoveAt(q, k)
<1>1. /\ Len(q) \in Nat /\ DOMAIN q = 1..Len(q) /\ k \in 1..Len(q)
      /\ p \in Seq(S) /\ Len(p) = Len(q) - 1
      /\ \A j \in 1..(Len(q) - 1) : p[j] = IF j < k THEN q[j] ELSE q[j + 1]
  BY LenProperties, RemoveAtProperties
<1>2. DOMAIN p = 1..(Len(q) - 1)
  BY <1>1, LenProperties
<1> HIDE DEF p
<1> DEFINE old(j) == IF j < k THEN j ELSE j + 1
<1>3. \A j \in DOMAIN p : old(j) \in DOMAIN q /\ p[j] = q[old(j)]
  BY <1>1, <1>2
<1>4. ASSUME NEW d, LastWord(q, x, d) PROVE LastWord(p, x, d)
  <2>1. PICK i \in DOMAIN q : /\ Tells(q[i], x) /\ q[i].node = d
                              /\ \A j \in DOMAIN q : j > i => ~Tells(q[j], x)
    BY <1>4 DEF LastWord
  <2>2. i # k /\ i \in 1..Len(q)
    BY <1>1, <2>1
  <2>3. PICK h \in DOMAIN p : old(h) = i
    <3>1. CASE i < k
      BY <1>1, <1>2, <2>2, <3>1
    <3>2. CASE i > k
      <4>1. i - 1 \in DOMAIN p /\ old(i - 1) = i
        BY <1>1, <1>2, <2>2, <3>2
      <4> QED BY <4>1
    <3> QED BY <1>1, <2>2, <3>1, <3>2
  <2>4. \A j \in DOMAIN p : j > h => old(j) > i
    BY <1>1, <1>2, <2>3
  <2> HIDE DEF old
  <2>5. \A j \in DOMAIN p : j > h => ~Tells(p[j], x)
    BY <1>3, <2>1, <2>4
  <2>6. Tells(p[h], x) /\ p[h].node = d
    BY <1>3, <2>1, <2>3
  <2> QED BY <2>5, <2>6 DEF LastWord
<1>5. Silent(q, x) => Silent(p, x)
  <2> HIDE DEF old
  <2> QED BY <1>3 DEF Silent
<1> QED BY <1>4, <1>5 DEF Keeps, p

\* Taking the first message of a channel: a later word about x is still there,
\* or the message taken was the last word.
LEMMA HeadTaken ==
  ASSUME NEW S, NEW q \in Seq(S), 1 \in DOMAIN q, NEW x, NEW d,
         LastWord(q, x, d)
  PROVE  \/ LastWord(RemoveAt(q, 1), x, d)
         \/ Silent(RemoveAt(q, 1), x) /\ q[1].node = d
<1> DEFINE p == RemoveAt(q, 1)
<1>1. /\ Len(q) \in Nat /\ DOMAIN q = 1..Len(q) /\ 1 \in 1..Len(q)
      /\ p \in Seq(S) /\ Len(p) = Len(q) - 1
      /\ \A j \in 1..(Len(q) - 1) : p[j] = IF j < 1 THEN q[j] ELSE q[j + 1]
  BY LenProperties, RemoveAtProperties
<1>2. DOMAIN p = 1..(Len(q) - 1)
  BY <1>1, LenProperties
<1> HIDE DEF p
<1>3. \A j \in DOMAIN p : j + 1 \in DOMAIN q /\ p[j] = q[j + 1]
  BY <1>1, <1>2
<1>4. PICK i \in DOMAIN q : /\ Tells(q[i], x) /\ q[i].node = d
                            /\ \A j \in DOMAIN q : j > i => ~Tells(q[j], x)
  BY DEF LastWord
<1>5. CASE i = 1
  <2>1. \A j \in DOMAIN p : j + 1 > i
    BY <1>1, <1>2, <1>5
  <2>2. Silent(p, x)
    BY <1>3, <1>4, <2>1 DEF Silent
  <2> QED BY <1>4, <1>5, <2>2 DEF p
<1>6. CASE i # 1
  <2>1. i - 1 \in DOMAIN p /\ (i - 1) + 1 = i
    BY <1>1, <1>2, <1>6
  <2>2. p[i - 1] = q[i]
    BY <1>3, <2>1
  <2>3. \A j \in DOMAIN p : j > i - 1 => j + 1 > i
    BY <1>1, <1>2
  <2>4. \A j \in DOMAIN p : j > i - 1 => ~Tells(p[j], x)
    BY <1>3, <1>4, <2>3
  <2>5. LastWord(p, x, d)
    BY <1>4, <2>1, <2>2, <2>4 DEF LastWord
  <2> QED BY <2>5 DEF p
<1> QED BY <1>5, <1>6

\* The responses of announceLocation, k of them, on one channel.
LEMMA RepeatTells ==
  ASSUME NEW q \in Seq(Message), NEW m \in Message, NEW k \in Nat, NEW x
  PROVE  /\ k = 0 \/ ~Tells(m, x) => Keeps(q, q \o Repeat(m, k), x)
         /\ k > 0 /\ Tells(m, x) => LastWord(q \o Repeat(m, k), x, m.node)
<1> DEFINE w == Repeat(m, k)
           p == q \o w
<1>1. w \in Seq(Message) /\ Len(w) = k /\ \A j \in 1..k : w[j] = m
  <2>1. w \in Seq(Message)
    BY RepeatProperties
  <2>2. DOMAIN w = 1..k /\ \A j \in 1..k : w[j] = m
    BY DEF Repeat
  <2>3. Len(w) = k
    BY <2>1, <2>2, LenProperties
  <2> QED BY <2>1, <2>2, <2>3
<1> HIDE DEF w
<1>2. /\ Len(q) \in Nat /\ DOMAIN q = 1..Len(q)
      /\ p \in Seq(Message) /\ Len(p) = Len(q) + k
      /\ \A j \in 1..(Len(q) + k) :
           p[j] = IF j <= Len(q) THEN q[j] ELSE w[j - Len(q)]
  BY <1>1, LenProperties, ConcatProperties
<1>3. DOMAIN p = 1..(Len(q) + k)
  BY <1>2, LenProperties
<1> HIDE DEF p
<1>4. /\ \A j \in DOMAIN q : j \in DOMAIN p /\ p[j] = q[j]
      /\ \A j \in DOMAIN p : j \in DOMAIN q \/ (p[j] = m /\ k > 0)
  <2>1. \A j \in DOMAIN q : j \in DOMAIN p /\ p[j] = q[j]
    BY <1>2, <1>3
  <2>2. ASSUME NEW j \in DOMAIN p, j \notin DOMAIN q
        PROVE  p[j] = m /\ k > 0
    <3>1. ~(j <= Len(q)) /\ j - Len(q) \in 1..k /\ k > 0
      BY <1>2, <1>3, <2>2
    <3>2. p[j] = w[j - Len(q)]
      BY <1>2, <1>3, <3>1
    <3> QED BY <1>1, <3>1, <3>2
  <2> QED BY <2>1, <2>2
<1>5. ASSUME k = 0 \/ ~Tells(m, x) PROVE Keeps(q, p, x)
  <2>1. \A j \in DOMAIN p : (j \in DOMAIN q /\ p[j] = q[j]) \/ ~Tells(p[j], x)
    BY <1>4, <1>5
  <2>2. ASSUME NEW d, LastWord(q, x, d) PROVE LastWord(p, x, d)
    <3>1. PICK i \in DOMAIN q : /\ Tells(q[i], x) /\ q[i].node = d
                                /\ \A j \in DOMAIN q : j > i => ~Tells(q[j], x)
      BY <2>2 DEF LastWord
    <3>2. i \in DOMAIN p /\ p[i] = q[i]
      BY <1>4
    <3>3. \A j \in DOMAIN p : j > i => ~Tells(p[j], x)
      BY <2>1, <3>1
    <3> QED BY <3>1, <3>2, <3>3 DEF LastWord
  <2> QED BY <2>1, <2>2 DEF Keeps, Silent
<1>6. ASSUME k > 0, Tells(m, x) PROVE LastWord(p, x, m.node)
  <2> DEFINE t == Len(q) + k
  <2>1. t \in DOMAIN p /\ t \notin DOMAIN q /\ \A j \in DOMAIN p : ~(j > t)
    BY <1>2, <1>3, <1>6
  <2> HIDE DEF t
  <2>2. p[t] = m
    BY <1>4, <2>1
  <2> QED BY <1>6, <2>1, <2>2 DEF LastWord
<1> QED BY <1>5, <1>6 DEF p, w

\* Two channels that differ by nothing, and two differences in a row.
LEMMA KeepsOrder ==
  /\ \A q, x : Keeps(q, q, x)
  /\ \A p, q, t, x : Keeps(p, q, x) /\ Keeps(q, t, x) => Keeps(p, t, x)
BY DEF Keeps

-----------------------------------------------------------------------------
(* What an action does to the channels and to the cached records           *)

\* Comm::send and the dispatch of a message, channel by channel.
LEMMA SendChannel ==
  ASSUME NEW q \in Channels, NEW s \in Node, NEW d \in Node, NEW m
  PROVE  \A a, b \in Node :
           Send(q, s, d, m)[a][b] = IF a = s /\ b = d THEN Append(q[s][d], m)
                                                      ELSE q[a][b]
BY DEF Send, Channels

LEMMA TakeChannel ==
  ASSUME NEW q \in Channels, NEW s \in Node, NEW d \in Node, NEW i
  PROVE  \A a, b \in Node :
           Take(q, s, d, i)[a][b] = IF a = s /\ b = d THEN RemoveAt(q[s][d], i)
                                                      ELSE q[a][b]
BY DEF Take, Channels

\* announceLocation appends to the channels of the home only.
LEMMA AnnounceChannel ==
  ASSUME NEW n \in Node, NEW e, NEW node, NEW q \in Channels,
         announceLocation(n, e, node, q)
  PROVE  \A a, b \in Node :
           net'[a][b] =
             IF a = n
             THEN q[n][b] \o Repeat(ResolveResponse(e, node), Announced(n, e, b))
             ELSE q[a][b]
<1> DEFINE t(r) == q[n][r] \o Repeat(ResolveResponse(e, node), Announced(n, e, r))
<1>1. net' = [q EXCEPT ![n] = [r \in Node |-> t(r)]]
  BY DEF announceLocation
<1> HIDE DEF t
<1>2. \A a, b \in Node : net'[a][b] = IF a = n THEN t(b) ELSE q[a][b]
  BY <1>1 DEF Channels
<1> QED BY <1>2 DEF t

\* The records rank r has cached.
Memo(r) == ToSet(recs_[r].cache)

\* Rank n stores that e is on node.
Stores(n, e, node) ==
  recs_' = [recs_ EXCEPT ![n] = LookupUpdate(@, e, makeRec(n, node))]

\* recs_.update on rank n replaces the cached record of e, unless e is in the
\* directory of n.
LEMMA MemoStores ==
  ASSUME TypeInv, NEW n \in Node, NEW e \in Entity, NEW node \in Node,
         Stores(n, e, node)
  PROVE  /\ Dir(n, e) = Absent =>
              /\ SameDir
              /\ \A a \in Node : \A y \in Memo(a)' :
                   \/ y \in Memo(a) /\ (a = n => y.key # e)
                   \/ a = n /\ y.key = e /\ y.value.cur_node = node
         /\ Dir(n, e) # Absent => \A a \in Node : Memo(a)' = Memo(a)
<1> DEFINE v == makeRec(n, node)
           l == LookupUpdate(recs_[n], e, v)
<1>1. v \in LocRecord(Node) /\ v.cur_node = node
  BY makeRecType, AbsentRecord
<1>2. recs_' = [recs_ EXCEPT ![n] = l]
  BY DEF Stores
<1>3. WellFormed(recs_[n], Entity, LocRecord(Node))
  BY RecsWellFormed DEF TypeInv
<1> HIDE DEF v
<1>4. DirExists(recs_[n].directory, e) =>
        /\ l.directory = [recs_[n].directory EXCEPT ![e] = v]
        /\ l.cache = recs_[n].cache
  BY <1>1, <1>3, LookupUpdateProperties
<1>5. ~DirExists(recs_[n].directory, e) =>
        /\ l.directory = recs_[n].directory
        /\ CacheKeys(l.cache) \subseteq CacheKeys(recs_[n].cache) \cup {e}
  BY <1>1, <1>3, LookupUpdateProperties
<1>6. ~DirExists(recs_[n].directory, e) =>
        \A y \in ToSet(l.cache) :
          y = [key |-> e, value |-> v] \/ (y \in Memo(n) /\ y.key # e)
  BY <1>1, <1>3, LookupUpdateEntries DEF Memo
<1> HIDE DEF l
<1>7. \A a \in Node : recs_'[a] = IF a = n THEN l ELSE recs_[a]
  BY <1>2, RecsAt DEF TypeInv
<1>8. ASSUME Dir(n, e) = Absent PROVE SameDir
  BY <1>5, <1>7, <1>8 DEF Dir, DirExists, SameDir
<1>9. \A a \in Node : Memo(a)' = IF a = n THEN ToSet(l.cache) ELSE Memo(a)
  BY <1>7 DEF Memo
<1>10. ASSUME Dir(n, e) = Absent, NEW a \in Node, NEW y \in Memo(a)'
       PROVE  \/ y \in Memo(a) /\ (a = n => y.key # e)
              \/ a = n /\ y.key = e /\ y.value.cur_node = node
  BY <1>1, <1>6, <1>9, <1>10 DEF Dir, DirExists
<1>11. ASSUME Dir(n, e) # Absent, NEW a \in Node PROVE Memo(a)' = Memo(a)
  BY <1>4, <1>9, <1>11 DEF Dir, DirExists, Memo
<1> QED BY <1>8, <1>10, <1>11

\* A change of the lookup of one rank that adds no cached record.
LEMMA MemoAt ==
  ASSUME TypeInv, NEW n \in Node, NEW l, recs_' = [recs_ EXCEPT ![n] = l],
         ToSet(l.cache) \subseteq Memo(n)
  PROVE  \A a \in Node : Memo(a)' \subseteq Memo(a)
<1>1. \A a \in Node : recs_'[a] = IF a = n THEN l ELSE recs_[a]
  BY RecsAt DEF TypeInv
<1>2. \A a \in Node : Memo(a)' = IF a = n THEN ToSet(l.cache) ELSE Memo(a)
  BY <1>1 DEF Memo
<1> QED BY <1>2

\* Answering a query, removing, clearing and announcing add no cached record.
LEMMA MemoShrinks ==
  ASSUME TypeInv, NEW n \in Node, NEW e \in Entity,
         \/ recs_' = [recs_ EXCEPT ![n] = AfterAnswer(n, e)]
         \/ isCached(n, e) /\ recs_' = [recs_ EXCEPT ![n] = AfterHit(n, e)]
         \/ recs_' = [recs_ EXCEPT ![n] = LookupRemove(@, e)]
         \/ \E node \in Node : \E q : announceLocation(n, e, node, q)
         \/ recs_' = recs_
  PROVE  \A a \in Node : Memo(a)' \subseteq Memo(a)
<1>1. WellFormed(recs_[n], Entity, LocRecord(Node))
  BY RecsWellFormed DEF TypeInv
<1>2. LookupExists(recs_[n], e) => ToSet(LookupGet(recs_[n], e).cache) = Memo(n)
  BY <1>1, LookupGetEntries DEF Memo
<1>3. CASE recs_' = [recs_ EXCEPT ![n] = AfterAnswer(n, e)]
  <2>1. ToSet(AfterAnswer(n, e).cache) = Memo(n)
    BY <1>2 DEF AfterAnswer, Memo
  <2> QED BY <1>3, <2>1, MemoAt
<1>4. CASE isCached(n, e) /\ recs_' = [recs_ EXCEPT ![n] = AfterHit(n, e)]
  <2>1. ToSet(AfterHit(n, e).cache) = Memo(n)
    BY <1>2, <1>4 DEF AfterHit, isCached, Memo
  <2> QED BY <1>4, <2>1, MemoAt
<1>5. CASE recs_' = [recs_ EXCEPT ![n] = LookupRemove(@, e)]
  <2> DEFINE l == LookupRemove(recs_[n], e)
  <2>1. ToSet(l.cache) \subseteq Memo(n)
    BY <1>1, LookupDropEntries DEF Memo
  <2>2. recs_' = [recs_ EXCEPT ![n] = l]
    BY <1>5
  <2> HIDE DEF l
  <2> QED BY <2>1, <2>2, MemoAt
<1>6. CASE \E node \in Node : \E q : announceLocation(n, e, node, q)
  <2>0. PICK node \in Node : \E q : announceLocation(n, e, node, q)
    BY <1>6
  <2>1. PICK q : announceLocation(n, e, node, q)
    BY <2>0
  <2> DEFINE v == makeRec(n, node)
             l == LookupInsert(recs_[n], n, e, n, v)
  <2>2. v \in LocRecord(Node)
    BY makeRecType
  <2>3. recs_' = [recs_ EXCEPT ![n] = l]
    BY <2>1 DEF announceLocation
  <2> HIDE DEF v
  <2>4. /\ l.directory = [recs_[n].directory EXCEPT ![e] = v]
        /\ l.cache = recs_[n].cache
    BY <1>1, <2>2, LookupInsertHomeProperties
  <2> HIDE DEF l
  <2> QED BY <2>3, <2>4, MemoAt DEF Memo
<1>7. CASE recs_' = recs_
  BY <1>7 DEF Memo
<1> QED BY <1>3, <1>4, <1>5, <1>6, <1>7

\* clearCache empties one cache.
LEMMA MemoClears ==
  ASSUME TypeInv, NEW n \in Node,
         recs_' = [recs_ EXCEPT ![n] = LookupClearCache(@)]
  PROVE  \A a \in Node : Memo(a)' \subseteq Memo(a)
<1> DEFINE l == LookupClearCache(recs_[n])
<1>1. ToSet(l.cache) \subseteq Memo(n)
  BY RecsWellFormed, LookupDropEntries DEF Memo, TypeInv
<1>2. recs_' = [recs_ EXCEPT ![n] = l]
  OBVIOUS
<1> HIDE DEF l
<1> QED BY <1>1, <1>2, MemoAt

\* Taking and sending a message that tells nothing of x, on all channels.
LEMMA TakeKeeps ==
  ASSUME NEW q \in Channels, NEW s \in Node, NEW d \in Node,
         NEW i \in DOMAIN q[s][d], NEW x, ~Tells(q[s][d][i], x)
  PROVE  \A a, b \in Node : Keeps(q[a][b], Take(q, s, d, i)[a][b], x)
<1>1. q[s][d] \in Seq(Message)
  BY DEF Channels
<1>2. Keeps(q[s][d], RemoveAt(q[s][d], i), x)
  BY <1>1, KeepsRemoveAt
<1> QED BY <1>2, TakeChannel, KeepsOrder

LEMMA SendKeeps ==
  ASSUME NEW q \in Channels, NEW s \in Node, NEW d \in Node, NEW m \in Message,
         NEW x, ~Tells(m, x)
  PROVE  \A a, b \in Node : Keeps(q[a][b], Send(q, s, d, m)[a][b], x)
<1>1. q[s][d] \in Seq(Message)
  BY DEF Channels
<1>2. Keeps(q[s][d], Append(q[s][d], m), x)
  BY <1>1, KeepsAppend
<1> QED BY <1>2, SendChannel, KeepsOrder

-----------------------------------------------------------------------------
(* One asker and one entity                                                *)

\* AskersFollow for entity x and rank r.
Follows(x, r) ==
  /\ Asked(Home[x], x, r)
  /\ Dir(Home[x], x) # Absent
  /\ ~UpdateInFlight(x)
  /\ transit[x] = NoNode
  => Believes(r, x, Dir(Home[x], x).cur_node)

\* AskersFollow is Follows for every entity and rank.
LEMMA FollowsView ==
  AskersFollow <=>
    (Ordered /\ Paced => \A x \in Entity, r \in Node : Follows(x, r))
BY DEF AskersFollow, Follows, Asked, Dir, DirExists

\* Rank r is told nothing new of x, and learns nothing new of it.
Undisturbed(x, r) ==
  /\ Keeps(net[Home[x]][r], net'[Home[x]][r], x)
  /\ \A y \in Memo(r)' : y.key = x => y \in Memo(r)

\* Nothing has happened to x that would make the home or its askers change
\* their minds.
Steady(x) ==
  /\ Dir(Home[x], x)' = Dir(Home[x], x)
  /\ UpdateInFlight(x) => UpdateInFlight(x)'
  /\ transit'[x] = NoNode => transit[x] = NoNode

\* An asker that is not disturbed still follows.
LEMMA FollowsKept ==
  ASSUME NEW x \in Entity, NEW r \in Node, Follows(x, r),
         Steady(x), Undisturbed(x, r),
         Asked(Home[x], x, r)' => Asked(Home[x], x, r)
  PROVE  Follows(x, r)'
<1> SUFFICES ASSUME Asked(Home[x], x, r)', Dir(Home[x], x)' # Absent,
                    ~UpdateInFlight(x)', transit'[x] = NoNode
             PROVE  Believes(r, x, Dir(Home[x], x).cur_node)'
  BY DEF Follows
<1> DEFINE d == Dir(Home[x], x).cur_node
<1>1. Believes(r, x, d)
  BY DEF Follows, Steady
<1>2. d' = d
  BY DEF Steady
<1> HIDE DEF d
<1>3. \/ LastWord(net[Home[x]][r], x, d)
      \/ /\ Silent(net[Home[x]][r], x)
         /\ \A y \in Memo(r) : y.key = x => y.value.cur_node = d
  BY <1>1 DEF Believes, Memo
<1>4. \/ LastWord(net'[Home[x]][r], x, d)
      \/ /\ Silent(net'[Home[x]][r], x)
         /\ \A y \in Memo(r)' : y.key = x => y.value.cur_node = d
  BY <1>3 DEF Undisturbed, Keeps
<1>5. Believes(r, x, d)'
  BY <1>2, <1>4 DEF Believes, Memo
<1> QED BY <1>5 DEF d

\* An asker that has just been told what the directory says follows.
LEMMA FollowsTold ==
  ASSUME NEW x \in Entity, NEW r \in Node,
         Dir(Home[x], x)' # Absent =>
           LastWord(net'[Home[x]][r], x, Dir(Home[x], x)'.cur_node)
  PROVE  Follows(x, r)'
BY DEF Follows, Believes

\* The updateHome messages in flight decide UpdateInFlight.
LEMMA SameUpdates ==
  ASSUME NEW x, \A a, b \in Node : \A y :
           y.type = "updateHome" /\ y.id = x =>
             (y \in Msgs(a, b) => y \in Msgs(a, b)')
  PROVE  UpdateInFlight(x) => UpdateInFlight(x)'
BY DEF UpdateInFlight

\* announceLocation on the home of e, from channels q that say what net says:
\* every asker of e gets the new location as the last word.
LEMMA FollowsAnnounce ==
  ASSUME TypeInv, NEW n \in Node, NEW e \in Entity, Home[e] = n,
         NEW node \in Node, NEW q \in Channels,
         announceLocation(n, e, node, q),
         \A x : \A a, b \in Node : Keeps(net[a][b], q[a][b], x),
         \A x \in Entity : x # e =>
           /\ UpdateInFlight(x) => UpdateInFlight(x)'
           /\ transit'[x] = NoNode => transit[x] = NoNode,
         \A x \in Entity, r \in Node : Follows(x, r)
  PROVE  \A x \in Entity, r \in Node : Follows(x, r)'
<1> DEFINE rr == ResolveResponse(e, node)
<1>1. Announces(n, e, node, q)
  BY AnnounceEffect
<1>2. \A a, b \in Node :
        net'[a][b] = IF a = n THEN q[n][b] \o Repeat(rr, Announced(n, e, b))
                              ELSE q[a][b]
  BY AnnounceChannel
<1>3. /\ rr \in Message /\ rr.node = node /\ Tells(rr, e)
      /\ \A x : Tells(rr, x) => x = e
  BY MessageTypes DEF ResolveResponse, Tells
<1> HIDE DEF rr
<1>4. \A b \in Node : q[n][b] \in Seq(Message)
  BY DEF Channels
<1>5. \A b \in Node : /\ Announced(n, e, b) \in Nat
                      /\ Announced(n, e, b) > 0 <=>
                           Asked(n, e, b) \/ Buffered(n, e, b)
  BY AnnouncedType DEF TypeInv, Asked, Buffered
<1>6. ASSUME NEW r \in Node PROVE Follows(e, r)'
  <2>1. CASE Asked(n, e, r) \/ Buffered(n, e, r)
    <3>1. LastWord(q[n][r] \o Repeat(rr, Announced(n, e, r)), e, node)
      BY <1>3, <1>4, <1>5, <2>1, RepeatTells
    <3>2. Dir(n, e)'.cur_node = node
      BY <1>1, AbsentRecord DEF Announces
    <3> QED BY <1>2, <3>1, <3>2, FollowsTold
  <2>2. CASE ~(Asked(n, e, r) \/ Buffered(n, e, r))
    <3>1. ~Asked(n, e, r)'
      BY <1>1, <2>2 DEF Announces
    <3> QED BY <3>1 DEF Follows
  <2> QED BY <2>1, <2>2
<1>7. ASSUME NEW x \in Entity, x # e, NEW r \in Node PROVE Follows(x, r)'
  <2>1. \A b \in Node : Keeps(q[n][b], q[n][b] \o Repeat(rr, Announced(n, e, b)), x)
    BY <1>3, <1>4, <1>5, <1>7, RepeatTells
  <2>2. \A a, b \in Node : Keeps(q[a][b], net'[a][b], x)
    BY <1>2, <2>1, KeepsOrder
  <2>3. \A a, b \in Node : Keeps(net[a][b], net'[a][b], x)
    BY <2>2, KeepsOrder
  <2>4. \A a \in Node : Memo(a)' \subseteq Memo(a)
    BY MemoShrinks
  <2>5. Undisturbed(x, r)
    BY <2>3, <2>4, HomeType DEF Undisturbed
  <2>6. Steady(x) /\ (Asked(Home[x], x, r)' => Asked(Home[x], x, r))
    BY <1>1, <1>7, HomeType DEF Steady, Announces
  <2> QED BY <2>5, <2>6, FollowsKept
<1> QED BY <1>6, <1>7

\* The home answers rank to with w: if w tells where e is, it tells what the
\* directory says, and only such an answer makes a new asker.
LEMMA FollowsAnswer ==
  ASSUME NEW n \in Node, NEW e \in Entity, Home[e] = n, NEW q \in Channels,
         NEW to \in Node, NEW w \in Message, net' = Send(q, n, to, w),
         \A x : \A a, b \in Node : Keeps(net[a][b], q[a][b], x),
         w.id = e,
         Tells(w, e) /\ Dir(n, e) # Absent => w.node = Dir(n, e).cur_node,
         \A a \in Node : Memo(a)' \subseteq Memo(a),
         \A x \in Entity : Steady(x),
         \A x \in Entity, r \in Node :
           Asked(Home[x], x, r)' =>
             Asked(Home[x], x, r) \/ (x = e /\ r = to /\ Tells(w, e)),
         \A x \in Entity, r \in Node : Follows(x, r)
  PROVE  \A x \in Entity, r \in Node : Follows(x, r)'
<1> SUFFICES ASSUME NEW x \in Entity, NEW r \in Node PROVE Follows(x, r)'
  OBVIOUS
<1>1. \A a, b \in Node :
        net'[a][b] = IF a = n /\ b = to THEN Append(q[n][to], w) ELSE q[a][b]
  BY SendChannel
<1>2. CASE x = e /\ r = to /\ Tells(w, e)
  <2>1. q[n][to] \in Seq(Message)
    BY DEF Channels
  <2>2. LastWord(Append(q[n][to], w), e, w.node)
    BY <1>2, <2>1, AppendTells
  <2>3. Dir(n, e)' = Dir(n, e)
    BY DEF Steady
  <2> QED BY <1>1, <1>2, <2>2, <2>3, FollowsTold
<1>3. CASE ~(x = e /\ r = to /\ Tells(w, e))
  <2>1. Tells(w, x) => x = e
    BY DEF Tells
  <2>2. Keeps(q[Home[x]][r], net'[Home[x]][r], x)
    <3>1. CASE Tells(w, x)
      BY <1>1, <1>3, <2>1, <3>1, KeepsOrder, HomeType
    <3>2. CASE ~Tells(w, x)
      BY <3>2, SendKeeps, HomeType
    <3> QED BY <3>1, <3>2
  <2>3. Keeps(net[Home[x]][r], net'[Home[x]][r], x)
    BY <2>2, KeepsOrder, HomeType
  <2>4. Undisturbed(x, r)
    BY <2>3 DEF Undisturbed
  <2> QED BY <1>3, <2>4, FollowsKept
<1> QED BY <1>2, <1>3

\* Rank n handles the first message m from the home of e, which tells where e
\* is: the record it caches is the last word, or a later word is still to come.
LEMMA FollowsLearn ==
  ASSUME TypeInv, Placement, NEW s \in Node, NEW n \in Node,
         1 \in DOMAIN net[s][n], NEW m, m = net[s][n][1],
         NEW e \in Entity, Tells(m, e), NEW node \in Node, node = m.node,
         net' = Take(net, s, n, 1),
         Stores(n, e, node), UNCHANGED <<loc_asks_, transit>>,
         \A x \in Entity, r \in Node : Follows(x, r)
  PROVE  \A x \in Entity, r \in Node : Follows(x, r)'
<1>0. net \in Channels /\ net[s][n] \in Seq(Message)
  BY DEF TypeInv, TypeOK, Channels
<1>1. m \in Msgs(s, n)
  BY <1>0, TakeType DEF Msgs, OnWire
<1>2. s = Home[e] /\ n # s /\ m.id = e /\ m.type # "updateHome"
  BY <1>1 DEF Tells, Placement, Routed, RoutedMsg
<1>3. Dir(n, e) = Absent
  BY <1>2, PlacementView
<1>4. \A a \in Node : \A y \in Memo(a)' :
        \/ y \in Memo(a) /\ (a = n => y.key # e)
        \/ a = n /\ y.key = e /\ y.value.cur_node = m.node
  BY <1>3, MemoStores
<1>5. \A a, b \in Node :
        net'[a][b] = IF a = s /\ b = n THEN RemoveAt(net[s][n], 1) ELSE net[a][b]
  BY <1>0, TakeChannel
<1>6. ASSUME NEW x \in Entity PROVE Steady(x)
  <2>1. Dir(Home[x], x)' = Dir(Home[x], x)
    BY <1>3, MemoStores, HomeType DEF SameDir
  <2>2. \A a, b \in Node : \A y :
          y \in Msgs(a, b) => y \in Msgs(a, b)' \/ y = m
    <3>1. \A a, b \in Node : \A y :
            y \in Msgs(a, b) <=>
              y \in OnWire(net', a, b) \/ (a = s /\ b = n /\ y = m)
      BY TakeEffect
    <3> QED BY <3>1 DEF OnWire, Msgs
  <2>3. UpdateInFlight(x) => UpdateInFlight(x)'
    BY <1>2, <2>2, SameUpdates
  <2> QED BY <2>1, <2>3 DEF Steady
<1>7. \A x \in Entity, r \in Node : Asked(Home[x], x, r)' <=> Asked(Home[x], x, r)
  BY DEF Asked
<1>8. ASSUME NEW x \in Entity, NEW r \in Node, x # e \/ r # n
      PROVE  Follows(x, r)'
  <2>1. Keeps(net[Home[x]][r], net'[Home[x]][r], x)
    <3>1. CASE x # e
      <4>1. ~Tells(m, x)
        BY <1>2, <3>1 DEF Tells
      <4> QED BY <1>0, <4>1, TakeKeeps, HomeType
    <3>2. CASE r # n
      BY <1>5, <3>2, KeepsOrder, HomeType
    <3> QED BY <1>8, <3>1, <3>2
  <2>2. \A y \in Memo(r)' : y.key = x => y \in Memo(r)
    BY <1>4, <1>8
  <2> QED BY <1>6, <1>7, <2>1, <2>2, FollowsKept DEF Undisturbed
<1>9. Follows(e, n)'
  <2> SUFFICES ASSUME Asked(s, e, n)', Dir(s, e)' # Absent,
                      ~UpdateInFlight(e)', transit'[e] = NoNode
               PROVE  Believes(n, e, Dir(s, e).cur_node)'
    BY <1>2 DEF Follows
  <2> DEFINE d == Dir(s, e).cur_node
  <2>1. Believes(n, e, d) /\ d' = d
    BY <1>2, <1>6, <1>7 DEF Follows, Steady
  <2> HIDE DEF d
  <2>2. LastWord(net[s][n], e, d)
    BY <1>2, <2>1 DEF Believes, Silent
  <2>3. \/ LastWord(net'[s][n], e, d)
        \/ Silent(net'[s][n], e) /\ m.node = d
    BY <1>0, <1>5, <2>2, HeadTaken
  <2>4. \A y \in Memo(n)' : y.key = e => y.value.cur_node = m.node
    BY <1>4
  <2>5. Believes(n, e, d)'
    BY <1>2, <2>1, <2>3, <2>4 DEF Believes, Memo
  <2> QED BY <2>5 DEF d
<1> QED BY <1>8, <1>9

\* A step that tells nobody anything and makes no new asker.
LEMMA FollowsFrame ==
  ASSUME \A x \in Entity : Steady(x),
         \A x : \A a, b \in Node : Keeps(net[a][b], net'[a][b], x),
         \A a \in Node : Memo(a)' \subseteq Memo(a),
         \A x \in Entity, r \in Node :
           Asked(Home[x], x, r)' => Asked(Home[x], x, r),
         \A x \in Entity, r \in Node : Follows(x, r)
  PROVE  \A x \in Entity, r \in Node : Follows(x, r)'
<1> SUFFICES ASSUME NEW x \in Entity, NEW r \in Node PROVE Follows(x, r)'
  OBVIOUS
<1>1. Undisturbed(x, r)
  BY HomeType DEF Undisturbed
<1> QED BY <1>1, FollowsKept

-----------------------------------------------------------------------------
(* The actions                                                             *)

\* registerEntity and entityImmigrated: the home announces; elsewhere the
\* updateHome is in flight and the home's askers are about to be refreshed.
LEMMA FollowsRegister ==
  ASSUME TypeInv, NEW n \in Node, NEW e \in Entity, RegisterHere(n, e),
         \A x \in Entity : x # e => transit'[x] = transit[x],
         \A x \in Entity, r \in Node : Follows(x, r)
  PROVE  \A x \in Entity, r \in Node : Follows(x, r)'
<1>0. net \in Channels
  BY DEF TypeInv, TypeOK, Channels
<1>1. Registers(n, e)
  BY RegisterEffect
<1>2. CASE Home[e] = n
  <2>1. announceLocation(n, e, n, net)
    BY <1>2 DEF RegisterHere
  <2>2. \A x : \A a, b \in Node : Keeps(net[a][b], net[a][b], x)
    BY KeepsOrder
  <2>3. ASSUME NEW x \in Entity
        PROVE  UpdateInFlight(x) => UpdateInFlight(x)'
    <3>1. \A a, b \in Node : \A y : y \in Msgs(a, b) => y \in Msgs(a, b)'
      BY <1>1, <1>2 DEF Registers, Announces, OnWire, Msgs
    <3> QED BY <3>1, SameUpdates
  <2>4. \A x \in Entity : x # e =>
          /\ UpdateInFlight(x) => UpdateInFlight(x)'
          /\ transit'[x] = NoNode => transit[x] = NoNode
    BY <2>3
  <2> QED BY <1>0, <1>2, <2>1, <2>2, <2>4, FollowsAnnounce
<1>3. CASE Home[e] # n
  <2> DEFINE u == UpdateHome(e, n)
  <2>1. net' = Send(net, n, Home[e], u) /\ UNCHANGED <<recs_, loc_asks_>>
    BY <1>3 DEF RegisterHere
  <2>2. u \in Message /\ u.type = "updateHome" /\ u.id = e /\ \A x : ~Tells(u, x)
    BY MessageTypes DEF UpdateHome, Tells
  <2> HIDE DEF u
  <2>3. u \in Msgs(n, Home[e])'
        /\ \A a, b \in Node : \A y : y \in Msgs(a, b) => y \in Msgs(a, b)'
    BY <1>1, <1>3, HomeType DEF Registers, Sends, u
  <2>4. UpdateInFlight(e)'
    BY <2>2, <2>3, HomeType DEF UpdateInFlight
  <2>5. ASSUME NEW x \in Entity, x # e, NEW r \in Node PROVE Follows(x, r)'
    <3>1. Keeps(net[Home[x]][r], net'[Home[x]][r], x)
      BY <1>0, <2>1, <2>2, SendKeeps, HomeType
    <3>2. Memo(r)' = Memo(r) /\ Dir(Home[x], x)' = Dir(Home[x], x)
          /\ (Asked(Home[x], x, r)' <=> Asked(Home[x], x, r))
      BY <2>1 DEF Memo, Dir, Asked
    <3>3. UpdateInFlight(x) => UpdateInFlight(x)'
      BY <2>3, SameUpdates
    <3>4. Steady(x) /\ Undisturbed(x, r)
      BY <2>5, <3>1, <3>2, <3>3 DEF Steady, Undisturbed
    <3> QED BY <3>2, <3>4, FollowsKept
  <2>6. ASSUME NEW r \in Node PROVE Follows(e, r)'
    BY <2>4 DEF Follows
  <2> QED BY <2>5, <2>6
<1> QED BY <1>2, <1>3

\* entityEmigrated: a move that starts suspends the claim; one that ends writes
\* the location the updateHome of the same move has already announced.
LEMMA FollowsEmigrate ==
  ASSUME TypeInv, Placement, Hosting, Paced, NEW n \in Node, NEW e \in Entity,
         NEW new_node \in Node, entityEmigrated(n, e, new_node),
         \A x \in Entity, r \in Node : Follows(x, r)
  PROVE  \A x \in Entity, r \in Node : Follows(x, r)'
<1>1. /\ recs_' = [recs_ EXCEPT ![n] = LookupUpdate(@, e, makeRec(n, new_node))]
      /\ UNCHANGED <<loc_asks_, net>>
  BY DEF entityEmigrated
<1>2. Emigrates(n, e, new_node)
  BY EmigrateEffect
<1>3. \A a \in Node : \A y \in Memo(a)' :
        \/ y \in Memo(a)
        \/ a = n /\ y.key = e /\ y.value.cur_node = new_node
  <2>1. Stores(n, e, new_node)
    BY <1>1 DEF Stores
  <2> QED BY <2>1, MemoStores
<1>4. \A x : UpdateInFlight(x)' <=> UpdateInFlight(x)
  BY <1>1 DEF UpdateInFlight, Msgs
<1>5. /\ \A x \in Entity : x # e => transit'[x] = transit[x]
      /\ \/ transit'[e] # NoNode
         \/ transit' = transit /\ Owns(e, new_node)
  <2>1. transit \in [Entity -> Node \cup {NoNode}]
    BY DEF TypeInv, TypeOK
  <2>2. CASE StartMove(e) /\ transit' = [transit EXCEPT ![e] = new_node]
    BY <2>1, <2>2, ConstantsAssumption
  <2>3. CASE leaving[e] = n /\ Lives(e, new_node) /\ UNCHANGED transit
    BY <2>3 DEF entityEmigrated, Owns
  <2> QED BY <2>2, <2>3 DEF entityEmigrated
<1>6. ASSUME NEW x \in Entity, x # e, NEW r \in Node PROVE Follows(x, r)'
  <2>1. Steady(x)
    BY <1>2, <1>4, <1>5, <1>6, HomeType DEF Steady, Emigrates
  <2>2. Undisturbed(x, r)
    BY <1>1, <1>3, <1>6, KeepsOrder DEF Undisturbed
  <2>3. Asked(Home[x], x, r)' => Asked(Home[x], x, r)
    BY <1>1 DEF Asked
  <2> QED BY <2>1, <2>2, <2>3, FollowsKept
<1>7. ASSUME NEW r \in Node PROVE Follows(e, r)'
  <2> DEFINE h == Home[e]
  <2> SUFFICES ASSUME Asked(h, e, r)', Dir(h, e)' # Absent,
                      ~UpdateInFlight(e)', transit'[e] = NoNode
               PROVE  Believes(r, e, Dir(h, e).cur_node)'
    BY DEF Follows
  <2>1. Owns(e, new_node) /\ transit[e] = NoNode /\ ~UpdateInFlight(e)
        /\ Asked(h, e, r)
    BY <1>1, <1>4, <1>5 DEF Asked
  <2>2. Dir(h, e) # Absent /\ Dir(h, e).cur_node = new_node
    <3>1. UpdateHome(e, new_node).type = "updateHome" /\ UpdateHome(e, new_node).id = e
      BY DEF UpdateHome
    <3>2. UpdateHome(e, new_node) \notin Msgs(new_node, Home[e])
      BY <2>1, <3>1, HomeType DEF UpdateInFlight
    <3> QED BY <2>1, <3>2 DEF Hosting, PacedHome, Dir, DirExists
  <2>3. Dir(h, e)'.cur_node = new_node
    BY <1>2, <2>2, AbsentRecord, HomeType DEF Emigrates
  <2>4. Believes(r, e, new_node)
    BY <2>1, <2>2 DEF Follows
  <2>5. \/ LastWord(net[h][r], e, new_node)
        \/ /\ Silent(net[h][r], e)
           /\ \A y \in Memo(r)' : y.key = e => y.value.cur_node = new_node
    BY <1>3, <2>4 DEF Believes, Memo
  <2> QED BY <1>1, <2>3, <2>5 DEF Believes, Memo
<1> QED BY <1>6, <1>7

\* unregisterEntity, the queries and clearCache tell nobody where an entity is.
LEMMA FollowsOthers ==
  ASSUME TypeInv, Placement, NEW n \in Node,
         \/ \E e \in Entity : \/ unregisterEntity(n, e)
                              \/ getLocation(n, e)
                              \/ entityExists(n, e)
         \/ clearCache(n),
         \A x \in Entity, r \in Node : Follows(x, r)
  PROVE  \A x \in Entity, r \in Node : Follows(x, r)'
<1>0. net \in Channels
  BY DEF TypeInv, TypeOK, Channels
<1>1. ASSUME NEW e \in Entity, unregisterEntity(n, e)
      PROVE  \A x \in Entity, r \in Node : Follows(x, r)'
  <2>1. /\ recs_' = [recs_ EXCEPT ![n] = LookupRemove(@, e)]
        /\ UNCHANGED <<loc_asks_, net, transit>>
    BY <1>1 DEF unregisterEntity, callVars
  <2>2. \A a \in Node : Memo(a)' \subseteq Memo(a)
    BY <2>1, MemoShrinks
  <2>3. \A a \in Node, x \in Entity :
          Dir(a, x)' = IF a = n /\ x = e THEN Absent ELSE Dir(a, x)
    BY <1>1, UnregisterEffect DEF Unregisters
  <2>4. ASSUME NEW x \in Entity, NEW r \in Node PROVE Follows(x, r)'
    <3>1. CASE Home[x] = n /\ x = e
      BY <2>3, <3>1 DEF Follows
    <3>2. CASE ~(Home[x] = n /\ x = e)
      <4>1. Dir(Home[x], x)' = Dir(Home[x], x)
        BY <2>3, <3>2, HomeType
      <4>2. UpdateInFlight(x)' <=> UpdateInFlight(x)
        BY <2>1 DEF UpdateInFlight, Msgs
      <4>3. Steady(x)
        BY <2>1, <4>1, <4>2 DEF Steady
      <4>4. Undisturbed(x, r)
        BY <2>1, <2>2, KeepsOrder DEF Undisturbed
      <4>5. Asked(Home[x], x, r)' => Asked(Home[x], x, r)
        BY <2>1 DEF Asked
      <4> QED BY <4>3, <4>4, <4>5, FollowsKept
    <3> QED BY <3>1, <3>2
  <2> QED BY <2>4
<1>2. ASSUME NEW e \in Entity, getLocation(n, e) \/ entityExists(n, e)
      PROVE  \A x \in Entity, r \in Node : Follows(x, r)'
  <2>1. UNCHANGED <<loc_asks_, transit>>
    BY <1>2 DEF getLocation, entityExists
  <2>2. SameDir
    BY <1>2, GetLocationEffect, EntityExistsEffect
       DEF AsksLocation, AsksExistence
  <2>3. \/ isCached(n, e) /\ recs_' = [recs_ EXCEPT ![n] = AfterHit(n, e)]
        \/ recs_' = recs_
    BY <1>2 DEF getLocation, entityExists
  <2>4. \A a \in Node : Memo(a)' \subseteq Memo(a)
    BY <2>3, MemoShrinks
  <2>5. PICK m \in {LocationRequest(e, n), ExistsRequest(e, n)} :
          net' = net \/ net' = Send(net, n, Home[e], m)
    BY <1>2 DEF getLocation, entityExists
  <2>6. m \in Message /\ \A x : ~Tells(m, x)
    <3>1. CASE m = LocationRequest(e, n)
      BY <3>1, MessageTypes DEF LocationRequest, Tells
    <3>2. CASE m = ExistsRequest(e, n)
      BY <3>2, MessageTypes DEF ExistsRequest, Tells
    <3> QED BY <2>5, <3>1, <3>2
  <2>7. \A x : \A a, b \in Node : Keeps(net[a][b], net'[a][b], x)
    BY <1>0, <2>5, <2>6, SendKeeps, KeepsOrder, HomeType
  <2>8. \A a, b \in Node : \A y : y \in Msgs(a, b) => y \in Msgs(a, b)'
    <3>1. CASE net' = net
      BY <3>1 DEF Msgs
    <3>2. CASE net' = Send(net, n, Home[e], m)
      BY <1>0, <2>6, <3>2, SendEffect, HomeType DEF Msgs, OnWire
    <3> QED BY <2>5, <3>1, <3>2
  <2>9. \A x \in Entity : UpdateInFlight(x) => UpdateInFlight(x)'
    BY <2>8, SameUpdates
  <2>10. \A x \in Entity : Steady(x)
    BY <2>1, <2>2, <2>9, HomeType DEF Steady, SameDir
  <2>11. \A x \in Entity, r \in Node :
           Asked(Home[x], x, r)' => Asked(Home[x], x, r)
    BY <2>1 DEF Asked
  <2> QED BY <2>4, <2>7, <2>10, <2>11, FollowsFrame
<1>3. ASSUME clearCache(n)
      PROVE  \A x \in Entity, r \in Node : Follows(x, r)'
  <2>1. /\ recs_' = [recs_ EXCEPT ![n] = LookupClearCache(@)]
        /\ UNCHANGED <<loc_asks_, net, transit>>
    BY <1>3 DEF clearCache
  <2>2. \A a \in Node : Memo(a)' \subseteq Memo(a)
    BY <2>1, MemoClears
  <2>3. SameDir
    BY <1>3, ClearCacheEffect DEF ClearsCache
  <2>4. \A x : UpdateInFlight(x)' <=> UpdateInFlight(x)
    BY <2>1 DEF UpdateInFlight, Msgs
  <2>5. \A x \in Entity : Steady(x)
    BY <2>1, <2>3, <2>4, HomeType DEF Steady, SameDir
  <2>6. \A x \in Entity, r \in Node :
          Asked(Home[x], x, r)' => Asked(Home[x], x, r)
    BY <2>1 DEF Asked
  <2>7. \A x : \A a, b \in Node : Keeps(net[a][b], net'[a][b], x)
    BY <2>1, KeepsOrder
  <2> QED BY <2>2, <2>5, <2>6, <2>7, FollowsFrame
<1> QED BY <1>1, <1>2, <1>3

\* The home n has taken the request or updateHome m off its channel from s:
\* the channels q say what net says.
Dispatched(s, n, m, q) ==
  /\ q \in Channels /\ m \in Msgs(s, n)
  /\ m.id \in Entity /\ m.node \in Node /\ Home[m.id] = n
  /\ \A x : \A a, b \in Node : Keeps(net[a][b], q[a][b], x)

\* Dispatching a request or an updateHome tells nobody anything by itself.
LEMMA RequestTaken ==
  ASSUME TypeInv, Placement, NEW s \in Node, NEW n \in Node,
         NEW i \in DOMAIN net[s][n],
         net[s][n][i].type \in {"updateHome", "locationRequest", "existsRequest"}
  PROVE  Dispatched(s, n, net[s][n][i], Take(net, s, n, i))
<1> DEFINE m == net[s][n][i]
           q == Take(net, s, n, i)
<1>0. net \in Channels
  BY DEF TypeInv, TypeOK, Channels
<1>1. q \in Channels /\ m \in Message /\ m \in Msgs(s, n)
  BY TakeEffect
<1>2. m.id \in Entity /\ m.node \in Node
  BY <1>1, MessageFields
<1>3. Home[m.id] = n
  BY <1>1 DEF Placement, Routed, RoutedMsg
<1>4. \A x : ~Tells(m, x)
  BY DEF Tells
<1>5. \A x : \A a, b \in Node : Keeps(net[a][b], q[a][b], x)
  BY <1>0, <1>4, TakeKeeps
<1> QED BY <1>1, <1>2, <1>3, <1>5 DEF Dispatched

\* The answer of a home whose directory has e is what the directory says.
LEMMA HomeAnswersDirectory ==
  ASSUME NEW n \in Node, NEW e \in Entity, Dir(n, e) # Absent
  PROVE  HomeAnswer(n, e) = Dir(n, e).cur_node
BY DEF HomeAnswer, LookupExists, LookupValue, Dir, DirExists

\* updateHome: the home announces what the message says.
LEMMA FollowsUpdateHome ==
  ASSUME TypeInv, Placement, NEW s \in Node, NEW n \in Node,
         NEW i \in DOMAIN net[s][n], updateHome(s, n, i),
         \A x \in Entity, r \in Node : Follows(x, r)
  PROVE  \A x \in Entity, r \in Node : Follows(x, r)'
<1> DEFINE m == net[s][n][i]
           q == Take(net, s, n, i)
<1>1. /\ m.type = "updateHome" /\ announceLocation(n, m.id, m.node, q)
      /\ UNCHANGED transit
  BY DEF updateHome, Handles, callVars
<1>2. HandlesUpdateHome(s, n, m)
  BY UpdateHomeEffect
<1>3. q \in Channels
      /\ \A a, b \in Node : \A y :
           y \in Msgs(a, b) <=>
             y \in OnWire(q, a, b) \/ (a = s /\ b = n /\ y = m)
  BY TakeEffect
<1>0. Dispatched(s, n, m, q)
  BY <1>1, RequestTaken
<1> HIDE DEF m, q
<1>4. /\ q \in Channels /\ m \in Msgs(s, n)
      /\ m.id \in Entity /\ m.node \in Node /\ Home[m.id] = n
      /\ \A x : \A a, b \in Node : Keeps(net[a][b], q[a][b], x)
  BY <1>0 DEF Dispatched
<1>5. ASSUME NEW x \in Entity, x # m.id
      PROVE  /\ UpdateInFlight(x) => UpdateInFlight(x)'
             /\ transit'[x] = NoNode => transit[x] = NoNode
  <2>1. Announces(n, m.id, m.node, q)
    BY <1>1, <1>4, AnnounceEffect
  <2>2. \A a, b \in Node : \A y : y.id = x =>
          (y \in Msgs(a, b) => y \in Msgs(a, b)')
    BY <1>3, <1>5, <2>1 DEF Announces
  <2>3. UpdateInFlight(x) => UpdateInFlight(x)'
    BY <2>2, SameUpdates
  <2> QED BY <1>1, <2>3
<1> QED BY <1>1, <1>4, <1>5, FollowsAnnounce

\* locationRequest: the answer is what the directory says; a buffered request
\* makes no asker.
LEMMA FollowsLocationRequest ==
  ASSUME TypeInv, Placement, NEW s \in Node, NEW n \in Node,
         NEW i \in DOMAIN net[s][n], locationRequest(s, n, i),
         \A x \in Entity, r \in Node : Follows(x, r)
  PROVE  \A x \in Entity, r \in Node : Follows(x, r)'
<1> DEFINE m == net[s][n][i]
           q == Take(net, s, n, i)
           e == m.id
           to == m.node
           w == ResolveResponse(e, HomeAnswer(n, e))
<1>1. m.type = "locationRequest" /\ UNCHANGED transit
  BY DEF locationRequest, Handles, callVars
<1>2. HandlesLocationRequest(s, n, m)
  BY LocationRequestEffect
<1>3. \/ /\ isCached(n, e) /\ net' = Send(q, n, to, w)
         /\ recs_' = [recs_ EXCEPT ![n] = AfterAnswer(n, e)]
      \/ ~isCached(n, e) /\ net' = q /\ recs_' = recs_
  BY DEF locationRequest
<1>0. Dispatched(s, n, m, q)
  BY <1>1, RequestTaken
<1> HIDE DEF m, q
<1>4. /\ q \in Channels /\ m \in Msgs(s, n)
      /\ e \in Entity /\ to \in Node /\ Home[e] = n
      /\ \A x : \A a, b \in Node : Keeps(net[a][b], q[a][b], x)
  BY <1>0 DEF Dispatched
<1>5. SameDir
  BY <1>2 DEF HandlesLocationRequest
<1>6. /\ w \in Message /\ w.id = e /\ Tells(w, e) /\ w.type # "updateHome"
      /\ Dir(n, e) # Absent => w.node = Dir(n, e).cur_node
  <2>1. HomeAnswer(n, e) \in Node
    BY <1>4, HomeAnswerType DEF TypeInv
  <2>2. w \in Message
    BY <1>4, <2>1, MessageTypes
  <2>3. w.id = e /\ w.type = "resolveResponse" /\ w.node = HomeAnswer(n, e)
    BY DEF ResolveResponse
  <2> QED BY <1>4, <2>2, <2>3, HomeAnswersDirectory DEF Tells
<1>7. \A a, b \in Node : \A y :
        y.type = "updateHome" /\ y \in Msgs(a, b) => y \in Msgs(a, b)'
  BY <1>1, <1>2 DEF HandlesLocationRequest, Replies, Receives
<1>8. \A x \in Entity : UpdateInFlight(x) => UpdateInFlight(x)'
  BY <1>7, SameUpdates
<1>9. \A x \in Entity : Steady(x)
  BY <1>1, <1>5, <1>8, HomeType DEF Steady, SameDir
<1>10. CASE isCached(n, e)
  <2>1. \A x \in Entity, r \in Node :
          Asked(Home[x], x, r)' =>
            Asked(Home[x], x, r) \/ (x = e /\ r = to /\ Tells(w, e))
    BY <1>2, <1>6, <1>10, HomeType DEF HandlesLocationRequest
  <2> HIDE DEF e, to, w
  <2>2. \A a \in Node : Memo(a)' \subseteq Memo(a)
    BY <1>3, <1>4, MemoShrinks
  <2>3. net' = Send(q, n, to, w)
    BY <1>3, <1>10
  <2> QED BY <1>4, <1>6, <1>9, <2>1, <2>2, <2>3, FollowsAnswer
<1>11. CASE ~isCached(n, e)
  <2>1. \A x \in Entity, r \in Node :
          Asked(Home[x], x, r)' => Asked(Home[x], x, r)
    BY <1>2, <1>11, HomeType DEF HandlesLocationRequest
  <2> HIDE DEF e, to, w
  <2>2. net' = q /\ recs_' = recs_
    BY <1>3, <1>11
  <2>3. \A a \in Node : Memo(a)' \subseteq Memo(a)
    BY <2>2 DEF Memo
  <2> QED BY <1>4, <1>9, <2>1, <2>2, <2>3, FollowsFrame
<1> QED BY <1>10, <1>11

\* existsRequest: a positive answer is what the directory says too.
LEMMA FollowsExistsRequest ==
  ASSUME TypeInv, Placement, NEW s \in Node, NEW n \in Node,
         NEW i \in DOMAIN net[s][n], existsRequest(s, n, i),
         \A x \in Entity, r \in Node : Follows(x, r)
  PROVE  \A x \in Entity, r \in Node : Follows(x, r)'
<1> DEFINE m == net[s][n][i]
           q == Take(net, s, n, i)
           e == m.id
           to == m.node
           w == IF isCached(n, e) THEN ExistsResponse(e, TRUE, HomeAnswer(n, e))
                                  ELSE ExistsResponse(e, FALSE, NoNode)
<1>1. /\ m.type = "existsRequest" /\ UNCHANGED <<loc_asks_, transit>>
      /\ net' = Send(q, n, to, w)
      /\ recs_' = [recs_ EXCEPT ![n] = AfterAnswer(n, e)]
  BY DEF existsRequest, Handles, callVars
<1>2. HandlesExistsRequest(s, n, m)
  BY ExistsRequestEffect
<1>0. Dispatched(s, n, m, q)
  BY <1>1, RequestTaken
<1> HIDE DEF m, q
<1>3. /\ q \in Channels /\ m \in Msgs(s, n)
      /\ e \in Entity /\ to \in Node /\ Home[e] = n
      /\ \A x : \A a, b \in Node : Keeps(net[a][b], q[a][b], x)
  BY <1>0 DEF Dispatched
<1>4. /\ w \in Message /\ w.id = e
      /\ Tells(w, e) /\ Dir(n, e) # Absent => w.node = Dir(n, e).cur_node
  <2>1. HomeAnswer(n, e) \in Node
    BY <1>3, HomeAnswerType DEF TypeInv
  <2>2. w \in Message
    BY <1>3, <2>1, MessageTypes
  <2>3. CASE isCached(n, e)
    <3>1. w.id = e /\ w.node = HomeAnswer(n, e)
      BY <2>3 DEF ExistsResponse
    <3> QED BY <1>3, <2>2, <3>1, HomeAnswersDirectory
  <2>4. CASE ~isCached(n, e)
    <3>1. w.id = e /\ w.type = "existsResponse" /\ ~w.exists
      BY <2>4 DEF ExistsResponse
    <3> QED BY <2>2, <3>1 DEF Tells
  <2> QED BY <2>3, <2>4
<1>5. \A a, b \in Node : \A y :
        y.type = "updateHome" /\ y \in Msgs(a, b) => y \in Msgs(a, b)'
  BY <1>1, <1>2 DEF HandlesExistsRequest, Replies
<1>6. \A x \in Entity : UpdateInFlight(x) => UpdateInFlight(x)'
  BY <1>5, SameUpdates
<1>7. \A x \in Entity : Steady(x)
  BY <1>1, <1>2, <1>6, HomeType DEF Steady, SameDir, HandlesExistsRequest
<1>8. \A x \in Entity, r \in Node :
        Asked(Home[x], x, r)' =>
          Asked(Home[x], x, r) \/ (x = e /\ r = to /\ Tells(w, e))
  BY <1>1 DEF Asked
<1> HIDE DEF e, to, w
<1>9. \A a \in Node : Memo(a)' \subseteq Memo(a)
  BY <1>1, <1>3, MemoShrinks
<1>10. net' = Send(q, n, to, w)
  BY <1>1
<1> QED BY <1>3, <1>4, <1>7, <1>8, <1>9, <1>10, FollowsAnswer

\* resolveResponse and existsResponse, over ordered channels.
LEMMA FollowsResponse ==
  ASSUME TypeInv, Placement, Ordered, NEW s \in Node, NEW n \in Node,
         NEW i \in DOMAIN net[s][n],
         resolveResponse(s, n, i) \/ existsResponse(s, n, i),
         \A x \in Entity, r \in Node : Follows(x, r)
  PROVE  \A x \in Entity, r \in Node : Follows(x, r)'
<1> DEFINE m == net[s][n][i]
           e == m.id
<1>0. net \in Channels
  BY DEF TypeInv, TypeOK, Channels
<1>1. /\ i = 1 /\ net' = Take(net, s, n, i)
      /\ UNCHANGED <<loc_asks_, transit>>
  BY DEF resolveResponse, existsResponse, Handles, Receivable, callVars
<1>2. m \in Message /\ m \in Msgs(s, n) /\ e \in Entity
  BY TakeEffect, MessageFields
<1>3. \/ /\ m.type = "resolveResponse" \/ (m.type = "existsResponse" /\ m.exists)
         /\ Stores(n, e, m.node)
      \/ m.type = "existsResponse" /\ ~m.exists /\ recs_' = recs_
  <2>1. CASE resolveResponse(s, n, i)
    <3>1. /\ m.type = "resolveResponse"
          /\ recs_' = [recs_ EXCEPT ![n] = LookupUpdate(@, e, makeRec(n, m.node))]
      BY <2>1 DEF resolveResponse, Handles
    <3>2. Stores(n, e, m.node)
      BY <3>1 DEF Stores
    <3>3. m.type = "resolveResponse"
      BY <3>1
    <3> HIDE DEF m, e
    <3> QED BY <3>2, <3>3
  <2>2. CASE existsResponse(s, n, i)
    <3>1. /\ m.type = "existsResponse"
          /\ recs_' = IF m.exists
                      THEN [recs_ EXCEPT ![n] =
                              LookupUpdate(@, e, makeRec(n, m.node))]
                      ELSE recs_
      BY <2>2 DEF existsResponse, Handles
    <3>2. m.exists => Stores(n, e, m.node)
      BY <3>1 DEF Stores
    <3>3. ~m.exists => recs_' = recs_
      BY <3>1
    <3> QED BY <3>1, <3>2, <3>3
  <2> QED BY <2>1, <2>2
<1>4. CASE /\ m.type = "resolveResponse" \/ (m.type = "existsResponse" /\ m.exists)
           /\ Stores(n, e, m.node)
  <2>1. Tells(m, e) /\ m.node \in Node
    BY <1>2, <1>4, MessageFields DEF Tells
  <2>2. m = net[s][n][1] /\ 1 \in DOMAIN net[s][n] /\ net' = Take(net, s, n, 1)
    BY <1>1
  <2> DEFINE node == m.node
  <2>3. node \in Node /\ node = m.node /\ Stores(n, e, node)
    BY <1>4, <2>1
  <2> HIDE DEF m, e, node
  <2> QED BY <1>1, <1>2, <2>1, <2>2, <2>3, FollowsLearn
<1>5. CASE m.type = "existsResponse" /\ ~m.exists /\ recs_' = recs_
  <2>1. \A x : ~Tells(m, x)
    BY <1>5 DEF Tells
  <2>2. \A x : \A a, b \in Node : Keeps(net[a][b], net'[a][b], x)
    BY <1>0, <1>1, <2>1, TakeKeeps
  <2>3. \A a, b \in Node : \A y :
          y.type = "updateHome" /\ y \in Msgs(a, b) => y \in Msgs(a, b)'
    <3>1. \A a, b \in Node : \A y :
            y \in Msgs(a, b) <=>
              y \in OnWire(net', a, b) \/ (a = s /\ b = n /\ y = m)
      BY <1>1, TakeEffect
    <3> QED BY <1>5, <3>1 DEF OnWire, Msgs
  <2>4. \A x \in Entity : UpdateInFlight(x) => UpdateInFlight(x)'
    BY <2>3, SameUpdates
  <2>5. \A x \in Entity : Steady(x)
    BY <1>1, <1>5, <2>4 DEF Steady, Dir
  <2>6. \A x \in Entity, r \in Node :
          Asked(Home[x], x, r)' => Asked(Home[x], x, r)
    BY <1>1 DEF Asked
  <2>7. \A a \in Node : Memo(a)' \subseteq Memo(a)
    BY <1>5 DEF Memo
  <2> QED BY <2>2, <2>5, <2>6, <2>7, FollowsFrame
<1> QED BY <1>3, <1>4, <1>5

-----------------------------------------------------------------------------
(* The theorems                                                            *)

\* AskersFollow holds of freshly constructed coordinators: nobody has asked.
LEMMA FollowInit == Init => AskersFollow
<1>1. Init => \A x \in Entity, r \in Node : ~Asked(Home[x], x, r)
  BY HomeType DEF Init, Asked
<1> QED BY <1>1, FollowsView DEF Follows

\* Every step keeps AskersFollow.
LEMMA FollowStep ==
  ASSUME TypeInv, Placement, Hosting, AskersFollow, [Next]_vars
  PROVE  AskersFollow'
<1> DEFINE All == \A x \in Entity, r \in Node : Follows(x, r)
<1>0. AskersFollow' <=> (Ordered /\ Paced => All')
  BY DEF AskersFollow, Follows, Asked, Dir, DirExists
<1> SUFFICES ASSUME Ordered, Paced PROVE All'
  BY <1>0
<1>1. All
  BY FollowsView
<1>2. ASSUME NEW n \in Node, NEW e \in Entity,
             registerEntity(n, e) \/ entityImmigrated(n, e)
      PROVE  All'
  <2>1. RegisterHere(n, e)
    BY <1>2 DEF registerEntity, entityImmigrated
  <2>2. \A x \in Entity : x # e => transit'[x] = transit[x]
    BY <1>2 DEF registerEntity, entityImmigrated, TypeInv, TypeOK
  <2> QED BY <1>1, <2>1, <2>2, FollowsRegister
<1>3. ASSUME NEW n \in Node, NEW e \in Entity, NEW new_node \in Node,
             entityEmigrated(n, e, new_node)
      PROVE  All'
  BY <1>1, <1>3, FollowsEmigrate
<1>4. ASSUME NEW n \in Node, NEW e \in Entity,
             \/ unregisterEntity(n, e) \/ getLocation(n, e)
             \/ entityExists(n, e)
      PROVE  All'
  <2>1. \E x \in Entity : \/ unregisterEntity(n, x)
                          \/ getLocation(n, x)
                          \/ entityExists(n, x)
    BY <1>4
  <2> QED BY <1>1, <2>1, FollowsOthers
<1>5. ASSUME NEW n \in Node, clearCache(n) PROVE All'
  BY <1>1, <1>5, FollowsOthers
<1>6. ASSUME NEW s \in Node, NEW n \in Node, NEW i \in DOMAIN net[s][n],
             \/ updateHome(s, n, i) \/ locationRequest(s, n, i)
             \/ resolveResponse(s, n, i) \/ existsRequest(s, n, i)
             \/ existsResponse(s, n, i)
      PROVE  All'
  BY <1>1, <1>6, FollowsUpdateHome, FollowsLocationRequest,
     FollowsExistsRequest, FollowsResponse
<1>7. CASE UNCHANGED vars
  <2>1. UNCHANGED <<recs_, loc_asks_, net, transit>>
    BY <1>7 DEF vars, coordVars, callVars
  <2>2. ASSUME NEW x \in Entity, NEW r \in Node PROVE Follows(x, r)'
    <3>1. Follows(x, r)
      BY <1>1
    <3> QED BY <2>1, <3>1 DEF Follows, Believes, Asked, Dir, UpdateInFlight, Msgs
  <2> QED BY <2>2
<1> QED BY <1>2, <1>3, <1>4, <1>5, <1>6, <1>7 DEF Next, Call, Poll

\* Over ordered channels and with paced moves, the last the home has told every
\* rank it has answered is what its directory says (announceLocation,
\* locationRequest, existsRequest), except while a move is under way.
THEOREM AskersAlwaysFollow == Spec => []AskersFollow
<1>1. TypeInv /\ Placement /\ Hosting /\ AskersFollow /\ [Next]_vars
        => AskersFollow'
  BY FollowStep
<1>2. Spec => []TypeInv
  BY TypeCorrect DEF TypeInv
<1> QED BY <1>1, <1>2, FollowInit, HostingCorrect, PTL DEF Spec

\* Eager refresh reaches every rank that was answered: once nothing about an
\* entity is under way, what such a rank has cached agrees with the directory.
THEOREM AskersAgree == Spec => []AskersConverge
<1>1. ASSUME TypeInv, Placement, AskersFollow PROVE AskersConverge
  <2> SUFFICES ASSUME Ordered, Paced, NEW e \in Entity, Quiet(e),
                      NEW r \in loc_asks_[Home[e]][e],
                      CacheExists(recs_[r].cache, e),
                      DirExists(recs_[Home[e]].directory, e)
               PROVE  LookupValue(recs_[r], e).cur_node =
                        recs_[Home[e]].directory[e].cur_node
    BY DEF AskersConverge
  <2> DEFINE h == Home[e]
             c == recs_[r].cache
             d == Dir(h, e).cur_node
  <2>1. h \in Node /\ r \in Node
    BY <1>1, HomeType DEF TypeInv, TypeOK
  <2>2. r # h /\ ~DirExists(recs_[r].directory, e)
    BY <1>1, <2>1 DEF Placement, AskersRouted, HomeInDirectory
  <2>3. /\ \A a, b \in Node : \A m \in Msgs(a, b) : m.id # e
        /\ transit[e] = NoNode
    BY DEF Quiet
  <2>4. ~UpdateInFlight(e)
    BY <2>3 DEF UpdateInFlight
  <2>5. Believes(r, e, d)
    <3>1. Follows(e, r)
      BY <1>1, <2>1, FollowsView
    <3> QED BY <2>3, <2>4, <3>1 DEF Follows, Asked, Dir, DirExists
  <2>6. ~LastWord(net[h][r], e, d)
    <3>1. \A i \in DOMAIN net[h][r] : net[h][r][i] \in Msgs(h, r)
      <4>1. net \in Channels
        BY <1>1 DEF TypeInv, TypeOK, Channels
      <4> QED BY <2>1, <4>1, TakeType DEF Msgs, OnWire
    <3>2. \A i \in DOMAIN net[h][r] : ~Tells(net[h][r][i], e)
      BY <2>1, <2>3, <3>1 DEF Tells
    <3> QED BY <3>2 DEF LastWord
  <2>7. \A y \in ToSet(c) : y.key = e => y.value.cur_node = d
    BY <2>5, <2>6 DEF Believes
  <2>8. /\ CachePos(c, e) \in DOMAIN c /\ c[CachePos(c, e)].key = e
    BY CachePosProperties
  <2>9. c[CachePos(c, e)] \in ToSet(c)
    BY <2>8 DEF ToSet
  <2>10. CacheValue(c, e).cur_node = d
    BY <2>7, <2>8, <2>9 DEF CacheValue
  <2> QED BY <2>2, <2>10 DEF LookupValue, Dir
<1>2. TypeInv /\ Placement /\ Hosting /\ AskersFollow => AskersConverge
  BY <1>1
<1>3. Spec => []TypeInv
  BY TypeCorrect DEF TypeInv
<1> QED BY <1>2, <1>3, HostingCorrect, AskersAlwaysFollow, PTL

=============================================================================
