------------------------- MODULE CoordinatorProofs -------------------------
(***************************************************************************)
(* Type correctness of Coordinator and the bound on every cache, for any   *)
(* set of ranks and entities, any home function and any of the bounds; and *)
(* the effect of each action, in the terms the other proofs use.           *)
(* Each action is reduced to the LocData operator or the channel operation *)
(* it applies, whose properties are lemmas.                                *)
(***************************************************************************)
EXTENDS CoordinatorInv, LocDataProofs

\* The type of the channels, and the messages on one of them.
Channels == [Node -> [Node -> Seq(Message)]]

OnWire(q, a, b) == ToSet(q[a][b])

\* Comm::send adds its message to one channel and to no other.
LEMMA SendProperties ==
  ASSUME NEW q \in Channels, NEW s \in Node, NEW d \in Node, NEW m \in Message
  PROVE  /\ Send(q, s, d, m) \in Channels
         /\ \A a, b \in Node : \A x :
              x \in OnWire(Send(q, s, d, m), a, b) <=>
                x \in OnWire(q, a, b) \/ (a = s /\ b = d /\ x = m)
<1>1. q[s][d] \in Seq(Message)
  BY DEF Channels
<1> DEFINE t == Append(q[s][d], m)
<1>2. t \in Seq(Message) /\ ToSet(t) = ToSet(q[s][d]) \cup {m}
  BY <1>1, ToSetAppend
<1>3. Send(q, s, d, m) = [q EXCEPT ![s][d] = t]
  BY DEF Send
<1> HIDE DEF t
<1>4. \A a, b \in Node :
        [q EXCEPT ![s][d] = t][a][b] = IF a = s /\ b = d THEN t ELSE q[a][b]
  BY DEF Channels
<1>5. [q EXCEPT ![s][d] = t] \in Channels
  BY <1>2 DEF Channels
<1> QED BY <1>2, <1>3, <1>4, <1>5 DEF OnWire

\* Dispatching a message leaves channels of messages.
LEMMA TakeType ==
  ASSUME NEW q \in Channels, NEW s \in Node, NEW d \in Node,
         NEW i \in DOMAIN q[s][d]
  PROVE  /\ Take(q, s, d, i) \in Channels
         /\ q[s][d][i] \in Message
         /\ q[s][d][i] \in OnWire(q, s, d)
<1>1. q[s][d] \in Seq(Message)
  BY DEF Channels
<1> DEFINE t == RemoveAt(q[s][d], i)
<1>2. t \in Seq(Message)
  BY <1>1, RemoveAtProperties
<1>3. Take(q, s, d, i) = [q EXCEPT ![s][d] = t]
  BY DEF Take
<1> HIDE DEF t
<1>4. q[s][d][i] \in Message /\ q[s][d][i] \in ToSet(q[s][d])
  BY <1>1, ElementOfSeq, LenProperties DEF ToSet
<1>5. [q EXCEPT ![s][d] = t] \in Channels
  BY <1>2 DEF Channels
<1> QED BY <1>3, <1>4, <1>5 DEF OnWire

\* Dispatching removes at most one copy of the message from one channel.
LEMMA TakeMembers ==
  ASSUME NEW q \in Channels, NEW s \in Node, NEW d \in Node,
         NEW i \in DOMAIN q[s][d], NEW t, t = Take(q, s, d, i),
         NEW m, m = q[s][d][i]
  PROVE  \A a, b \in Node : \A x :
           x \in OnWire(q, a, b) <=>
             x \in OnWire(t, a, b) \/ (a = s /\ b = d /\ x = m)
<1>1. q[s][d] \in Seq(Message)
  BY DEF Channels
<1> DEFINE u == RemoveAt(q[s][d], i)
<1>2. ToSet(q[s][d]) = ToSet(u) \cup {m}
  BY <1>1, ToSetRemoveAt
<1>3. t = [q EXCEPT ![s][d] = u]
  BY DEF Take
<1> HIDE DEF u
<1>4. \A a, b \in Node : t[a][b] = IF a = s /\ b = d THEN u ELSE q[a][b]
  BY <1>3 DEF Channels
<1> QED BY <1>2, <1>4 DEF OnWire

\* Every message the coordinator builds is a Message.
LEMMA MessageTypes ==
  ASSUME NEW e \in Entity, NEW n \in Node
  PROVE  /\ UpdateHome(e, n) \in Message
         /\ LocationRequest(e, n) \in Message
         /\ ResolveResponse(e, n) \in Message
         /\ ExistsRequest(e, n) \in Message
         /\ ExistsResponse(e, TRUE, n) \in Message
         /\ ExistsResponse(e, FALSE, NoNode) \in Message
BY DEF Message, UpdateHome, LocationRequest, ResolveResponse, ExistsRequest,
       ExistsResponse

\* The fields a handler reads of a message it receives.
LEMMA MessageFields ==
  ASSUME NEW m \in Message
  PROVE  /\ m.id \in Entity
         /\ m.type # "existsResponse" => m.node \in Node
         /\ m.type = "existsResponse" => m.exists \in BOOLEAN
         /\ m.type = "existsResponse" /\ m.exists => m.node \in Node
BY DEF Message

\* The responses announceLocation sends to one rank, as messages in flight.
LEMMA RepeatProperties ==
  ASSUME NEW m \in Message, NEW k \in Nat
  PROVE  /\ Repeat(m, k) \in Seq(Message)
         /\ ToSet(Repeat(m, k)) = IF k > 0 THEN {m} ELSE {}
BY ToSetRepeat DEF Repeat

\* announceLocation sends to a rank exactly if the rank was answered before or
\* has a request buffered.
LEMMA AnnouncedType ==
  ASSUME TypeOK, NEW n \in Node, NEW e \in Entity, NEW r \in Node
  PROVE  /\ Announced(n, e, r) \in Nat
         /\ Announced(n, e, r) > 0 <=>
              r \in loc_asks_[n][e] \/ pending_home_[n][e][r] > 0
<1>1. pending_home_[n][e][r] \in Nat
  BY DEF TypeOK
<1>2. CASE r \in loc_asks_[n][e]
  BY <1>1, <1>2 DEF Announced
<1>3. CASE r \notin loc_asks_[n][e]
  BY <1>1, <1>3 DEF Announced
<1> QED BY <1>2, <1>3

\* The channels after announceLocation: a resolveResponse from the home to each
\* of those ranks, and nothing else.
LEMMA AnnounceProperties ==
  ASSUME TypeOK, NEW n \in Node, NEW e \in Entity, NEW node \in Node,
         NEW q \in Channels, announceLocation(n, e, node, q)
  PROVE  /\ net' \in Channels
         /\ \A a, b \in Node : \A x :
              x \in OnWire(net', a, b) <=>
                \/ x \in OnWire(q, a, b)
                \/ a = n /\ Announced(n, e, b) > 0 /\ x = ResolveResponse(e, node)
<1> DEFINE rr == ResolveResponse(e, node)
           t(r) == q[n][r] \o Repeat(rr, Announced(n, e, r))
<1>1. rr \in Message
  BY MessageTypes
<1>2. \A r \in Node : Announced(n, e, r) \in Nat
  BY AnnouncedType
<1> HIDE DEF rr
<1>3. ASSUME NEW r \in Node
      PROVE  /\ t(r) \in Seq(Message)
             /\ ToSet(t(r)) = IF Announced(n, e, r) > 0
                              THEN ToSet(q[n][r]) \cup {rr}
                              ELSE ToSet(q[n][r])
  <2> DEFINE k == Announced(n, e, r)
             w == Repeat(rr, k)
  <2>0. k \in Nat
    BY <1>2
  <2> HIDE DEF k
  <2>1. w \in Seq(Message) /\ ToSet(w) = IF k > 0 THEN {rr} ELSE {}
    BY <1>1, <2>0, RepeatProperties
  <2>2. q[n][r] \in Seq(Message)
    BY DEF Channels
  <2> HIDE DEF w
  <2>3. q[n][r] \o w \in Seq(Message)
        /\ ToSet(q[n][r] \o w) = ToSet(q[n][r]) \cup ToSet(w)
    BY <2>1, <2>2, ToSetConcat
  <2>4. t(r) = q[n][r] \o w
    BY DEF w, k
  <2> HIDE DEF t
  <2>5. CASE k > 0
    BY <2>1, <2>3, <2>4, <2>5 DEF k
  <2>6. CASE ~(k > 0)
    BY <2>1, <2>3, <2>4, <2>6 DEF k
  <2> QED BY <2>5, <2>6
<1>4. net' = [q EXCEPT ![n] = [r \in Node |-> t(r)]]
  BY DEF announceLocation, rr
<1> HIDE DEF t
<1>5. net' \in Channels
  BY <1>3, <1>4 DEF Channels
<1>6. \A a, b \in Node : net'[a][b] = IF a = n THEN t(b) ELSE q[a][b]
  BY <1>4 DEF Channels
<1> QED BY <1>3, <1>5, <1>6 DEF rr, OnWire

\* The type of the lookups of all ranks.
Recs == [Node -> Lookup(Entity, LocRecord(Node))]

\* The invariant makes the lookup of each rank well formed.
LEMMA RecsWellFormed ==
  ASSUME TypeOK, CacheBounded, NEW n \in Node
  PROVE  WellFormed(recs_[n], Entity, LocRecord(Node))
BY DEF TypeOK, CacheBounded, WellFormed

\* Replacing the lookup of one rank by a well-formed one keeps type and bound.
LEMMA RecsStep ==
  ASSUME TypeOK, CacheBounded, NEW n \in Node, NEW l,
         WellFormed(l, Entity, LocRecord(Node)),
         recs_' = [recs_ EXCEPT ![n] = l]
  PROVE  recs_' \in Recs /\ CacheBounded'
<1>1. recs_ \in Recs
  BY DEF TypeOK, Recs
<1>2. recs_' \in Recs
  BY <1>1 DEF Recs, WellFormed
<1>3. \A m \in Node : recs_'[m] = IF m = n THEN l ELSE recs_[m]
  BY <1>1 DEF Recs
<1>4. CacheBounded'
  BY <1>3 DEF CacheBounded, WellFormed
<1> QED BY <1>2, <1>4

\* announceLocation keeps the types and the cache bound.
LEMMA AnnounceType ==
  ASSUME TypeOK, CacheBounded, NEW n \in Node, NEW e \in Entity,
         NEW node \in Node, NEW q \in Channels, announceLocation(n, e, node, q)
  PROVE  /\ recs_' \in Recs /\ CacheBounded'
         /\ net' \in Channels
         /\ pending_' \in [Node -> [Entity -> Nat]]
         /\ pending_home_' \in [Node -> [Entity -> [Node -> Nat]]]
         /\ loc_asks_' \in [Node -> [Entity -> SUBSET Node]]
<1>1. recs_' \in Recs /\ CacheBounded'
  <2> DEFINE v == makeRec(n, node)
             l == LookupInsert(recs_[n], n, e, n, v)
  <2>1. v \in LocRecord(Node)
    BY makeRecType
  <2> HIDE DEF v
  <2>2. WellFormed(l, Entity, LocRecord(Node))
    BY <2>1, RecsWellFormed, LookupInsertHomeProperties
  <2>3. recs_' = [recs_ EXCEPT ![n] = l]
    BY DEF announceLocation, v
  <2> HIDE DEF l
  <2> QED BY <2>2, <2>3, RecsStep
<1>2. net' \in Channels
  BY AnnounceProperties
<1>3. pending_' \in [Node -> [Entity -> Nat]]
  BY DEF TypeOK, announceLocation
<1>4. pending_home_' \in [Node -> [Entity -> [Node -> Nat]]]
  <2>1. [r \in Node |-> 0] \in [Node -> Nat]
    OBVIOUS
  <2> QED BY <2>1 DEF TypeOK, announceLocation
<1>5. loc_asks_' \in [Node -> [Entity -> SUBSET Node]]
  <2>1. AskersAfter(n, e) \in SUBSET Node
    BY DEF TypeOK, AskersAfter
  <2> QED BY <2>1 DEF TypeOK, announceLocation
<1> QED BY <1>1, <1>2, <1>3, <1>4, <1>5

\* The body of registerEntity keeps the types and the cache bound.
LEMMA RegisterHereType ==
  ASSUME TypeOK, CacheBounded, NEW n \in Node, NEW e \in Entity,
         RegisterHere(n, e)
  PROVE  /\ local_registered_' \in [Node -> SUBSET Entity]
         /\ recs_' \in Recs /\ CacheBounded'
         /\ net' \in Channels
         /\ pending_' \in [Node -> [Entity -> Nat]]
         /\ pending_exists_' \in [Node -> [Entity -> Nat]]
         /\ pending_home_' \in [Node -> [Entity -> [Node -> Nat]]]
         /\ loc_asks_' \in [Node -> [Entity -> SUBSET Node]]
         /\ queries' \in Nat /\ clears' \in Nat
<1>0. net \in Channels
  BY DEF TypeOK, Channels
<1>1. CASE Home[e] = n
  <2>1. announceLocation(n, e, n, net)
    BY <1>1 DEF RegisterHere
  <2> QED BY <1>0, <2>1, AnnounceType DEF RegisterHere, TypeOK
<1>2. CASE Home[e] # n
  <2>1. Home[e] \in Node
    BY ConstantsAssumption
  <2>2. Send(net, n, Home[e], UpdateHome(e, n)) \in Channels
    BY <1>0, <2>1, SendProperties, MessageTypes
  <2> QED BY <1>2, <2>2 DEF RegisterHere, TypeOK, Recs, CacheBounded
<1> QED BY <1>1, <1>2

\* recs_.update with a fresh record keeps the type and the cache bound.
LEMMA UpdateType ==
  ASSUME TypeOK, CacheBounded, NEW n \in Node, NEW e \in Entity,
         NEW node \in Node,
         recs_' = [recs_ EXCEPT ![n] = LookupUpdate(@, e, makeRec(n, node))]
  PROVE  recs_' \in Recs /\ CacheBounded'
<1> DEFINE v == makeRec(n, node)
           l == LookupUpdate(recs_[n], e, v)
<1>1. v \in LocRecord(Node)
  BY makeRecType
<1>2. recs_' = [recs_ EXCEPT ![n] = l]
  OBVIOUS
<1> HIDE DEF v
<1>3. WellFormed(l, Entity, LocRecord(Node))
  BY <1>1, RecsWellFormed, LookupUpdateProperties
<1> HIDE DEF l
<1> QED BY <1>2, <1>3, RecsStep

\* Answering a query from the records keeps the type and the cache bound.
LEMMA HitType ==
  ASSUME TypeOK, CacheBounded, NEW n \in Node, NEW e \in Entity,
         \/ recs_' = [recs_ EXCEPT ![n] = AfterAnswer(n, e)]
         \/ isCached(n, e) /\ recs_' = [recs_ EXCEPT ![n] = AfterHit(n, e)]
  PROVE  recs_' \in Recs /\ CacheBounded'
<1>1. WellFormed(recs_[n], Entity, LocRecord(Node))
  BY RecsWellFormed
<1>2. LookupExists(recs_[n], e) =>
        WellFormed(LookupGet(recs_[n], e), Entity, LocRecord(Node))
  BY <1>1, LookupGetProperties
<1>3. CASE recs_' = [recs_ EXCEPT ![n] = AfterAnswer(n, e)]
  <2> DEFINE l == AfterAnswer(n, e)
  <2>1. WellFormed(l, Entity, LocRecord(Node))
    BY <1>1, <1>2 DEF AfterAnswer
  <2>2. recs_' = [recs_ EXCEPT ![n] = l]
    BY <1>3
  <2> HIDE DEF l
  <2> QED BY <2>1, <2>2, RecsStep
<1>4. CASE isCached(n, e) /\ recs_' = [recs_ EXCEPT ![n] = AfterHit(n, e)]
  <2> DEFINE l == AfterHit(n, e)
  <2>1. WellFormed(l, Entity, LocRecord(Node))
    BY <1>1, <1>2, <1>4 DEF AfterHit, isCached
  <2>2. recs_' = [recs_ EXCEPT ![n] = l]
    BY <1>4
  <2> HIDE DEF l
  <2> QED BY <2>1, <2>2, RecsStep
<1> QED BY <1>3, <1>4

\* The location the home hands out is a rank.
LEMMA HomeAnswerType ==
  ASSUME TypeOK, NEW n \in Node, NEW e \in Entity
  PROVE  HomeAnswer(n, e) \in Node
<1>1. CASE LookupExists(recs_[n], e)
  <2>1. recs_[n] \in Lookup(Entity, LocRecord(Node))
    BY DEF TypeOK
  <2>2. LookupValue(recs_[n], e) \in LocRecord(Node)
    BY <1>1, <2>1, LookupValueType
  <2> QED BY <1>1, <2>2 DEF HomeAnswer, LocRecord
<1>2. CASE ~LookupExists(recs_[n], e)
  BY <1>2 DEF HomeAnswer
<1> QED BY <1>1, <1>2

\* Type correctness and the cache bound are one inductive invariant: a lookup
\* operation returns a well-formed lookup only from a well-formed one.
TypeInv == TypeOK /\ CacheBounded

\* The freshly constructed coordinators are well typed.
LEMMA TypeInit == Init => TypeInv
<1> SUFFICES ASSUME Init PROVE TypeInv
  OBVIOUS
<1>1. WellFormed(EmptyLookup(Entity), Entity, LocRecord(Node))
  BY EmptyLookupProperties
<1>2. recs_ \in Recs /\ CacheBounded
  BY <1>1 DEF Init, Recs, WellFormed, CacheBounded
<1>3. net \in [Node -> [Node -> Seq(Message)]]
  BY DEF Init
<1>4. pending_home_ \in [Node -> [Entity -> [Node -> Nat]]]
  BY DEF Init
<1> QED BY <1>2, <1>3, <1>4 DEF Init, TypeInv, TypeOK, Recs

\* Every call of the public API but clearCache keeps the types and the bound.
LEMMA TypeCalls ==
  ASSUME TypeInv, NEW n \in Node, NEW e \in Entity, Call(n, e)
  PROVE  TypeInv'
<1> USE DEF TypeInv
<1>1. CASE registerEntity(n, e)
  <2>1. RegisterHere(n, e)
    BY <1>1 DEF registerEntity
  <2>2. /\ moves' \in Nat
        /\ transit' \in [Entity -> Node \cup {NoNode}]
        /\ leaving' \in [Entity -> Node \cup {NoNode}]
    BY <1>1 DEF registerEntity, TypeOK
  <2> QED BY <2>1, <2>2, RegisterHereType DEF TypeOK, Recs, Channels
<1>2. ASSUME NEW new_node \in Node, entityEmigrated(n, e, new_node)
      PROVE  TypeInv'
  <2>1. recs_' \in Recs /\ CacheBounded'
    BY <1>2, UpdateType DEF entityEmigrated
  <2>2. /\ moves' \in Nat
        /\ transit' \in [Entity -> Node \cup {NoNode}]
        /\ leaving' \in [Entity -> Node \cup {NoNode}]
    <3>1. CASE StartMove(e) /\ transit' = [transit EXCEPT ![e] = new_node]
                            /\ UNCHANGED leaving
      BY <3>1 DEF StartMove, TypeOK
    <3>2. CASE leaving' = [leaving EXCEPT ![e] = NoNode]
               /\ UNCHANGED <<transit, moves>>
      BY <3>2 DEF TypeOK
    <3> QED BY <1>2, <3>1, <3>2 DEF entityEmigrated
  <2>3. local_registered_' \in [Node -> SUBSET Entity]
    BY <1>2 DEF entityEmigrated, TypeOK
  <2> QED BY <1>2, <2>1, <2>2, <2>3 DEF TypeOK, Recs, entityEmigrated
<1>3. CASE entityImmigrated(n, e)
  <2>1. RegisterHere(n, e)
    BY <1>3 DEF entityImmigrated
  <2>2. /\ moves' \in Nat
        /\ transit' \in [Entity -> Node \cup {NoNode}]
        /\ leaving' \in [Entity -> Node \cup {NoNode}]
    <3>1. CASE transit' = [transit EXCEPT ![e] = NoNode]
               /\ UNCHANGED <<leaving, moves>>
      BY <3>1 DEF TypeOK
    <3>2. ASSUME NEW from \in Node, StartMove(e), UNCHANGED transit,
                 leaving' = [leaving EXCEPT ![e] = from]
          PROVE  <2>2!1 /\ <2>2!2 /\ <2>2!3
      BY <3>2 DEF StartMove, TypeOK
    <3> QED BY <1>3, <3>1, <3>2 DEF entityImmigrated
  <2> QED BY <2>1, <2>2, RegisterHereType DEF TypeOK, Recs, Channels
<1>4. CASE unregisterEntity(n, e)
  <2> DEFINE l == LookupRemove(recs_[n], e)
  <2>1. WellFormed(l, Entity, LocRecord(Node))
    BY RecsWellFormed, LookupRemoveProperties
  <2>2. recs_' = [recs_ EXCEPT ![n] = l]
    BY <1>4 DEF unregisterEntity
  <2> HIDE DEF l
  <2>3. recs_' \in Recs /\ CacheBounded'
    BY <2>1, <2>2, RecsStep
  <2>4. local_registered_' \in [Node -> SUBSET Entity]
    BY <1>4 DEF unregisterEntity, TypeOK
  <2> QED BY <1>4, <2>3, <2>4 DEF TypeOK, Recs, unregisterEntity, callVars
<1>5. CASE getLocation(n, e)
  <2>1. CASE isCached(n, e)
    <3>1. /\ recs_' = [recs_ EXCEPT ![n] = AfterHit(n, e)]
          /\ UNCHANGED <<pending_, net>>
      BY <1>5, <2>1 DEF getLocation
    <3>2. recs_' \in Recs /\ CacheBounded'
      BY <2>1, <3>1, HitType
    <3> QED BY <1>5, <3>1, <3>2 DEF TypeOK, Recs, getLocation
  <2>2. CASE ~isCached(n, e)
    <3>1. /\ pending_' = [pending_ EXCEPT ![n][e] = @ + 1]
          /\ \/ net' = Send(net, n, Home[e], LocationRequest(e, n))
             \/ net' = net
          /\ UNCHANGED recs_
      BY <1>5, <2>2 DEF getLocation
    <3>2. net' \in Channels
      <4>1. Home[e] \in Node /\ net \in Channels
        BY ConstantsAssumption DEF TypeOK, Channels
      <4>2. LocationRequest(e, n) \in Message
        BY MessageTypes
      <4>3. Send(net, n, Home[e], LocationRequest(e, n)) \in Channels
        BY <4>1, <4>2, SendProperties
      <4> QED BY <3>1, <4>1, <4>3
    <3>3. pending_' \in [Node -> [Entity -> Nat]]
      BY <3>1 DEF TypeOK
    <3>4. CacheBounded'
      BY <3>1 DEF CacheBounded
    <3>5. /\ queries' \in Nat
          /\ UNCHANGED <<local_registered_, pending_exists_, pending_home_,
                         loc_asks_, transit, leaving, moves, clears>>
      BY <1>5 DEF getLocation, TypeOK
    <3> QED BY <3>1, <3>2, <3>3, <3>4, <3>5 DEF TypeOK, Channels
  <2> QED BY <2>1, <2>2
<1>6. CASE entityExists(n, e)
  <2>1. CASE isCached(n, e)
    <3>1. /\ recs_' = [recs_ EXCEPT ![n] = AfterHit(n, e)]
          /\ UNCHANGED <<pending_exists_, net>>
      BY <1>6, <2>1 DEF entityExists
    <3>2. recs_' \in Recs /\ CacheBounded'
      BY <2>1, <3>1, HitType
    <3> QED BY <1>6, <3>1, <3>2 DEF TypeOK, Recs, entityExists
  <2>2. CASE ~isCached(n, e) /\ Home[e] = n
    BY <1>6, <2>2 DEF TypeOK, CacheBounded, entityExists
  <2>3. CASE ~isCached(n, e) /\ Home[e] # n
    <3>1. /\ pending_exists_' = [pending_exists_ EXCEPT ![n][e] = @ + 1]
          /\ \/ net' = Send(net, n, Home[e], ExistsRequest(e, n))
             \/ net' = net
          /\ UNCHANGED recs_
      BY <1>6, <2>3 DEF entityExists
    <3>2. net' \in Channels
      <4>1. Home[e] \in Node /\ net \in Channels
        BY ConstantsAssumption DEF TypeOK, Channels
      <4>2. ExistsRequest(e, n) \in Message
        BY MessageTypes
      <4>3. Send(net, n, Home[e], ExistsRequest(e, n)) \in Channels
        BY <4>1, <4>2, SendProperties
      <4> QED BY <3>1, <4>1, <4>3
    <3>3. pending_exists_' \in [Node -> [Entity -> Nat]]
      BY <3>1 DEF TypeOK
    <3>4. CacheBounded'
      BY <3>1 DEF CacheBounded
    <3>5. /\ queries' \in Nat
          /\ UNCHANGED <<local_registered_, pending_, pending_home_,
                         loc_asks_, transit, leaving, moves, clears>>
      BY <1>6 DEF entityExists, TypeOK
    <3> QED BY <3>1, <3>2, <3>3, <3>4, <3>5 DEF TypeOK, Channels
  <2> QED BY <2>1, <2>2, <2>3
<1> QED BY <1>1, <1>2, <1>3, <1>4, <1>5, <1>6 DEF Call

\* clearCache keeps the types and the bound.
LEMMA TypeClearCache ==
  ASSUME TypeInv, NEW n \in Node, clearCache(n)
  PROVE  TypeInv'
<1> USE DEF TypeInv
<1> DEFINE l == LookupClearCache(recs_[n])
<1>1. WellFormed(l, Entity, LocRecord(Node))
  BY RecsWellFormed, LookupClearCacheProperties
<1>2. recs_' = [recs_ EXCEPT ![n] = l]
  BY DEF clearCache
<1> HIDE DEF l
<1>3. recs_' \in Recs /\ CacheBounded'
  BY <1>1, <1>2, RecsStep
<1>4. clears' \in Nat
  BY DEF clearCache, TypeOK
<1> QED BY <1>3, <1>4 DEF TypeOK, Recs, clearCache

\* Every message handler keeps the types and the bound.
LEMMA TypeHandlers ==
  ASSUME TypeInv, NEW s \in Node, NEW n \in Node, Poll(s, n)
  PROVE  TypeInv'
<1> USE DEF TypeInv
<1>0. PICK i \in DOMAIN net[s][n] :
        \/ updateHome(s, n, i)
        \/ locationRequest(s, n, i)
        \/ resolveResponse(s, n, i)
        \/ existsRequest(s, n, i)
        \/ existsResponse(s, n, i)
  BY DEF Poll
<1> DEFINE m == net[s][n][i]
           q == Take(net, s, n, i)
<1>a. q \in Channels /\ m \in Message
  <2>1. net \in Channels
    BY DEF TypeOK, Channels
  <2> QED BY <2>1, TakeType
<1> HIDE DEF m, q
<1>b. /\ m.id \in Entity
      /\ m.type # "existsResponse" => m.node \in Node
      /\ m.type = "existsResponse" /\ m.exists => m.node \in Node
  BY <1>a, MessageFields
<1>1. CASE updateHome(s, n, i)
  <2>1. /\ m.type = "updateHome"
        /\ announceLocation(n, m.id, m.node, q)
        /\ UNCHANGED <<local_registered_, pending_exists_, callVars>>
    BY <1>1 DEF updateHome, Handles, m, q
  <2>2. /\ recs_' \in Recs /\ CacheBounded'
        /\ net' \in Channels
        /\ pending_' \in [Node -> [Entity -> Nat]]
        /\ pending_home_' \in [Node -> [Entity -> [Node -> Nat]]]
        /\ loc_asks_' \in [Node -> [Entity -> SUBSET Node]]
    BY <1>a, <1>b, <2>1, AnnounceType
  <2> QED BY <2>1, <2>2 DEF TypeOK, Recs, Channels, callVars
<1>2. CASE locationRequest(s, n, i)
  <2>1. /\ m.type = "locationRequest" /\ m.node \in Node
        /\ UNCHANGED <<local_registered_, pending_, pending_exists_, callVars>>
    BY <1>2, <1>b DEF locationRequest, Handles, m
  <2>2. CASE isCached(n, m.id)
    <3> DEFINE a == ResolveResponse(m.id, HomeAnswer(n, m.id))
    <3>1. /\ loc_asks_' = [loc_asks_ EXCEPT ![n][m.id] = @ \cup {m.node}]
          /\ net' = Send(q, n, m.node, a)
          /\ recs_' = [recs_ EXCEPT ![n] = AfterAnswer(n, m.id)]
          /\ UNCHANGED pending_home_
      BY <1>2, <2>2 DEF locationRequest, m, q
    <3>2. a \in Message
      BY <1>b, HomeAnswerType, MessageTypes
    <3> HIDE DEF a
    <3>3. net' \in Channels
      BY <1>a, <2>1, <3>1, <3>2, SendProperties
    <3>4. recs_' \in Recs /\ CacheBounded'
      BY <1>b, <3>1, HitType
    <3>5. loc_asks_' \in [Node -> [Entity -> SUBSET Node]]
      <4>1. loc_asks_ \in [Node -> [Entity -> SUBSET Node]]
        BY DEF TypeOK
      <4>2. loc_asks_[n][m.id] \cup {m.node} \in SUBSET Node
        BY <1>b, <2>1, <4>1
      <4> QED BY <1>b, <3>1, <4>1, <4>2
    <3> QED BY <2>1, <3>1, <3>3, <3>4, <3>5 DEF TypeOK, Recs, Channels, callVars
  <2>3. CASE ~isCached(n, m.id)
    <3>1. /\ pending_home_' = [pending_home_ EXCEPT ![n][m.id][m.node] = @ + 1]
          /\ net' = q
          /\ UNCHANGED <<loc_asks_, recs_>>
      BY <1>2, <2>3 DEF locationRequest, m, q
    <3>2. pending_home_' \in [Node -> [Entity -> [Node -> Nat]]]
      <4>1. pending_home_ \in [Node -> [Entity -> [Node -> Nat]]]
        BY DEF TypeOK
      <4>2. pending_home_[n][m.id][m.node] + 1 \in Nat
        BY <1>b, <2>1, <4>1
      <4> QED BY <1>b, <2>1, <3>1, <4>1, <4>2
    <3>3. CacheBounded'
      BY <3>1 DEF CacheBounded
    <3> QED BY <1>a, <2>1, <3>1, <3>2, <3>3 DEF TypeOK, Channels, callVars
  <2> QED BY <2>2, <2>3
<1>3. CASE resolveResponse(s, n, i)
  <2>1. /\ m.type = "resolveResponse" /\ m.node \in Node
        /\ recs_' = [recs_ EXCEPT ![n] =
                       LookupUpdate(@, m.id, makeRec(n, m.node))]
        /\ pending_' = [pending_ EXCEPT ![n][m.id] = 0]
        /\ net' = q
        /\ UNCHANGED <<local_registered_, pending_exists_, pending_home_,
                       loc_asks_, callVars>>
    BY <1>3, <1>b DEF resolveResponse, Handles, m, q
  <2>2. recs_' \in Recs /\ CacheBounded'
    BY <1>b, <2>1, UpdateType
  <2>3. pending_' \in [Node -> [Entity -> Nat]]
    BY <2>1 DEF TypeOK
  <2> QED BY <1>a, <2>1, <2>2, <2>3 DEF TypeOK, Recs, Channels, callVars
<1>4. CASE existsRequest(s, n, i)
  <2> DEFINE a == IF isCached(n, m.id)
                  THEN ExistsResponse(m.id, TRUE, HomeAnswer(n, m.id))
                  ELSE ExistsResponse(m.id, FALSE, NoNode)
  <2>1. /\ m.type = "existsRequest" /\ m.node \in Node
        /\ net' = Send(q, n, m.node, a)
        /\ recs_' = [recs_ EXCEPT ![n] = AfterAnswer(n, m.id)]
        /\ UNCHANGED <<local_registered_, pending_, pending_exists_,
                       pending_home_, loc_asks_, callVars>>
    BY <1>4, <1>b DEF existsRequest, Handles, m, q
  <2>2. a \in Message
    <3>1. ExistsResponse(m.id, TRUE, HomeAnswer(n, m.id)) \in Message
      BY <1>b, HomeAnswerType, MessageTypes
    <3>2. ExistsResponse(m.id, FALSE, NoNode) \in Message
      BY <1>b, MessageTypes
    <3> QED BY <3>1, <3>2
  <2> HIDE DEF a
  <2>3. net' \in Channels
    BY <1>a, <2>1, <2>2, SendProperties
  <2>4. recs_' \in Recs /\ CacheBounded'
    BY <1>b, <2>1, HitType
  <2> QED BY <2>1, <2>3, <2>4 DEF TypeOK, Recs, Channels, callVars
<1>5. CASE existsResponse(s, n, i)
  <2>1. /\ m.type = "existsResponse"
        /\ recs_' = IF m.exists
                    THEN [recs_ EXCEPT ![n] =
                            LookupUpdate(@, m.id, makeRec(n, m.node))]
                    ELSE recs_
        /\ pending_exists_' = [pending_exists_ EXCEPT ![n][m.id] = 0]
        /\ net' = q
        /\ UNCHANGED <<local_registered_, pending_, pending_home_, loc_asks_,
                       callVars>>
    BY <1>5 DEF existsResponse, Handles, m, q
  <2>2. recs_' \in Recs /\ CacheBounded'
    <3>1. CASE m.exists
      BY <1>b, <2>1, <3>1, UpdateType
    <3>2. CASE ~m.exists
      BY <2>1, <3>2 DEF TypeOK, Recs, CacheBounded
    <3> QED BY <3>1, <3>2
  <2>3. pending_exists_' \in [Node -> [Entity -> Nat]]
    BY <2>1 DEF TypeOK
  <2> QED BY <1>a, <2>1, <2>2, <2>3 DEF TypeOK, Recs, Channels, callVars
<1> QED BY <1>0, <1>1, <1>2, <1>3, <1>4, <1>5

\* In every behaviour the state keeps its types, and no cache outgrows max_size_
\* or holds a key twice (cache.h insert, remove and get, through every handler).
THEOREM TypeCorrect == Spec => [](TypeOK /\ CacheBounded)
<1>1. Init => TypeInv
  BY TypeInit
<1>2. TypeInv /\ [Next]_vars => TypeInv'
  <2> SUFFICES ASSUME TypeInv, [Next]_vars
               PROVE  TypeInv'
    OBVIOUS
  <2>1. CASE Next
    BY <2>1, TypeCalls, TypeClearCache, TypeHandlers DEF Next
  <2>2. CASE UNCHANGED vars
    BY <2>2 DEF vars, coordVars, callVars, TypeInv, TypeOK, CacheBounded
  <2> QED BY <2>1, <2>2
<1>3. Spec => []TypeInv
  BY <1>1, <1>2, PTL DEF Spec
<1> QED BY <1>3, PTL DEF TypeInv

\* In every behaviour no cache outgrows max_size_ or holds a key twice: every
\* handler goes through cache.h's insert, which evicts before it adds.
THEOREM CachesBounded == Spec => []CacheBounded
BY TypeCorrect, PTL

-----------------------------------------------------------------------------
(* What each action does, said in terms of a few observations (who hosts   *)
(* an entity, who has a record of it, who asked, who waits, what is in     *)
(* flight) instead of nested functions.  The other proofs reason about     *)
(* these effects.                                                          *)

\* The observations.  Dir and Cached: the records of rank n about e.
Dir(n, e)    == recs_[n].directory[e]
Cached(n, e) == CacheExists(recs_[n].cache, e)

\* Asked and Buffered: rank r in loc_asks_ and in pending_home_ of rank n.
\* Waits and WaitsExists: callbacks queued on rank n.
Asked(n, e, r)    == r \in loc_asks_[n][e]
Buffered(n, e, r) == pending_home_[n][e][r] > 0
Waits(n, e)       == pending_[n][e] > 0
WaitsExists(n, e) == pending_exists_[n][e] > 0

\* The parts of the state an action leaves as they are.
SameHosts  == \A a \in Node, x \in Entity : Lives(x, a)' <=> Lives(x, a)
SameDir    == \A a \in Node, x \in Entity : Dir(a, x)' = Dir(a, x)
FewerCached == \A a \in Node, x \in Entity : Cached(a, x)' => Cached(a, x)
SameAskers ==
  \A a, r \in Node, x \in Entity :
    (Asked(a, x, r)' <=> Asked(a, x, r)) /\ (Buffered(a, x, r)' <=> Buffered(a, x, r))
SameWaits  == \A a \in Node, x \in Entity : Waits(a, x)' <=> Waits(a, x)
SameExists ==
  \A a \in Node, x \in Entity : WaitsExists(a, x)' <=> WaitsExists(a, x)

\* local_registered_.insert, on one rank.
LEMMA LivesAdd ==
  ASSUME TypeOK, NEW n \in Node, NEW e \in Entity,
         local_registered_' = [local_registered_ EXCEPT ![n] = @ \cup {e}]
  PROVE  \A a \in Node, x \in Entity :
           Lives(x, a)' <=> Lives(x, a) \/ (a = n /\ x = e)
BY DEF TypeOK, Lives

\* local_registered_.erase, on one rank.
LEMMA LivesRemove ==
  ASSUME TypeOK, NEW n \in Node, NEW e \in Entity,
         local_registered_' = [local_registered_ EXCEPT ![n] = @ \ {e}]
  PROVE  \A a \in Node, x \in Entity :
           Lives(x, a)' <=> Lives(x, a) /\ ~(a = n /\ x = e)
BY DEF TypeOK, Lives

\* An action changes the records of one rank.
LEMMA RecsAt ==
  ASSUME TypeOK, NEW n \in Node, NEW l, recs_' = [recs_ EXCEPT ![n] = l]
  PROVE  \A a \in Node : recs_'[a] = IF a = n THEN l ELSE recs_[a]
BY DEF TypeOK

\* recs_.update on rank n: the directory entry is overwritten if there is one;
\* otherwise the key may enter the cache, and other keys may be evicted.
LEMMA UpdateEffect ==
  ASSUME TypeInv, NEW n \in Node, NEW e \in Entity, NEW node \in Node,
         recs_' = [recs_ EXCEPT ![n] = LookupUpdate(@, e, makeRec(n, node))]
  PROVE  /\ \A a \in Node, x \in Entity :
              Dir(a, x)' = IF a = n /\ x = e /\ Dir(n, e) # Absent
                           THEN makeRec(n, node) ELSE Dir(a, x)
         /\ \A a \in Node, x \in Entity :
              Cached(a, x)' =>
                \/ Cached(a, x)
                \/ a = n /\ x = e /\ Dir(n, e) = Absent
<1> DEFINE v == makeRec(n, node)
           l == LookupUpdate(recs_[n], e, v)
<1>1. v \in LocRecord(Node)
  BY makeRecType
<1>2. recs_' = [recs_ EXCEPT ![n] = l]
  OBVIOUS
<1>3. WellFormed(recs_[n], Entity, LocRecord(Node))
  BY RecsWellFormed DEF TypeInv
<1>4. recs_[n].directory \in [Entity -> LocRecord(Node) \cup {Absent}]
  BY <1>3 DEF WellFormed, Lookup
<1> HIDE DEF v
<1>5. /\ DirExists(recs_[n].directory, e) =>
           /\ l.directory = [recs_[n].directory EXCEPT ![e] = v]
           /\ l.cache = recs_[n].cache
      /\ ~DirExists(recs_[n].directory, e) =>
           /\ l.directory = recs_[n].directory
           /\ CacheKeys(l.cache) \subseteq CacheKeys(recs_[n].cache) \cup {e}
  BY <1>1, <1>3, LookupUpdateProperties
<1> HIDE DEF l
<1>6. \A a \in Node : recs_'[a] = IF a = n THEN l ELSE recs_[a]
  BY <1>2, RecsAt DEF TypeInv
<1>7. CASE DirExists(recs_[n].directory, e)
  BY <1>4, <1>5, <1>6, <1>7 DEF Dir, Cached, CacheExists, DirExists, v
<1>8. CASE ~DirExists(recs_[n].directory, e)
  BY <1>5, <1>6, <1>8 DEF Dir, Cached, CacheExists, DirExists
<1> QED BY <1>7, <1>8

\* A change of the lookup that keeps the directory and the cached keys.
LEMMA SameKeys ==
  ASSUME TypeInv, NEW n \in Node, NEW l, recs_' = [recs_ EXCEPT ![n] = l],
         l.directory = recs_[n].directory,
         CacheKeys(l.cache) = CacheKeys(recs_[n].cache)
  PROVE  \A a \in Node, x \in Entity :
           Dir(a, x)' = Dir(a, x) /\ (Cached(a, x)' <=> Cached(a, x))
<1>1. \A a \in Node : recs_'[a] = IF a = n THEN l ELSE recs_[a]
  BY DEF TypeInv, TypeOK
<1> QED BY <1>1 DEF Dir, Cached, CacheExists

\* Answering a query from the records reorders a cache at most.
LEMMA GetEffect ==
  ASSUME TypeInv, NEW n \in Node, NEW e \in Entity,
         \/ recs_' = [recs_ EXCEPT ![n] = AfterAnswer(n, e)]
         \/ isCached(n, e) /\ recs_' = [recs_ EXCEPT ![n] = AfterHit(n, e)]
  PROVE  \A a \in Node, x \in Entity :
           Dir(a, x)' = Dir(a, x) /\ (Cached(a, x)' <=> Cached(a, x))
<1>1. WellFormed(recs_[n], Entity, LocRecord(Node))
  BY RecsWellFormed DEF TypeInv
<1> DEFINE g == LookupGet(recs_[n], e)
<1>2. LookupExists(recs_[n], e) =>
        /\ g.directory = recs_[n].directory
        /\ CacheKeys(g.cache) = CacheKeys(recs_[n].cache)
  BY <1>1, LookupGetProperties
<1> HIDE DEF g
<1>3. CASE recs_' = [recs_ EXCEPT ![n] = AfterAnswer(n, e)]
  <2>1. /\ AfterAnswer(n, e).directory = recs_[n].directory
        /\ CacheKeys(AfterAnswer(n, e).cache) = CacheKeys(recs_[n].cache)
    BY <1>2 DEF AfterAnswer, g
  <2> QED BY <1>3, <2>1, SameKeys
<1>4. CASE isCached(n, e) /\ recs_' = [recs_ EXCEPT ![n] = AfterHit(n, e)]
  <2>1. /\ AfterHit(n, e).directory = recs_[n].directory
        /\ CacheKeys(AfterHit(n, e).cache) = CacheKeys(recs_[n].cache)
    BY <1>2, <1>4 DEF AfterHit, isCached, g
  <2> QED BY <1>4, <2>1, SameKeys
<1> QED BY <1>3, <1>4

\* recs_.remove on rank n.
LEMMA RemoveEffect ==
  ASSUME TypeInv, NEW n \in Node, NEW e \in Entity,
         recs_' = [recs_ EXCEPT ![n] = LookupRemove(@, e)]
  PROVE  \A a \in Node, x \in Entity :
           /\ Dir(a, x)' = IF a = n /\ x = e THEN Absent ELSE Dir(a, x)
           /\ Cached(a, x)' => Cached(a, x)
<1> DEFINE l == LookupRemove(recs_[n], e)
<1>1. WellFormed(recs_[n], Entity, LocRecord(Node))
  BY RecsWellFormed DEF TypeInv
<1>2. recs_[n].directory \in [Entity -> LocRecord(Node) \cup {Absent}]
  BY <1>1 DEF WellFormed, Lookup
<1>3. /\ l.directory = [recs_[n].directory EXCEPT ![e] = Absent]
      /\ CacheKeys(l.cache) \subseteq CacheKeys(recs_[n].cache)
  BY <1>1, LookupRemoveProperties
<1>4. recs_' = [recs_ EXCEPT ![n] = l]
  OBVIOUS
<1> HIDE DEF l
<1>5. \A a \in Node : recs_'[a] = IF a = n THEN l ELSE recs_[a]
  BY <1>4, RecsAt DEF TypeInv
<1> QED BY <1>2, <1>3, <1>5 DEF Dir, Cached, CacheExists

\* recs_.clearCache on rank n.
LEMMA ClearEffect ==
  ASSUME TypeInv, NEW n \in Node,
         recs_' = [recs_ EXCEPT ![n] = LookupClearCache(@)]
  PROVE  \A a \in Node, x \in Entity :
           Dir(a, x)' = Dir(a, x) /\ (Cached(a, x)' => Cached(a, x))
<1> DEFINE l == LookupClearCache(recs_[n])
<1>1. WellFormed(recs_[n], Entity, LocRecord(Node))
  BY RecsWellFormed DEF TypeInv
<1>2. l.directory = recs_[n].directory /\ CacheKeys(l.cache) = {}
  BY <1>1, LookupClearCacheProperties
<1>3. recs_' = [recs_ EXCEPT ![n] = l]
  OBVIOUS
<1> HIDE DEF l
<1>4. \A a \in Node : recs_'[a] = IF a = n THEN l ELSE recs_[a]
  BY <1>3, RecsAt DEF TypeInv
<1> QED BY <1>2, <1>4 DEF Dir, Cached, CacheExists

\* What announceLocation(n, e, node, q) does.
Announces(n, e, node, q) ==
  /\ \A a \in Node, x \in Entity :
       /\ Dir(a, x)' = IF a = n /\ x = e THEN makeRec(n, node) ELSE Dir(a, x)
       /\ Cached(a, x)' <=> Cached(a, x)
  /\ \A a, b \in Node : \A x :
       x \in Msgs(a, b)' <=>
         \/ x \in OnWire(q, a, b)
         \/ /\ a = n /\ x = ResolveResponse(e, node)
            /\ Asked(n, e, b) \/ Buffered(n, e, b)
  /\ \A a, r \in Node, x \in Entity :
       Asked(a, x, r)' <=> Asked(a, x, r) \/ (a = n /\ x = e /\ Buffered(a, x, r))
  /\ \A a, r \in Node, x \in Entity :
       Buffered(a, x, r)' <=> Buffered(a, x, r) /\ ~(a = n /\ x = e)
  /\ \A a \in Node, x \in Entity :
       Waits(a, x)' <=> Waits(a, x) /\ ~(a = n /\ x = e)

\* announceLocation has the effect just stated.
LEMMA AnnounceEffect ==
  ASSUME TypeInv, NEW n \in Node, NEW e \in Entity, NEW node \in Node,
         NEW q \in Channels, announceLocation(n, e, node, q)
  PROVE  Announces(n, e, node, q)
<1>1. \A a \in Node, x \in Entity :
        /\ Dir(a, x)' = IF a = n /\ x = e THEN makeRec(n, node) ELSE Dir(a, x)
        /\ Cached(a, x)' <=> Cached(a, x)
  <2> DEFINE v == makeRec(n, node)
             l == LookupInsert(recs_[n], n, e, n, v)
  <2>1. v \in LocRecord(Node)
    BY makeRecType
  <2>2. recs_' = [recs_ EXCEPT ![n] = l]
    BY DEF announceLocation
  <2> HIDE DEF v
  <2>3. WellFormed(recs_[n], Entity, LocRecord(Node))
    BY RecsWellFormed DEF TypeInv
  <2>4. recs_[n].directory \in [Entity -> LocRecord(Node) \cup {Absent}]
    BY <2>3 DEF WellFormed, Lookup
  <2>5. /\ l.directory = [recs_[n].directory EXCEPT ![e] = v]
        /\ l.cache = recs_[n].cache
    BY <2>1, <2>3, LookupInsertHomeProperties
  <2> HIDE DEF l
  <2>6. \A a \in Node : recs_'[a] = IF a = n THEN l ELSE recs_[a]
    BY <2>2, RecsAt DEF TypeInv
  <2> QED BY <2>4, <2>5, <2>6 DEF Dir, Cached, v
<1>2. \A a, b \in Node : \A x :
        x \in Msgs(a, b)' <=>
          \/ x \in OnWire(q, a, b)
          \/ /\ a = n /\ x = ResolveResponse(e, node)
             /\ Asked(n, e, b) \/ Buffered(n, e, b)
  <2>1. \A b \in Node : Announced(n, e, b) > 0 <=>
          Asked(n, e, b) \/ Buffered(n, e, b)
    BY AnnouncedType DEF TypeInv, Asked, Buffered
  <2>2. \A a, b \in Node : \A x :
          x \in OnWire(net', a, b) <=>
            \/ x \in OnWire(q, a, b)
            \/ a = n /\ Announced(n, e, b) > 0 /\ x = ResolveResponse(e, node)
    BY AnnounceProperties DEF TypeInv
  <2> QED BY <2>1, <2>2 DEF Msgs, OnWire
<1>3. \A a, r \in Node, x \in Entity :
        Asked(a, x, r)' <=>
          Asked(a, x, r) \/ (a = n /\ x = e /\ Buffered(a, x, r))
  BY DEF TypeInv, TypeOK, announceLocation, AskersAfter, Asked, Buffered
<1>4. \A a, r \in Node, x \in Entity :
        Buffered(a, x, r)' <=> Buffered(a, x, r) /\ ~(a = n /\ x = e)
  <2>1. \A a, r \in Node, x \in Entity :
          pending_home_'[a][x][r] =
            IF a = n /\ x = e THEN 0 ELSE pending_home_[a][x][r]
    BY DEF TypeInv, TypeOK, announceLocation
  <2> QED BY <2>1 DEF Buffered
<1>5. \A a \in Node, x \in Entity :
        Waits(a, x)' <=> Waits(a, x) /\ ~(a = n /\ x = e)
  <2>1. \A a \in Node, x \in Entity :
          pending_'[a][x] = IF a = n /\ x = e THEN 0 ELSE pending_[a][x]
    BY DEF TypeInv, TypeOK, announceLocation
  <2> QED BY <2>1 DEF Waits
<1> QED BY <1>1, <1>2, <1>3, <1>4, <1>5 DEF Announces

\* Comm::send, in terms of the messages in flight.
LEMMA SendEffect ==
  ASSUME NEW q \in Channels, NEW s \in Node, NEW d \in Node, NEW m \in Message,
         net' = Send(q, s, d, m)
  PROVE  \A a, b \in Node : \A x :
           x \in Msgs(a, b)' <=>
             x \in OnWire(q, a, b) \/ (a = s /\ b = d /\ x = m)
<1>1. \A a, b \in Node : \A x :
        x \in OnWire(net', a, b) <=>
          x \in OnWire(q, a, b) \/ (a = s /\ b = d /\ x = m)
  BY SendProperties
<1> QED BY <1>1 DEF Msgs, OnWire

\* Dispatching message i of a channel, in terms of the messages in flight.
LEMMA TakeEffect ==
  ASSUME TypeInv, NEW s \in Node, NEW n \in Node, NEW i \in DOMAIN net[s][n],
         NEW q, q = Take(net, s, n, i), NEW m, m = net[s][n][i]
  PROVE  /\ q \in Channels /\ m \in Message /\ m \in Msgs(s, n)
         /\ \A a, b \in Node : \A x :
              x \in Msgs(a, b) <=>
                x \in OnWire(q, a, b) \/ (a = s /\ b = n /\ x = m)
<1>1. net \in Channels
  BY DEF TypeInv, TypeOK, Channels
<1>2. q \in Channels /\ m \in Message /\ m \in OnWire(net, s, n)
  BY <1>1, TakeType
<1>3. \A a, b \in Node : \A x :
        x \in OnWire(net, a, b) <=>
          x \in OnWire(q, a, b) \/ (a = s /\ b = n /\ x = m)
  BY <1>1, TakeMembers
<1> QED BY <1>2, <1>3 DEF Msgs, OnWire

\* A record of a real rank is never the mark of a missing entry.
LEMMA AbsentRecord ==
  ASSUME NEW n, NEW node \in Node
  PROVE  makeRec(n, node) # Absent /\ makeRec(n, node).cur_node = node
BY makeRecType, AbsentAssumption

\* The channels gain at most the message m from s to d.
Sends(s, d, m) ==
  \A a, b \in Node : \A x :
    x \in Msgs(a, b)' <=> x \in Msgs(a, b) \/ (a = s /\ b = d /\ x = m)

\* The channels lose at most one copy of the message m from s to d.
Receives(s, d, m) ==
  \A a, b \in Node : \A x :
    /\ x \in Msgs(a, b)' => x \in Msgs(a, b)
    /\ x \in Msgs(a, b) => x \in Msgs(a, b)' \/ (a = s /\ b = d /\ x = m)

\* ... and gain the reply r from d to the rank to.
Replies(s, d, m, to, r) ==
  /\ r \in Msgs(d, to)'
  /\ \A a, b \in Node : \A x :
       /\ x \in Msgs(a, b)' =>
            x \in Msgs(a, b) \/ (a = d /\ b = to /\ x = r)
       /\ x \in Msgs(a, b) => x \in Msgs(a, b)' \/ (a = s /\ b = d /\ x = m)

\* The effect of registerEntity and entityImmigrated.
Registers(n, e) ==
  /\ \A a \in Node, x \in Entity :
       Lives(x, a)' <=> Lives(x, a) \/ (a = n /\ x = e)
  /\ SameExists
  /\ Home[e] = n => Announces(n, e, n, net)
  /\ Home[e] # n => /\ SameDir /\ FewerCached /\ SameAskers /\ SameWaits
                    /\ Sends(n, Home[e], UpdateHome(e, n))

\* registerEntity and entityImmigrated: on the home the location is announced,
\* elsewhere one updateHome is sent.
LEMMA RegisterEffect ==
  ASSUME TypeInv, NEW n \in Node, NEW e \in Entity, RegisterHere(n, e)
  PROVE  Registers(n, e)
<1> USE DEF Registers
<1>0. net \in Channels /\ Home[e] \in Node
  BY ConstantsAssumption DEF TypeInv, TypeOK, Channels
<1>1. \A a \in Node, x \in Entity :
        Lives(x, a)' <=> Lives(x, a) \/ (a = n /\ x = e)
  BY LivesAdd DEF RegisterHere, TypeInv
<1>2. SameExists
  BY DEF RegisterHere, SameExists, WaitsExists
<1>3. ASSUME Home[e] = n PROVE Announces(n, e, n, net)
  <2>1. announceLocation(n, e, n, net)
    BY <1>3 DEF RegisterHere
  <2> QED BY <1>0, <2>1, AnnounceEffect
<1>4. ASSUME Home[e] # n
      PROVE  /\ SameDir /\ FewerCached /\ SameAskers /\ SameWaits
             /\ Sends(n, Home[e], UpdateHome(e, n))
  <2>1. /\ net' = Send(net, n, Home[e], UpdateHome(e, n))
        /\ UNCHANGED <<recs_, loc_asks_, pending_home_, pending_>>
    BY <1>4 DEF RegisterHere
  <2>2. /\ SameDir /\ FewerCached /\ SameAskers /\ SameWaits
    BY <2>1 DEF SameDir, FewerCached, SameAskers, SameWaits, Dir, Cached, Asked,
                Buffered, Waits
  <2>3. UpdateHome(e, n) \in Message
    BY MessageTypes
  <2>4. \A a, b \in Node : \A x :
          x \in Msgs(a, b)' <=> \/ x \in OnWire(net, a, b)
                                \/ a = n /\ b = Home[e] /\ x = UpdateHome(e, n)
    BY <1>0, <2>1, <2>3, SendEffect
  <2> QED BY <2>2, <2>4 DEF Sends, Msgs, OnWire
<1> QED BY <1>1, <1>2, <1>3, <1>4

\* The effect of entityEmigrated.
Emigrates(n, e, new_node) ==
  /\ \A a \in Node, x \in Entity :
       Lives(x, a)' <=> Lives(x, a) /\ ~(a = n /\ x = e)
  /\ \A a \in Node, x \in Entity :
       Dir(a, x)' = IF a = n /\ x = e /\ Dir(n, e) # Absent
                    THEN makeRec(n, new_node) ELSE Dir(a, x)
  /\ \A a \in Node, x \in Entity :
       Cached(a, x)' =>
         \/ Cached(a, x)
         \/ a = n /\ x = e /\ Dir(n, e) = Absent
  /\ SameAskers /\ SameWaits /\ SameExists
  /\ \A a, b \in Node : Msgs(a, b)' = Msgs(a, b)

\* entityEmigrated: the host is given up and only its own record redirected;
\* no message is sent.
LEMMA EmigrateEffect ==
  ASSUME TypeInv, NEW n \in Node, NEW e \in Entity, NEW new_node \in Node,
         entityEmigrated(n, e, new_node)
  PROVE  Emigrates(n, e, new_node)
<1> USE DEF Emigrates
<1>1. /\ local_registered_' = [local_registered_ EXCEPT ![n] = @ \ {e}]
      /\ recs_' = [recs_ EXCEPT ![n] = LookupUpdate(@, e, makeRec(n, new_node))]
      /\ UNCHANGED <<pending_, pending_exists_, pending_home_, loc_asks_, net>>
  BY DEF entityEmigrated
<1>2. /\ SameAskers /\ SameWaits /\ SameExists
      /\ \A a, b \in Node : Msgs(a, b)' = Msgs(a, b)
  BY <1>1 DEF SameAskers, SameWaits, SameExists, Asked, Buffered, Waits,
              WaitsExists, Msgs
<1>3. \A a \in Node, x \in Entity :
        Lives(x, a)' <=> Lives(x, a) /\ ~(a = n /\ x = e)
  BY <1>1, LivesRemove DEF TypeInv
<1>4. /\ \A a \in Node, x \in Entity :
           Dir(a, x)' = IF a = n /\ x = e /\ Dir(n, e) # Absent
                        THEN makeRec(n, new_node) ELSE Dir(a, x)
      /\ \A a \in Node, x \in Entity :
           Cached(a, x)' =>
             \/ Cached(a, x)
             \/ a = n /\ x = e /\ Dir(n, e) = Absent
  BY <1>1, UpdateEffect
<1> QED BY <1>2, <1>3, <1>4

\* The effect of unregisterEntity.
Unregisters(n, e) ==
  /\ \A a \in Node, x \in Entity :
       Lives(x, a)' <=> Lives(x, a) /\ ~(a = n /\ x = e)
  /\ \A a \in Node, x \in Entity :
       Dir(a, x)' = IF a = n /\ x = e THEN Absent ELSE Dir(a, x)
  /\ FewerCached /\ SameAskers /\ SameWaits /\ SameExists
  /\ \A a, b \in Node : Msgs(a, b)' = Msgs(a, b)

\* unregisterEntity: the host and its record are removed; no message is sent.
LEMMA UnregisterEffect ==
  ASSUME TypeInv, NEW n \in Node, NEW e \in Entity, unregisterEntity(n, e)
  PROVE  Unregisters(n, e)
<1> USE DEF Unregisters
<1>1. /\ local_registered_' = [local_registered_ EXCEPT ![n] = @ \ {e}]
      /\ recs_' = [recs_ EXCEPT ![n] = LookupRemove(@, e)]
      /\ UNCHANGED <<pending_, pending_exists_, pending_home_, loc_asks_, net>>
  BY DEF unregisterEntity
<1>2. /\ SameAskers /\ SameWaits /\ SameExists
      /\ \A a, b \in Node : Msgs(a, b)' = Msgs(a, b)
  BY <1>1 DEF SameAskers, SameWaits, SameExists, Asked, Buffered, Waits,
              WaitsExists, Msgs
<1>3. \A a \in Node, x \in Entity :
        Lives(x, a)' <=> Lives(x, a) /\ ~(a = n /\ x = e)
  BY <1>1, LivesRemove DEF TypeInv
<1>4. \A a \in Node, x \in Entity :
        /\ Dir(a, x)' = IF a = n /\ x = e THEN Absent ELSE Dir(a, x)
        /\ Cached(a, x)' => Cached(a, x)
  BY <1>1, RemoveEffect
<1> QED BY <1>2, <1>3, <1>4 DEF FewerCached

\* The effect of getLocation.
AsksLocation(n, e) ==
  /\ SameHosts /\ SameDir /\ FewerCached /\ SameAskers /\ SameExists
  /\ \A a \in Node, x \in Entity :
       Waits(a, x)' <=>
         Waits(a, x) \/ (a = n /\ x = e /\ ~isCached(n, e))
  /\ IF ~isCached(n, e) /\ ~Waits(n, e) /\ Home[e] # n
     THEN Sends(n, Home[e], LocationRequest(e, n))
     ELSE \A a, b \in Node : Msgs(a, b)' = Msgs(a, b)

\* getLocation: an unknown entity adds a waiter, and the first waiter of a rank
\* that is not the home sends the one request.
LEMMA GetLocationEffect ==
  ASSUME TypeInv, NEW n \in Node, NEW e \in Entity, getLocation(n, e)
  PROVE  AsksLocation(n, e)
<1> USE DEF AsksLocation
<1>0. /\ net \in Channels /\ Home[e] \in Node
      /\ pending_ \in [Node -> [Entity -> Nat]]
  BY ConstantsAssumption DEF TypeInv, TypeOK, Channels
<1>1. UNCHANGED <<local_registered_, pending_exists_, pending_home_, loc_asks_>>
  BY DEF getLocation
<1>2. SameHosts /\ SameAskers /\ SameExists
  BY <1>1 DEF SameHosts, SameAskers, SameExists, Lives, Asked, Buffered,
              WaitsExists
<1>3. CASE isCached(n, e)
  <2>1. /\ recs_' = [recs_ EXCEPT ![n] = AfterHit(n, e)]
        /\ UNCHANGED <<pending_, net>>
    BY <1>3 DEF getLocation
  <2>2. SameDir /\ FewerCached
    BY <1>3, <2>1, GetEffect DEF SameDir, FewerCached
  <2>3. \A a \in Node, x \in Entity : Waits(a, x)' <=> Waits(a, x)
    BY <2>1 DEF Waits
  <2>4. \A a, b \in Node : Msgs(a, b)' = Msgs(a, b)
    BY <2>1 DEF Msgs
  <2> QED BY <1>2, <1>3, <2>2, <2>3, <2>4
<1>4. CASE ~isCached(n, e)
  <2>1. /\ pending_' = [pending_ EXCEPT ![n][e] = @ + 1]
        /\ net' = IF pending_'[n][e] = 1 /\ Home[e] # n
                  THEN Send(net, n, Home[e], LocationRequest(e, n))
                  ELSE net
        /\ UNCHANGED recs_
    BY <1>4 DEF getLocation
  <2>2. SameDir /\ FewerCached
    BY <2>1 DEF SameDir, FewerCached, Dir, Cached
  <2>3. \A a \in Node, x \in Entity :
          pending_'[a][x] = IF a = n /\ x = e THEN pending_[a][x] + 1
                                              ELSE pending_[a][x]
    BY <1>0, <2>1
  <2>4. \A a \in Node, x \in Entity :
          Waits(a, x)' <=> Waits(a, x) \/ (a = n /\ x = e)
    BY <1>0, <2>3 DEF Waits
  <2>5. pending_'[n][e] = 1 <=> ~Waits(n, e)
    BY <1>0, <2>3 DEF Waits
  <2>6. CASE ~Waits(n, e) /\ Home[e] # n
    <3>1. net' = Send(net, n, Home[e], LocationRequest(e, n))
      BY <2>1, <2>5, <2>6
    <3>2. LocationRequest(e, n) \in Message
      BY MessageTypes
    <3>3. \A a, b \in Node : \A x :
            x \in Msgs(a, b)' <=>
              \/ x \in OnWire(net, a, b)
              \/ a = n /\ b = Home[e] /\ x = LocationRequest(e, n)
      BY <1>0, <3>1, <3>2, SendEffect
    <3>4. Sends(n, Home[e], LocationRequest(e, n))
      BY <3>3 DEF Sends, Msgs, OnWire
    <3> QED BY <1>2, <1>4, <2>2, <2>4, <2>6, <3>4
  <2>7. CASE ~(~Waits(n, e) /\ Home[e] # n)
    <3>1. net' = net
      BY <2>1, <2>5, <2>7
    <3>2. \A a, b \in Node : Msgs(a, b)' = Msgs(a, b)
      BY <3>1 DEF Msgs
    <3> QED BY <1>2, <1>4, <2>2, <2>4, <2>7, <3>2
  <2> QED BY <2>6, <2>7
<1> QED BY <1>3, <1>4

\* The effect of entityExists.
AsksExistence(n, e) ==
  /\ SameHosts /\ SameDir /\ FewerCached /\ SameAskers /\ SameWaits
  /\ \A a \in Node, x \in Entity :
       WaitsExists(a, x)' <=>
         \/ WaitsExists(a, x)
         \/ a = n /\ x = e /\ ~isCached(n, e) /\ Home[e] # n
  /\ IF ~isCached(n, e) /\ ~WaitsExists(n, e) /\ Home[e] # n
     THEN Sends(n, Home[e], ExistsRequest(e, n))
     ELSE \A a, b \in Node : Msgs(a, b)' = Msgs(a, b)

\* entityExists: as getLocation, except that the home answers at once.
LEMMA EntityExistsEffect ==
  ASSUME TypeInv, NEW n \in Node, NEW e \in Entity, entityExists(n, e)
  PROVE  AsksExistence(n, e)
<1> USE DEF AsksExistence
<1>0. /\ net \in Channels /\ Home[e] \in Node
      /\ pending_exists_ \in [Node -> [Entity -> Nat]]
  BY ConstantsAssumption DEF TypeInv, TypeOK, Channels
<1>1. UNCHANGED <<local_registered_, pending_, pending_home_, loc_asks_>>
  BY DEF entityExists
<1>2. SameHosts /\ SameAskers /\ SameWaits
  BY <1>1 DEF SameHosts, SameAskers, SameWaits, Lives, Asked, Buffered, Waits
<1>3. CASE isCached(n, e)
  <2>1. /\ recs_' = [recs_ EXCEPT ![n] = AfterHit(n, e)]
        /\ UNCHANGED <<pending_exists_, net>>
    BY <1>3 DEF entityExists
  <2>2. SameDir /\ FewerCached
    BY <1>3, <2>1, GetEffect DEF SameDir, FewerCached
  <2>3. \A a \in Node, x \in Entity : WaitsExists(a, x)' <=> WaitsExists(a, x)
    BY <2>1 DEF WaitsExists
  <2>4. \A a, b \in Node : Msgs(a, b)' = Msgs(a, b)
    BY <2>1 DEF Msgs
  <2> QED BY <1>2, <1>3, <2>2, <2>3, <2>4
<1>4. CASE ~isCached(n, e) /\ Home[e] = n
  <2>1. UNCHANGED <<recs_, pending_exists_, net>>
    BY <1>4 DEF entityExists
  <2>2. SameDir /\ FewerCached
    BY <2>1 DEF SameDir, FewerCached, Dir, Cached
  <2>3. \A a \in Node, x \in Entity : WaitsExists(a, x)' <=> WaitsExists(a, x)
    BY <2>1 DEF WaitsExists
  <2>4. \A a, b \in Node : Msgs(a, b)' = Msgs(a, b)
    BY <2>1 DEF Msgs
  <2> QED BY <1>2, <1>4, <2>2, <2>3, <2>4
<1>5. CASE ~isCached(n, e) /\ Home[e] # n
  <2>1. /\ pending_exists_' = [pending_exists_ EXCEPT ![n][e] = @ + 1]
        /\ net' = IF pending_exists_'[n][e] = 1
                  THEN Send(net, n, Home[e], ExistsRequest(e, n))
                  ELSE net
        /\ UNCHANGED recs_
    BY <1>5 DEF entityExists
  <2>2. SameDir /\ FewerCached
    BY <2>1 DEF SameDir, FewerCached, Dir, Cached
  <2>3. \A a \in Node, x \in Entity :
          pending_exists_'[a][x] = IF a = n /\ x = e
                                   THEN pending_exists_[a][x] + 1
                                   ELSE pending_exists_[a][x]
    BY <1>0, <2>1
  <2>4. \A a \in Node, x \in Entity :
          WaitsExists(a, x)' <=> WaitsExists(a, x) \/ (a = n /\ x = e)
    BY <1>0, <2>3 DEF WaitsExists
  <2>5. pending_exists_'[n][e] = 1 <=> ~WaitsExists(n, e)
    BY <1>0, <2>3 DEF WaitsExists
  <2>6. CASE ~WaitsExists(n, e)
    <3>1. net' = Send(net, n, Home[e], ExistsRequest(e, n))
      BY <2>1, <2>5, <2>6
    <3>2. ExistsRequest(e, n) \in Message
      BY MessageTypes
    <3>3. \A a, b \in Node : \A x :
            x \in Msgs(a, b)' <=>
              \/ x \in OnWire(net, a, b)
              \/ a = n /\ b = Home[e] /\ x = ExistsRequest(e, n)
      BY <1>0, <3>1, <3>2, SendEffect
    <3>4. Sends(n, Home[e], ExistsRequest(e, n))
      BY <3>3 DEF Sends, Msgs, OnWire
    <3> QED BY <1>2, <1>5, <2>2, <2>4, <2>6, <3>4
  <2>7. CASE WaitsExists(n, e)
    <3>1. net' = net
      BY <2>1, <2>5, <2>7
    <3>2. \A a, b \in Node : Msgs(a, b)' = Msgs(a, b)
      BY <3>1 DEF Msgs
    <3> QED BY <1>2, <1>5, <2>2, <2>4, <2>7, <3>2
  <2> QED BY <2>6, <2>7
<1> QED BY <1>3, <1>4, <1>5

\* The effect of clearCache.
ClearsCache ==
  /\ SameHosts /\ SameDir /\ FewerCached /\ SameAskers /\ SameWaits
  /\ SameExists
  /\ \A a, b \in Node : Msgs(a, b)' = Msgs(a, b)

\* clearCache drops cached records and nothing else.
LEMMA ClearCacheEffect ==
  ASSUME TypeInv, NEW n \in Node, clearCache(n)
  PROVE  ClearsCache
<1> USE DEF ClearsCache
<1>1. /\ recs_' = [recs_ EXCEPT ![n] = LookupClearCache(@)]
      /\ UNCHANGED <<local_registered_, pending_, pending_exists_, pending_home_,
                     loc_asks_, net>>
  BY DEF clearCache
<1>2. /\ SameHosts /\ SameAskers /\ SameWaits /\ SameExists
      /\ \A a, b \in Node : Msgs(a, b)' = Msgs(a, b)
  BY <1>1 DEF SameHosts, SameAskers, SameWaits, SameExists, Lives, Asked,
              Buffered, Waits, WaitsExists, Msgs
<1>3. SameDir /\ FewerCached
  BY <1>1, ClearEffect DEF SameDir, FewerCached
<1> QED BY <1>2, <1>3

\* The effect of the updateHome handler.
HandlesUpdateHome(s, n, m) ==
  /\ m \in Msgs(s, n) /\ m.type = "updateHome"
  /\ m.id \in Entity /\ m.node \in Node
  /\ SameHosts /\ SameExists
  /\ \E q \in Channels :
       /\ Announces(n, m.id, m.node, q)
       /\ \A a, b \in Node : \A x :
            x \in Msgs(a, b) <=>
              x \in OnWire(q, a, b) \/ (a = s /\ b = n /\ x = m)

\* updateHome: the message is taken and the location it carries is announced.
LEMMA UpdateHomeEffect ==
  ASSUME TypeInv, NEW s \in Node, NEW n \in Node, NEW i \in DOMAIN net[s][n],
         updateHome(s, n, i), NEW m, m = net[s][n][i]
  PROVE  HandlesUpdateHome(s, n, m)
<1> USE DEF HandlesUpdateHome
<1> DEFINE q == Take(net, s, n, i)
<1>1. /\ q \in Channels /\ m \in Message /\ m \in Msgs(s, n)
      /\ \A a, b \in Node : \A x :
           x \in Msgs(a, b) <=>
             x \in OnWire(q, a, b) \/ (a = s /\ b = n /\ x = m)
  BY TakeEffect
<1>2. /\ m.type = "updateHome"
      /\ announceLocation(n, m.id, m.node, q)
      /\ UNCHANGED <<local_registered_, pending_exists_>>
  BY DEF updateHome, Handles
<1> HIDE DEF q
<1>3. m.id \in Entity /\ m.node \in Node
  BY <1>1, <1>2, MessageFields
<1>4. Announces(n, m.id, m.node, q)
  BY <1>1, <1>2, <1>3, AnnounceEffect
<1>5. SameHosts /\ SameExists
  BY <1>2 DEF SameHosts, SameExists, Lives, WaitsExists
<1> QED BY <1>1, <1>2, <1>3, <1>4, <1>5

\* Taking a message and sending an answer, in terms of the messages in flight.
LEMMA ReplyEffect ==
  ASSUME NEW q \in Channels, NEW s \in Node, NEW n \in Node, NEW to \in Node,
         NEW m, NEW r \in Message, net' = Send(q, n, to, r),
         \A a, b \in Node : \A x :
           x \in Msgs(a, b) <=>
             x \in OnWire(q, a, b) \/ (a = s /\ b = n /\ x = m)
  PROVE  Replies(s, n, m, to, r)
<1>1. \A a, b \in Node : \A x :
        x \in Msgs(a, b)' <=>
          x \in OnWire(q, a, b) \/ (a = n /\ b = to /\ x = r)
  BY SendEffect
<1> QED BY <1>1 DEF Replies

\* The effect of the locationRequest handler.
HandlesLocationRequest(s, n, m) ==
  /\ m \in Msgs(s, n) /\ m.type = "locationRequest"
  /\ m.id \in Entity /\ m.node \in Node
  /\ SameHosts /\ SameDir /\ FewerCached /\ SameWaits /\ SameExists
  /\ isCached(n, m.id) =>
       /\ \E node \in Node :
            Replies(s, n, m, m.node, ResolveResponse(m.id, node))
       /\ \A a, r \in Node, x \in Entity :
            /\ Asked(a, x, r)' <=>
                 Asked(a, x, r) \/ (a = n /\ x = m.id /\ r = m.node)
            /\ Buffered(a, x, r)' <=> Buffered(a, x, r)
  /\ ~isCached(n, m.id) =>
       /\ Receives(s, n, m)
       /\ \A a, r \in Node, x \in Entity :
            /\ Asked(a, x, r)' <=> Asked(a, x, r)
            /\ Buffered(a, x, r)' <=>
                 Buffered(a, x, r) \/ (a = n /\ x = m.id /\ r = m.node)

\* locationRequest: a known entity is answered and the requester remembered; a
\* request for an unknown one is buffered.
LEMMA LocationRequestEffect ==
  ASSUME TypeInv, NEW s \in Node, NEW n \in Node, NEW i \in DOMAIN net[s][n],
         locationRequest(s, n, i), NEW m, m = net[s][n][i]
  PROVE  HandlesLocationRequest(s, n, m)
<1> USE DEF HandlesLocationRequest
<1> DEFINE q == Take(net, s, n, i)
           e == m.id
           r == m.node
<1>1. /\ q \in Channels /\ m \in Message /\ m \in Msgs(s, n)
      /\ \A a, b \in Node : \A x :
           x \in Msgs(a, b) <=>
             x \in OnWire(q, a, b) \/ (a = s /\ b = n /\ x = m)
  BY TakeEffect
<1>2. /\ m.type = "locationRequest"
      /\ UNCHANGED <<local_registered_, pending_, pending_exists_>>
  BY DEF locationRequest, Handles
<1>3. e \in Entity /\ r \in Node
  BY <1>1, <1>2, MessageFields
<1>4. SameHosts /\ SameWaits /\ SameExists
  BY <1>2 DEF SameHosts, SameWaits, SameExists, Lives, Waits, WaitsExists
<1>5. CASE isCached(n, e)
  <2> DEFINE node == HomeAnswer(n, e)
  <2>1. /\ loc_asks_' = [loc_asks_ EXCEPT ![n][e] = @ \cup {r}]
        /\ net' = Send(q, n, r, ResolveResponse(e, node))
        /\ recs_' = [recs_ EXCEPT ![n] = AfterAnswer(n, e)]
        /\ UNCHANGED pending_home_
    BY <1>5 DEF locationRequest
  <2> HIDE DEF q, e, r
  <2>2. node \in Node
    BY <1>3, HomeAnswerType DEF TypeInv
  <2> HIDE DEF node
  <2>3. ResolveResponse(e, node) \in Message
    BY <1>3, <2>2, MessageTypes
  <2>4. Replies(s, n, m, r, ResolveResponse(e, node))
    BY <1>1, <1>3, <2>1, <2>3, ReplyEffect
  <2>5. SameDir /\ FewerCached
    BY <1>3, <2>1, GetEffect DEF SameDir, FewerCached
  <2>6. \A a, c \in Node, x \in Entity :
          Asked(a, x, c)' <=> Asked(a, x, c) \/ (a = n /\ x = e /\ c = r)
    <3>1. loc_asks_ \in [Node -> [Entity -> SUBSET Node]]
      BY DEF TypeInv, TypeOK
    <3> QED BY <1>3, <2>1, <3>1 DEF Asked
  <2>7. \A a, c \in Node, x \in Entity : Buffered(a, x, c)' <=> Buffered(a, x, c)
    BY <2>1 DEF Buffered
  <2> QED BY <1>1, <1>2, <1>3, <1>4, <1>5, <2>2, <2>4, <2>5, <2>6, <2>7 DEF e, r
<1>6. CASE ~isCached(n, e)
  <2>1. /\ pending_home_' = [pending_home_ EXCEPT ![n][e][r] = @ + 1]
        /\ net' = q
        /\ UNCHANGED <<loc_asks_, recs_>>
    BY <1>6 DEF locationRequest
  <2> HIDE DEF q, e, r
  <2>2. SameDir /\ FewerCached
    BY <2>1 DEF SameDir, FewerCached, Dir, Cached
  <2>3. \A a, c \in Node, x \in Entity : Asked(a, x, c)' <=> Asked(a, x, c)
    BY <2>1 DEF Asked
  <2>4. \A a, c \in Node, x \in Entity :
          Buffered(a, x, c)' <=> Buffered(a, x, c) \/ (a = n /\ x = e /\ c = r)
    <3>1. pending_home_ \in [Node -> [Entity -> [Node -> Nat]]]
      BY DEF TypeInv, TypeOK
    <3>2. \A a, c \in Node, x \in Entity :
            pending_home_'[a][x][c] = IF a = n /\ x = e /\ c = r
                                      THEN pending_home_[a][x][c] + 1
                                      ELSE pending_home_[a][x][c]
      BY <1>3, <2>1, <3>1
    <3> QED BY <3>1, <3>2 DEF Buffered
  <2>5. Receives(s, n, m)
    BY <1>1, <2>1 DEF Receives, Msgs, OnWire
  <2> QED BY <1>1, <1>2, <1>3, <1>4, <1>6, <2>2, <2>3, <2>4, <2>5 DEF e, r
<1> QED BY <1>5, <1>6

\* The effect of the resolveResponse handler.
HandlesResolveResponse(s, n, m) ==
  /\ m \in Msgs(s, n) /\ m.type = "resolveResponse"
  /\ m.id \in Entity /\ m.node \in Node
  /\ SameHosts /\ SameAskers /\ SameExists
  /\ \A a \in Node, x \in Entity :
       /\ Dir(a, x)' = IF a = n /\ x = m.id /\ Dir(n, m.id) # Absent
                       THEN makeRec(n, m.node) ELSE Dir(a, x)
       /\ Cached(a, x)' => Cached(a, x) \/ (a = n /\ x = m.id)
       /\ Waits(a, x)' <=> Waits(a, x) /\ ~(a = n /\ x = m.id)
  /\ Receives(s, n, m)

\* resolveResponse: the record is stored and the waiters of the entity fire.
LEMMA ResolveResponseEffect ==
  ASSUME TypeInv, NEW s \in Node, NEW n \in Node, NEW i \in DOMAIN net[s][n],
         resolveResponse(s, n, i), NEW m, m = net[s][n][i]
  PROVE  HandlesResolveResponse(s, n, m)
<1> USE DEF HandlesResolveResponse
<1> DEFINE q == Take(net, s, n, i)
           e == m.id
           r == m.node
<1>1. /\ q \in Channels /\ m \in Message /\ m \in Msgs(s, n)
      /\ \A a, b \in Node : \A x :
           x \in Msgs(a, b) <=>
             x \in OnWire(q, a, b) \/ (a = s /\ b = n /\ x = m)
  BY TakeEffect
<1>2. /\ m.type = "resolveResponse"
      /\ recs_' = [recs_ EXCEPT ![n] = LookupUpdate(@, e, makeRec(n, r))]
      /\ pending_' = [pending_ EXCEPT ![n][e] = 0]
      /\ net' = q
      /\ UNCHANGED <<local_registered_, pending_exists_, pending_home_, loc_asks_>>
  BY DEF resolveResponse, Handles
<1>3. e \in Entity /\ r \in Node
  BY <1>1, <1>2, MessageFields
<1> HIDE DEF q, e, r
<1>4. SameHosts /\ SameAskers /\ SameExists
  BY <1>2 DEF SameHosts, SameAskers, SameExists, Lives, Asked, Buffered,
              WaitsExists
<1>5. \A a \in Node, x \in Entity :
        Waits(a, x)' <=> Waits(a, x) /\ ~(a = n /\ x = e)
  <2>1. \A a \in Node, x \in Entity :
          pending_'[a][x] = IF a = n /\ x = e THEN 0 ELSE pending_[a][x]
    BY <1>2, <1>3 DEF TypeInv, TypeOK
  <2> QED BY <2>1 DEF Waits
<1>6. Receives(s, n, m)
  BY <1>1, <1>2 DEF Receives, Msgs, OnWire
<1>7. \A a \in Node, x \in Entity :
        /\ Dir(a, x)' = IF a = n /\ x = e /\ Dir(n, e) # Absent
                        THEN makeRec(n, r) ELSE Dir(a, x)
        /\ Cached(a, x)' => Cached(a, x) \/ (a = n /\ x = e)
  <2>1. /\ \A a \in Node, x \in Entity :
             Dir(a, x)' = IF a = n /\ x = e /\ Dir(n, e) # Absent
                          THEN makeRec(n, r) ELSE Dir(a, x)
        /\ \A a \in Node, x \in Entity :
             Cached(a, x)' =>
               \/ Cached(a, x)
               \/ a = n /\ x = e /\ Dir(n, e) = Absent
    BY <1>2, <1>3, UpdateEffect
  <2> QED BY <2>1
<1> QED BY <1>1, <1>2, <1>3, <1>4, <1>5, <1>6, <1>7 DEF e, r

\* The effect of the existsRequest handler.
HandlesExistsRequest(s, n, m) ==
  /\ m \in Msgs(s, n) /\ m.type = "existsRequest"
  /\ m.id \in Entity /\ m.node \in Node
  /\ SameHosts /\ SameDir /\ FewerCached /\ SameAskers /\ SameWaits
  /\ SameExists
  /\ \E r \in Message : /\ r.type = "existsResponse" /\ r.id = m.id
                        /\ Replies(s, n, m, m.node, r)

\* existsRequest: answered with one existsResponse; nobody is remembered.
LEMMA ExistsRequestEffect ==
  ASSUME TypeInv, NEW s \in Node, NEW n \in Node, NEW i \in DOMAIN net[s][n],
         existsRequest(s, n, i), NEW m, m = net[s][n][i]
  PROVE  HandlesExistsRequest(s, n, m)
<1> USE DEF HandlesExistsRequest
<1> DEFINE q == Take(net, s, n, i)
           e == m.id
           d == m.node
           r == IF isCached(n, e) THEN ExistsResponse(e, TRUE, HomeAnswer(n, e))
                                  ELSE ExistsResponse(e, FALSE, NoNode)
<1>1. /\ q \in Channels /\ m \in Message /\ m \in Msgs(s, n)
      /\ \A a, b \in Node : \A x :
           x \in Msgs(a, b) <=>
             x \in OnWire(q, a, b) \/ (a = s /\ b = n /\ x = m)
  BY TakeEffect
<1>2. /\ m.type = "existsRequest"
      /\ net' = Send(q, n, d, r)
      /\ recs_' = [recs_ EXCEPT ![n] = AfterAnswer(n, e)]
      /\ UNCHANGED <<local_registered_, pending_, pending_exists_, pending_home_,
                     loc_asks_>>
  BY DEF existsRequest, Handles
<1>3. e \in Entity /\ d \in Node
  BY <1>1, <1>2, MessageFields
<1> HIDE DEF q, e, d
<1>4. r \in Message /\ r.type = "existsResponse" /\ r.id = e
  <2>1. /\ ExistsResponse(e, TRUE, HomeAnswer(n, e)) \in Message
        /\ ExistsResponse(e, FALSE, NoNode) \in Message
    BY <1>3, HomeAnswerType, MessageTypes DEF TypeInv
  <2> QED BY <2>1 DEF ExistsResponse
<1> HIDE DEF r
<1>5. /\ SameHosts /\ SameAskers /\ SameWaits /\ SameExists
  BY <1>2 DEF SameHosts, SameAskers, SameWaits, SameExists, Lives, Asked,
              Buffered, Waits, WaitsExists
<1>6. SameDir /\ FewerCached
  BY <1>2, <1>3, GetEffect DEF SameDir, FewerCached
<1>7. Replies(s, n, m, d, r)
  BY <1>1, <1>2, <1>3, <1>4, ReplyEffect
<1> QED BY <1>1, <1>2, <1>3, <1>4, <1>5, <1>6, <1>7 DEF e, d

\* The effect of the existsResponse handler.
HandlesExistsResponse(s, n, m) ==
  /\ m \in Msgs(s, n) /\ m.type = "existsResponse" /\ m.id \in Entity
  /\ SameHosts /\ SameAskers /\ SameWaits
  /\ \A a \in Node, x \in Entity :
       /\ a # n \/ x # m.id => Dir(a, x)' = Dir(a, x)
       /\ Dir(a, x)' # Absent <=> Dir(a, x) # Absent
       /\ Cached(a, x)' => Cached(a, x) \/ (a = n /\ x = m.id)
       /\ WaitsExists(a, x)' <=>
            WaitsExists(a, x) /\ ~(a = n /\ x = m.id)
  /\ Receives(s, n, m)

\* existsResponse: a positive answer is stored, and the waiters fire either way.
LEMMA ExistsResponseEffect ==
  ASSUME TypeInv, NEW s \in Node, NEW n \in Node, NEW i \in DOMAIN net[s][n],
         existsResponse(s, n, i), NEW m, m = net[s][n][i]
  PROVE  HandlesExistsResponse(s, n, m)
<1> USE DEF HandlesExistsResponse
<1> DEFINE q == Take(net, s, n, i)
           e == m.id
           r == m.node
<1>1. /\ q \in Channels /\ m \in Message /\ m \in Msgs(s, n)
      /\ \A a, b \in Node : \A x :
           x \in Msgs(a, b) <=>
             x \in OnWire(q, a, b) \/ (a = s /\ b = n /\ x = m)
  BY TakeEffect
<1>2. /\ m.type = "existsResponse"
      /\ recs_' = IF m.exists
                  THEN [recs_ EXCEPT ![n] = LookupUpdate(@, e, makeRec(n, r))]
                  ELSE recs_
      /\ pending_exists_' = [pending_exists_ EXCEPT ![n][e] = 0]
      /\ net' = q
      /\ UNCHANGED <<local_registered_, pending_, pending_home_, loc_asks_>>
  BY DEF existsResponse, Handles
<1>3. e \in Entity /\ (m.exists => r \in Node)
  BY <1>1, <1>2, MessageFields
<1> HIDE DEF q, e, r
<1>4. SameHosts /\ SameAskers /\ SameWaits
  BY <1>2 DEF SameHosts, SameAskers, SameWaits, Lives, Asked, Buffered, Waits
<1>5. \A a \in Node, x \in Entity :
        WaitsExists(a, x)' <=> WaitsExists(a, x) /\ ~(a = n /\ x = e)
  <2>1. \A a \in Node, x \in Entity :
          pending_exists_'[a][x] =
            IF a = n /\ x = e THEN 0 ELSE pending_exists_[a][x]
    BY <1>2, <1>3 DEF TypeInv, TypeOK
  <2> QED BY <2>1 DEF WaitsExists
<1>6. Receives(s, n, m)
  BY <1>1, <1>2 DEF Receives, Msgs, OnWire
<1>7. \A a \in Node, x \in Entity :
        /\ a # n \/ x # e => Dir(a, x)' = Dir(a, x)
        /\ Dir(a, x)' # Absent <=> Dir(a, x) # Absent
        /\ Cached(a, x)' => Cached(a, x) \/ (a = n /\ x = e)
  <2>1. CASE m.exists
    <3>1. recs_' = [recs_ EXCEPT ![n] = LookupUpdate(@, e, makeRec(n, r))]
      BY <1>2, <2>1
    <3>2. /\ \A a \in Node, x \in Entity :
               Dir(a, x)' = IF a = n /\ x = e /\ Dir(n, e) # Absent
                            THEN makeRec(n, r) ELSE Dir(a, x)
          /\ \A a \in Node, x \in Entity :
               Cached(a, x)' =>
                 \/ Cached(a, x)
                 \/ a = n /\ x = e /\ Dir(n, e) = Absent
      BY <1>3, <2>1, <3>1, UpdateEffect
    <3>3. makeRec(n, r) # Absent
      BY <1>3, <2>1, AbsentRecord
    <3> QED BY <3>2, <3>3
  <2>2. CASE ~m.exists
    <3>1. recs_' = recs_
      BY <1>2, <2>2
    <3> QED BY <3>1 DEF Dir, Cached
  <2> QED BY <2>1, <2>2
<1> QED BY <1>1, <1>2, <1>3, <1>4, <1>5, <1>6, <1>7 DEF e

=============================================================================
