---------------------- MODULE CoordinatorHistoryProofs -----------------------
(***************************************************************************)
(* Proofs about CoordinatorHistory.  First what the history records: who   *)
(* goes where in a step, and that the newest place of an itinerary is      *)
(* where the entity is.  Then that records lead on (LeftBehind and         *)
(* MovesForward), and last that the channels stay pieces of the            *)
(* itineraries (InOrder) and that the coordinators so implement            *)
(* LocationService.                                                        *)
(***************************************************************************)
EXTENDS CoordinatorHistory, CoordinatorWaiters, CoordinatorAskers,
        WellFoundedInduction

-----------------------------------------------------------------------------
(* Following an itinerary                                                  *)

\* A nonempty set of natural numbers has a least element.
LEMMA LeastNat ==
  ASSUME NEW T \in SUBSET Nat, T # {}
  PROVE  \E x \in T : \A y \in T : x <= y
<1> DEFINE R == OpToRel(<, Nat)
<1>1. \A y, x \in Nat : y < x => <<y, x>> \in R
  <2>1. R = {ss \in Nat \X Nat : ss[1] < ss[2]}
    BY DEF OpToRel
  <2> HIDE DEF R
  <2> QED BY <2>1
<1>2. \E x \in T : \A y \in T : <<y, x>> \notin R
  <2>1. IsWellFoundedOn(R, Nat)
     BY NatLessThanWellFounded
  <2> HIDE DEF R
  <2> QED BY <2>1, WFMin
<1> HIDE DEF R
<1>3. PICK x \in T : \A y \in T : <<y, x>> \notin R
  BY <1>2
<1>4. ASSUME NEW y \in T PROVE x <= y
  <2>1. x \in Nat /\ y \in Nat
    OBVIOUS
  <2>2. ~(y < x)
    BY <1>1, <1>3, <2>1
  <2> QED BY <2>1, <2>2
<1> QED BY <1>4

\* Following m from place p: the first place from p on that is m, if any.
LEMMA FollowProperties ==
  ASSUME NEW s \in Seq(Node), NEW p \in Nat, NEW m
  PROVE  /\ Follow(s, p, m) \in Nat /\ Follow(s, p, m) >= p
         /\ \A q \in DOMAIN s : q >= p /\ s[q] = m =>
              /\ Follow(s, p, m) \in DOMAIN s /\ s[Follow(s, p, m)] = m
              /\ Follow(s, p, m) <= q
         /\ (\A q \in DOMAIN s : q >= p => s[q] # m) => Follow(s, p, m) = p
<1> DEFINE ahead == {q \in DOMAIN s : q >= p /\ s[q] = m}
<1>1. ahead \in SUBSET Nat
  BY LenProperties
<1>2. Follow(s, p, m) = IF ahead = {} THEN p ELSE Min(ahead)
  BY DEF Follow
<1>3. ahead # {} => Min(ahead) \in ahead /\ \A q \in ahead : Min(ahead) <= q
  BY <1>1, LeastNat DEF Min
<1>4. \A q : q \in ahead <=> q \in DOMAIN s /\ q >= p /\ s[q] = m
  OBVIOUS
<1> HIDE DEF ahead
<1>5. CASE ahead = {}
  BY <1>2, <1>4, <1>5
<1>6. CASE ahead # {}
  <2>1. /\ Follow(s, p, m) \in ahead /\ Follow(s, p, m) \in Nat
        /\ \A q \in ahead : Follow(s, p, m) <= q
    BY <1>1, <1>2, <1>3, <1>6
  <2> QED BY <1>4, <2>1
<1> QED BY <1>5, <1>6

\* Types of the history variables.
HistTypes ==
  /\ itinerary \in [Entity -> Seq(Node)]
  /\ pos \in [Node -> [Entity -> Nat]]
  /\ asked \in BOOLEAN
  /\ former \in [Entity -> SUBSET Node]

\* The last rank e has been sent to.
Newest(e) == itinerary[e][Len(itinerary[e])]

\* Appending to an itinerary.
LEMMA LongerItinerary ==
  ASSUME NEW s \in Seq(Node), NEW m \in Node
  PROVE  /\ Append(s, m) \in Seq(Node) /\ Len(Append(s, m)) = Len(s) + 1
         /\ DOMAIN s = 1..Len(s) /\ DOMAIN Append(s, m) = 1..(Len(s) + 1)
         /\ Len(s) \in Nat
         /\ \A i \in DOMAIN s : Append(s, m)[i] = s[i]
         /\ Append(s, m)[Len(s) + 1] = m
<1>1. /\ Append(s, m) \in Seq(Node) /\ Len(Append(s, m)) = Len(s) + 1
      /\ \A i \in 1..Len(s) : Append(s, m)[i] = s[i]
      /\ Append(s, m)[Len(s) + 1] = m
  BY AppendProperties
<1>2. DOMAIN s = 1..Len(s) /\ Len(s) \in Nat
  BY LenProperties
<1>3. DOMAIN Append(s, m) = 1..(Len(s) + 1)
  BY <1>1, LenProperties
<1> QED BY <1>1, <1>2, <1>3

\* An entity that goes nowhere has its itinerary as it was.
LEMMA Stays ==
  ASSUME HistNext, NEW x \in Entity, \A n \in Node : ~Goes(x, n)
  PROVE  itinerary'[x] = itinerary[x]
BY DEF HistNext

\* One that goes to m has it longer by m.
LEMMA SetsOut ==
  ASSUME HistNext, NEW x \in Entity, NEW m \in Node, Goes(x, m),
         \A n \in Node : Goes(x, n) => n = m
  PROVE  itinerary'[x] = Append(itinerary[x], m)
<1>1. (CHOOSE n \in Node : Goes(x, n)) = m
  OBVIOUS
<1> QED BY <1>1 DEF HistNext

\* The history variables keep their types.
LEMMA HistTypesStep ==
  ASSUME HistTypes, HistNext
  PROVE  HistTypes'
<1>1. itinerary' \in [Entity -> Seq(Node)]
  <2>1. \A e \in Entity : itinerary'[e] \in Seq(Node)
    <3> SUFFICES ASSUME NEW e \in Entity PROVE itinerary'[e] \in Seq(Node)
      OBVIOUS
    <3>1. CASE \E n \in Node : Goes(e, n)
      <4>1. (CHOOSE n \in Node : Goes(e, n)) \in Node
        BY <3>1
      <4>2. itinerary'[e] = Append(itinerary[e], CHOOSE n \in Node : Goes(e, n))
        BY <3>1 DEF HistNext
      <4> QED BY <4>1, <4>2 DEF HistTypes
    <3>2. CASE ~\E n \in Node : Goes(e, n)
      BY <3>2, Stays DEF HistTypes
    <3> QED BY <3>1, <3>2
  <2> QED BY <2>1 DEF HistNext
<1>2. asked' \in BOOLEAN
  BY DEF HistNext, HistTypes
<1>3. former' \in [Entity -> SUBSET Node]
  BY DEF HistNext, HistTypes
<1>4. pos' \in [Node -> [Entity -> Nat]]
  <2>1. ASSUME NEW n \in Node, NEW e \in Entity
        PROVE  pos'[n][e] \in Nat
    <3>1. pos[n][e] \in Nat /\ itinerary'[e] \in Seq(Node)
      BY <1>1 DEF HistTypes
    <3>2. Follow(itinerary'[e], pos[n][e], View(n, e)') \in Nat
      BY <3>1, FollowProperties
    <3> QED BY <3>1, <3>2 DEF HistNext
  <2> QED BY <2>1 DEF HistNext
<1> QED BY <1>1, <1>2, <1>3, <1>4 DEF HistTypes

-----------------------------------------------------------------------------
(* Who goes where                                                          *)

\* e has been sent to m; nobody else has been sent anywhere.
SentTo(e, m) ==
  /\ itinerary'[e] = Append(itinerary[e], m)
  /\ \A x \in Entity : x # e => itinerary'[x] = itinerary[x]

SameWay == \A x \in Entity : itinerary'[x] = itinerary[x]

\* Entities other than e stay where they are.
OthersStay(e) ==
  \A x \in Entity : x # e =>
    /\ itinerary'[x] = itinerary[x] /\ transit'[x] = transit[x]
    /\ \A a \in Node : /\ Lives(x, a)' <=> Lives(x, a)
                       /\ Owns(x, a)' => Owns(x, a)

\* e arrives on n: it is registered there, sent to n by this step or before.
Arrives(n, e) ==
  /\ \/ SentTo(e, n) /\ transit[e] = NoNode
     \/ SameWay /\ transit[e] = n
  /\ OthersStay(e) /\ transit'[e] = NoNode
  /\ \A a \in Node : Lives(e, a)' <=> Lives(e, a) \/ a = n
  /\ \A a \in Node : Owns(e, a)' => a = n
  /\ RegisterHere(n, e)

\* n gives e up for m and redirects its record.
LetsGo(n, e, m) ==
  /\ m # n /\ Stores(n, e, m) /\ OthersStay(e)
  /\ \A a \in Node : Lives(e, a)' <=> Lives(e, a) /\ a # n
  /\ UNCHANGED <<loc_asks_, net>>

\* e sets out for m before it has arrived there.
Departs(n, e, m) ==
  /\ LetsGo(n, e, m) /\ SentTo(e, m) /\ transit'[e] = m
  /\ \A a \in Node : ~Owns(e, a)' /\ ~Lives(e, a)'
  /\ transit[e] = NoNode /\ Owns(e, n)
  /\ MayMove(e)

\* e has arrived on m already, and leaves n.
HandsOver(n, e, m) ==
  /\ LetsGo(n, e, m) /\ SameWay /\ transit'[e] = transit[e]
  /\ \A a \in Node : Owns(e, a)' => a = m
  /\ Owns(e, m)

\* Nobody arrives anywhere.
NobodyMoves ==
  /\ SameWay /\ UNCHANGED transit
  /\ \A x \in Entity, a \in Node : /\ Lives(x, a)' => Lives(x, a)
                                   /\ Owns(x, a)' => Owns(x, a)

\* An entity that is not said to be new anywhere goes nowhere.
LEMMA OthersStaying ==
  ASSUME HistNext, NEW x \in Entity, transit'[x] = transit[x],
         \A a \in Node : Lives(x, a)' => Lives(x, a)
  PROVE  itinerary'[x] = itinerary[x]
<1>1. \A n \in Node : ~Goes(x, n)
  BY DEF Goes
<1> QED BY <1>1, Stays

\* registerEntity and entityImmigrated.
LEMMA Arrival ==
  ASSUME TypeInv, OneHost, HistNext, NEW n \in Node, NEW e \in Entity,
         registerEntity(n, e) \/ entityImmigrated(n, e)
  PROVE  Arrives(n, e)
<1>n. NoNode \notin Node
  BY ConstantsAssumption
<1>t. /\ transit \in [Entity -> Node \cup {NoNode}]
      /\ leaving \in [Entity -> Node \cup {NoNode}]
  BY DEF TypeInv, TypeOK
<1>1. RegisterHere(n, e)
  BY DEF registerEntity, entityImmigrated
<1>2. \A a \in Node, x \in Entity :
        Lives(x, a)' <=> Lives(x, a) \/ (a = n /\ x = e)
  BY <1>1, RegisterEffect DEF Registers
<1>3. \A x \in Entity : x # e =>
        transit'[x] = transit[x] /\ leaving'[x] = leaving[x]
  BY <1>t DEF registerEntity, entityImmigrated
<1>4. OthersStay(e)
  BY <1>2, <1>3, OthersStaying DEF OthersStay, Owns
<1>5. /\ \A a \in Node : Owns(e, a)' => a = n
      /\ transit'[e] = NoNode
      /\ \/ transit[e] = n
         \/ transit[e] = NoNode /\ ~Lives(e, n)
  <2>1. CASE registerEntity(n, e)
    BY <2>1, <1>2 DEF registerEntity, Nowhere, Owns
  <2>2. CASE transit[e] = n /\ transit' = [transit EXCEPT ![e] = NoNode]
    BY <1>n, <1>t, <1>2, <2>2 DEF OneHost, Owns
  <2>3. ASSUME NEW from \in Node \ {n}, Lives(e, from), StartMove(e),
               leaving' = [leaving EXCEPT ![e] = from], UNCHANGED transit
        PROVE  /\ \A a \in Node : Owns(e, a)' => a = n
               /\ transit'[e] = NoNode
               /\ transit[e] = NoNode /\ ~Lives(e, n)
    <3>1. leaving[e] = NoNode /\ leaving'[e] = from
      BY <1>t, <2>3 DEF StartMove
    <3>2. \A a \in Node : Lives(e, a) => a = from
      BY <1>n, <2>3, <3>1 DEF OneHost
    <3>3. transit[e] = NoNode
      BY <2>3 DEF OneHost
    <3> QED BY <1>2, <2>3, <3>1, <3>2, <3>3 DEF Owns
  <2> QED BY <2>1, <2>2, <2>3 DEF entityImmigrated
<1>6. CASE transit[e] = n
  <2>1. \A a \in Node : ~Goes(e, a)
    BY <1>n, <1>2, <1>5, <1>6 DEF Goes
  <2>2. SameWay
    BY <1>4, <2>1, Stays DEF SameWay, OthersStay
  <2> QED BY <1>1, <1>2, <1>4, <1>5, <1>6, <2>2 DEF Arrives
<1>7. CASE transit[e] = NoNode /\ ~Lives(e, n)
  <2>1. Goes(e, n) /\ \A a \in Node : Goes(e, a) => a = n
    BY <1>n, <1>2, <1>5, <1>7 DEF Goes
  <2>2. SentTo(e, n)
    BY <1>4, <2>1, SetsOut DEF SentTo, OthersStay
  <2> QED BY <1>1, <1>2, <1>4, <1>5, <1>7, <2>2 DEF Arrives
<1> QED BY <1>5, <1>6, <1>7

\* entityEmigrated, before and after the entity has arrived.
LEMMA Departure ==
  ASSUME TypeInv, OneHost, HistNext, NEW n \in Node, NEW e \in Entity,
         NEW m \in Node, entityEmigrated(n, e, m)
  PROVE  Departs(n, e, m) \/ HandsOver(n, e, m)
<1>n. NoNode \notin Node
  BY ConstantsAssumption
<1>t. /\ transit \in [Entity -> Node \cup {NoNode}]
      /\ leaving \in [Entity -> Node \cup {NoNode}]
  BY DEF TypeInv, TypeOK
<1>1. Emigrates(n, e, m)
  BY EmigrateEffect
<1>2. /\ Lives(e, n) /\ m # n
      /\ \A x \in Entity : x # e => transit'[x] = transit[x] /\ leaving'[x] = leaving[x]
  BY <1>t DEF entityEmigrated
<1>3. \A a \in Node, x \in Entity : Lives(x, a)' <=> Lives(x, a) /\ ~(a = n /\ x = e)
  BY <1>1 DEF Emigrates
<1>4. OthersStay(e)
  BY <1>2, <1>3, OthersStaying DEF OthersStay, Owns
<1>5. transit[e] = NoNode
  BY <1>2 DEF OneHost
<1>8. LetsGo(n, e, m)
  <2>1. /\ recs_' = [recs_ EXCEPT ![n] = LookupUpdate(@, e, makeRec(n, m))]
        /\ UNCHANGED <<loc_asks_, net>>
    BY DEF entityEmigrated
  <2> QED BY <1>2, <1>3, <1>4, <2>1 DEF LetsGo, Stores
<1>6. CASE StartMove(e) /\ transit' = [transit EXCEPT ![e] = m] /\ UNCHANGED leaving
  <2>1. leaving[e] = NoNode /\ MayMove(e) /\ transit'[e] = m
    BY <1>t, <1>6 DEF StartMove
  <2>2. \A a \in Node : ~Lives(e, a)'
    BY <1>n, <1>2, <1>3, <2>1 DEF OneHost
  <2>3. Goes(e, m) /\ \A a \in Node : Goes(e, a) => a = m
    BY <1>n, <1>5, <2>1, <2>2 DEF Goes
  <2>4. SentTo(e, m)
    BY <1>4, <2>3, SetsOut DEF SentTo, OthersStay
  <2> QED BY <1>n, <1>2, <1>8, <1>5, <2>1, <2>2, <2>4 DEF Departs, Owns
<1>7. CASE leaving[e] = n /\ Lives(e, m) /\ leaving' = [leaving EXCEPT ![e] = NoNode]
           /\ UNCHANGED <<transit, moves>>
  <2>1. itinerary'[e] = itinerary[e]
    BY <1>3, <1>7, OthersStaying
  <2>2. SameWay
    BY <1>4, <2>1 DEF SameWay, OthersStay
  <2>3. \A a \in Node : Owns(e, a)' => a = m
    BY <1>2, <1>3, <1>7 DEF OneHost, Owns
  <2> QED BY <1>2, <1>8, <1>7, <2>2, <2>3 DEF HandsOver, Owns
<1> QED BY <1>6, <1>7 DEF entityEmigrated

\* Everything else.
LEMMA NoMove ==
  ASSUME TypeInv, Placement, HistNext,
         \/ \E n \in Node, e \in Entity : \/ unregisterEntity(n, e)
                                          \/ getLocation(n, e)
                                          \/ entityExists(n, e)
         \/ \E n \in Node : clearCache(n)
         \/ \E s, n \in Node : Poll(s, n)
  PROVE  NobodyMoves
<1>1. /\ UNCHANGED <<transit, leaving>>
      /\ \A x \in Entity, a \in Node : Lives(x, a)' => Lives(x, a)
  <2>1. ASSUME NEW n \in Node, NEW e \in Entity,
               \/ unregisterEntity(n, e) \/ getLocation(n, e)
               \/ entityExists(n, e)
        PROVE  /\ UNCHANGED <<transit, leaving>>
               /\ \A x \in Entity, a \in Node : Lives(x, a)' => Lives(x, a)
    BY <2>1, LivesRemove DEF unregisterEntity, getLocation, entityExists,
       callVars, Lives, TypeInv
  <2>2. ASSUME NEW n \in Node, clearCache(n)
        PROVE  /\ UNCHANGED <<transit, leaving>>
               /\ \A x \in Entity, a \in Node : Lives(x, a)' => Lives(x, a)
    BY <2>2 DEF clearCache, Lives
  <2>3. ASSUME NEW s \in Node, NEW n \in Node, Poll(s, n)
        PROVE  /\ UNCHANGED <<transit, leaving>>
               /\ \A x \in Entity, a \in Node : Lives(x, a)' => Lives(x, a)
    BY <2>3 DEF Poll, updateHome, locationRequest, resolveResponse, existsRequest,
       existsResponse, callVars, Lives
  <2> QED BY <2>1, <2>2, <2>3
<1>2. SameWay
  BY <1>1, OthersStaying DEF SameWay
<1> QED BY <1>1, <1>2 DEF NobodyMoves, Owns

\* What a step does, in these terms.
LEMMA Travel ==
  ASSUME TypeInv, Placement, OneHost, HistNext
  PROVE  \/ \E n \in Node, e \in Entity : Arrives(n, e)
         \/ \E n, m \in Node, e \in Entity :
              Departs(n, e, m) \/ HandsOver(n, e, m)
         \/ NobodyMoves
BY Arrival, Departure, NoMove DEF HistNext, Next, Call

\* The newest place of an itinerary is where the entity is or is going.
Heads ==
  \A e \in Entity :
    /\ \A n \in Node : Owns(e, n) => Len(itinerary[e]) > 0 /\ Newest(e) = n
    /\ transit[e] # NoNode => Len(itinerary[e]) > 0 /\ Newest(e) = transit[e]

\* An entity that is sent to m has m as its newest place.
LEMMA NewestSent ==
  ASSUME HistTypes, NEW e \in Entity, NEW m \in Node, SentTo(e, m)
  PROVE  Len(itinerary'[e]) > 0 /\ Newest(e)' = m
<1>1. itinerary[e] \in Seq(Node)
  BY DEF HistTypes
<1> QED BY <1>1, LongerItinerary DEF SentTo, Newest

\* The newest place stays the one an entity owns or is on its way to.
LEMMA HeadsStep ==
  ASSUME TypeInv, Placement, OneHost, HistTypes, Heads, HistNext
  PROVE  Heads'
<1>n. NoNode \notin Node
  BY ConstantsAssumption
<1>0. ASSUME NEW x \in Entity, itinerary'[x] = itinerary[x], transit'[x] = transit[x],
             \A a \in Node : Owns(x, a)' => Owns(x, a)
      PROVE  /\ \A a \in Node : Owns(x, a)' => Len(itinerary'[x]) > 0 /\ Newest(x)' = a
             /\ transit'[x] # NoNode => Len(itinerary'[x]) > 0 /\ Newest(x)' = transit'[x]
  BY <1>0 DEF Heads, Newest
<1>1. ASSUME NEW e \in Entity, OthersStay(e),
             /\ \A a \in Node : Owns(e, a)' => Len(itinerary'[e]) > 0 /\ Newest(e)' = a
             /\ transit'[e] # NoNode => Len(itinerary'[e]) > 0 /\ Newest(e)' = transit'[e]
      PROVE  Heads'
  BY <1>0, <1>1 DEF OthersStay, Heads
<1>2. ASSUME NEW n \in Node, NEW e \in Entity, Arrives(n, e)
      PROVE  Heads'
  <2>1. Len(itinerary'[e]) > 0 /\ Newest(e)' = n
    BY <1>n, <1>2, NewestSent DEF Arrives, SameWay, Heads, Newest
  <2> QED BY <1>1, <1>2, <2>1 DEF Arrives
<1>3. ASSUME NEW n \in Node, NEW m \in Node, NEW e \in Entity, Departs(n, e, m)
      PROVE  Heads'
  BY <1>1, <1>3, NewestSent DEF Departs, LetsGo
<1>4. ASSUME NEW n \in Node, NEW m \in Node, NEW e \in Entity, HandsOver(n, e, m)
      PROVE  Heads'
  <2>1. \A a \in Node : Owns(e, a)' => Owns(e, a)
    BY <1>4 DEF HandsOver
  <2> QED BY <1>0, <1>1, <1>4, <2>1 DEF HandsOver, LetsGo, SameWay
<1>5. CASE NobodyMoves
  BY <1>0, <1>5 DEF NobodyMoves, SameWay, Heads
<1> QED BY <1>2, <1>3, <1>4, <1>5, Travel

-----------------------------------------------------------------------------
(* What a rank that has never been answered knows                          *)

\* The control messages of entityExists.
ExistsTypes == {"existsRequest", "existsResponse"}

\* None of them is in flight until some rank has asked.
Unasked ==
  asked \/ \A a, b \in Node : \A y \in Msgs(a, b) : y.type \notin ExistsTypes

\* Every step that sends one comes from another, or makes asked true.
LEMMA UnaskedStep ==
  ASSUME TypeInv, Placement, HistTypes, Unasked, HistNext
  PROVE  Unasked'
<1> SUFFICES ASSUME ~asked' PROVE \A a, b \in Node : \A y : 
                      y \in Msgs(a, b)' => y.type \notin ExistsTypes
  BY DEF Unasked
<1>1. /\ \A a, b \in Node : \A y : y \in Msgs(a, b) => y.type \notin ExistsTypes
      /\ pending_exists_' = pending_exists_
  BY DEF HistNext, Unasked
<1> DEFINE New(m) == m.type \notin ExistsTypes
           Fine == \A a, b \in Node : \A y :
                     y \in Msgs(a, b)' => y \in Msgs(a, b) \/ New(y)
<1>2. ASSUME NEW n \in Node, NEW e \in Entity, RegisterHere(n, e) PROVE Fine
  <2>1. Registers(n, e)
    BY <1>2, RegisterEffect
  <2>2. New(ResolveResponse(e, n)) /\ New(UpdateHome(e, n))
    BY DEF ResolveResponse, UpdateHome, ExistsTypes
  <2> QED BY <2>1, <2>2 DEF Registers, Announces, Sends, OnWire, Msgs
<1>3. ASSUME NEW n \in Node, NEW e \in Entity,
             \/ unregisterEntity(n, e) \/ getLocation(n, e)
             \/ \E m \in Node : entityEmigrated(n, e, m)
      PROVE  Fine
  <2>1. New(LocationRequest(e, n))
    BY DEF LocationRequest, ExistsTypes
  <2> QED BY <1>3, <2>1, UnregisterEffect, GetLocationEffect, EmigrateEffect
          DEF Unregisters, AsksLocation, Emigrates, Sends
<1>4. ASSUME NEW n \in Node, NEW e \in Entity, entityExists(n, e) PROVE Fine
  <2>1. pending_exists_ \in [Node -> [Entity -> Nat]]
    BY DEF TypeInv, TypeOK
  <2>2. pending_exists_' # [pending_exists_ EXCEPT ![n][e] = @ + 1]
    BY <1>1, <2>1
  <2>3. UNCHANGED net
    BY <1>4, <2>2 DEF entityExists
  <2> QED BY <2>3 DEF Msgs
<1>5. ASSUME NEW n \in Node, clearCache(n) PROVE Fine
  BY <1>5, ClearCacheEffect DEF ClearsCache
<1>6. ASSUME NEW s \in Node, NEW n \in Node, Poll(s, n) PROVE Fine
  <2>1. PICK m : /\ m \in Msgs(s, n) /\ RoutedMsg(s, n, m) /\ m.id \in Entity
                 /\ \/ HandlesUpdateHome(s, n, m)
                    \/ HandlesLocationRequest(s, n, m)
                    \/ HandlesResolveResponse(s, n, m)
                    \/ HandlesExistsRequest(s, n, m)
                    \/ HandlesExistsResponse(s, n, m)
    BY <1>6, PollEffect
  <2>2. \A node : New(ResolveResponse(m.id, node))
    BY DEF ResolveResponse, ExistsTypes
  <2>3. CASE HandlesUpdateHome(s, n, m)
    <3>1. PICK q \in Channels :
            /\ Announces(n, m.id, m.node, q)
            /\ \A a, b \in Node : \A x :
                 x \in Msgs(a, b) <=>
                   x \in OnWire(q, a, b) \/ (a = s /\ b = n /\ x = m)
      BY <2>3 DEF HandlesUpdateHome
    <3> QED BY <2>2, <3>1 DEF Announces
  <2>4. CASE HandlesLocationRequest(s, n, m)
    BY <2>2, <2>4 DEF HandlesLocationRequest, Replies, Receives
  <2>5. CASE HandlesResolveResponse(s, n, m) \/ HandlesExistsResponse(s, n, m)
    BY <2>5 DEF HandlesResolveResponse, HandlesExistsResponse, Receives
  <2>6. CASE HandlesExistsRequest(s, n, m)
    BY <1>1, <2>6 DEF HandlesExistsRequest, ExistsTypes
  <2> QED BY <2>1, <2>3, <2>4, <2>5, <2>6
<1>7. Fine
  BY <1>2, <1>3, <1>4, <1>5, <1>6
     DEF HistNext, Next, Call, registerEntity, entityImmigrated
<1> QED BY <1>1, <1>7

\* A rank the home has answered stays one (loc_asks_ is never pruned).
LEMMA AskedForGood ==
  ASSUME TypeInv, Placement, Next, NEW a \in Node, NEW r \in Node,
         NEW x \in Entity, Asked(a, x, r)
  PROVE  Asked(a, x, r)'
<1>1. ASSUME NEW n \in Node, NEW e \in Entity, RegisterHere(n, e)
      PROVE  Asked(a, x, r)'
  BY <1>1, RegisterEffect DEF Registers, Announces, SameAskers
<1>2. ASSUME NEW n \in Node, NEW e \in Entity,
             \/ unregisterEntity(n, e) \/ getLocation(n, e) \/ entityExists(n, e)
             \/ \E m \in Node : entityEmigrated(n, e, m)
      PROVE  Asked(a, x, r)'
  BY <1>2 DEF unregisterEntity, getLocation, entityExists, entityEmigrated, Asked
<1>3. ASSUME NEW n \in Node, clearCache(n) PROVE Asked(a, x, r)'
  BY <1>3 DEF clearCache, Asked
<1>4. ASSUME NEW s \in Node, NEW n \in Node, Poll(s, n) PROVE Asked(a, x, r)'
  <2>1. PICK m : /\ m \in Msgs(s, n) /\ RoutedMsg(s, n, m) /\ m.id \in Entity
                 /\ \/ HandlesUpdateHome(s, n, m)
                    \/ HandlesLocationRequest(s, n, m)
                    \/ HandlesResolveResponse(s, n, m)
                    \/ HandlesExistsRequest(s, n, m)
                    \/ HandlesExistsResponse(s, n, m)
    BY <1>4, PollEffect
  <2> QED BY <2>1 DEF HandlesUpdateHome, HandlesLocationRequest,
       HandlesResolveResponse, HandlesExistsRequest, HandlesExistsResponse,
       Announces, SameAskers
<1> QED BY <1>1, <1>2, <1>3, <1>4 DEF Next, Call, registerEntity, entityImmigrated

\* The calls and handlers that store no record in a cache.
NothingStored == \A a \in Node : Memo(a)' \subseteq Memo(a)

\* Registering, unregistering, queries, clearCache and the handlers of requests
\* and updateHome put no new record in a cache.
LEMMA StoresNothing ==
  ASSUME TypeInv
  PROVE  /\ \A n \in Node, e \in Entity :
              \/ RegisterHere(n, e) \/ unregisterEntity(n, e)
              \/ getLocation(n, e) \/ entityExists(n, e)
              => NothingStored
         /\ \A n \in Node : clearCache(n) => NothingStored
         /\ \A s, n \in Node : \A i \in DOMAIN net[s][n] :
              \/ updateHome(s, n, i) \/ locationRequest(s, n, i)
              \/ existsRequest(s, n, i)
              => NothingStored
<1> USE DEF NothingStored
<1>1. ASSUME NEW n \in Node, NEW e \in Entity, RegisterHere(n, e)
      PROVE  NothingStored
  <2>1. announceLocation(n, e, n, net) \/ recs_' = recs_
    BY <1>1 DEF RegisterHere
  <2>2. (\E node \in Node : \E q : announceLocation(n, e, node, q)) \/ recs_' = recs_
    BY <2>1
  <2> QED BY <2>2, MemoShrinks
<1>2. ASSUME NEW n \in Node, NEW e \in Entity,
             unregisterEntity(n, e) \/ getLocation(n, e) \/ entityExists(n, e)
      PROVE  NothingStored
  <2>1. \/ isCached(n, e) /\ recs_' = [recs_ EXCEPT ![n] = AfterHit(n, e)]
        \/ recs_' = [recs_ EXCEPT ![n] = LookupRemove(@, e)]
        \/ recs_' = recs_
    BY <1>2 DEF unregisterEntity, getLocation, entityExists
  <2> QED BY <2>1, MemoShrinks
<1>3. ASSUME NEW n \in Node, clearCache(n) PROVE NothingStored
  BY <1>3, MemoClears DEF clearCache
<1>4. ASSUME NEW s \in Node, NEW n \in Node, NEW i \in DOMAIN net[s][n],
             \/ updateHome(s, n, i) \/ locationRequest(s, n, i)
             \/ existsRequest(s, n, i)
      PROVE  NothingStored
  <2> DEFINE m == net[s][n][i]
  <2>1. m \in Message /\ m.type \in {"updateHome", "locationRequest", "existsRequest"}
    BY <1>4, TakeEffect DEF updateHome, locationRequest, existsRequest, Handles
  <2>2. m.id \in Entity /\ m.node \in Node
    BY <2>1, MessageFields
  <2>3. \/ \E q : announceLocation(n, m.id, m.node, q)
        \/ recs_' = [recs_ EXCEPT ![n] = AfterAnswer(n, m.id)]
        \/ recs_' = recs_
    BY <1>4 DEF updateHome, locationRequest, existsRequest
  <2> DEFINE e == m.id
             node == m.node
  <2>4. /\ e \in Entity /\ node \in Node
        /\ \/ \E q : announceLocation(n, e, node, q)
           \/ recs_' = [recs_ EXCEPT ![n] = AfterAnswer(n, e)]
           \/ recs_' = recs_
    BY <2>2, <2>3
  <2> HIDE DEF m, e, node
  <2>5. CASE \E q : announceLocation(n, e, node, q)
    <3>1. \E k \in Node : \E q : announceLocation(n, e, k, q)
      BY <2>4, <2>5
    <3> QED BY <2>4, <3>1, MemoShrinks
  <2>6. CASE recs_' = [recs_ EXCEPT ![n] = AfterAnswer(n, e)]
    BY <2>4, <2>6, MemoShrinks
  <2>7. CASE recs_' = recs_
    BY <2>7 DEF Memo
  <2> QED BY <2>4, <2>5, <2>6, <2>7
<1> QED BY <1>1, <1>2, <1>3, <1>4

\* unregisterEntity forgets the entity on its rank.
LEMMA UnregisterForgets ==
  ASSUME TypeInv, NEW n \in Node, NEW e \in Entity, unregisterEntity(n, e),
         NEW y \in Memo(n)'
  PROVE  y.key # e
<1> DEFINE l == LookupRemove(recs_[n], e)
<1>1. WellFormed(recs_[n], Entity, LocRecord(Node))
  BY RecsWellFormed DEF TypeInv
<1>2. ~LookupExists(l, e) /\ WellFormed(l, Entity, LocRecord(Node))
  BY <1>1, LookupRemoveProperties
<1>3. recs_' = [recs_ EXCEPT ![n] = l]
  BY DEF unregisterEntity
<1> HIDE DEF l
<1>4. \A a \in Node : recs_'[a] = IF a = n THEN l ELSE recs_[a]
  BY <1>3, RecsAt DEF TypeInv
<1>5. PICK i \in DOMAIN l.cache : y = l.cache[i]
  <2>1. y \in ToSet(l.cache)
    BY <1>4 DEF Memo
  <2> QED BY <2>1 DEF ToSet
<1> QED BY <1>2, <1>5 DEF LookupExists, CacheExists, CacheKeys

\* resolveResponse and existsResponse store what they say, if anything.
LEMMA ResponseStores ==
  ASSUME TypeInv, NEW s \in Node, NEW n \in Node, NEW i \in DOMAIN net[s][n],
         resolveResponse(s, n, i) \/ existsResponse(s, n, i),
         NEW m, m = net[s][n][i]
  PROVE  \/ Tells(m, m.id) /\ m.node \in Node /\ Stores(n, m.id, m.node)
         \/ (\A x : ~Tells(m, x)) /\ recs_' = recs_
<1>0. m \in Message
  BY TakeEffect
<1>1. CASE resolveResponse(s, n, i)
  <2>1. /\ m.type = "resolveResponse"
        /\ recs_' = [recs_ EXCEPT ![n] = LookupUpdate(@, m.id, makeRec(n, m.node))]
    BY <1>1 DEF resolveResponse, Handles
  <2>2. m.node \in Node
    BY <1>0, <2>1, MessageFields
  <2> QED BY <2>1, <2>2 DEF Stores, Tells
<1>2. CASE existsResponse(s, n, i)
  <2>1. /\ m.type = "existsResponse"
        /\ m.exists => recs_' = [recs_ EXCEPT ![n] =
                                   LookupUpdate(@, m.id, makeRec(n, m.node))]
        /\ ~m.exists => recs_' = recs_
    BY <1>2 DEF existsResponse, Handles
  <2>2. m.exists => m.node \in Node
    BY <1>0, <2>1, MessageFields
  <2> QED BY <2>1, <2>2 DEF Stores, Tells
<1> QED BY <1>1, <1>2

\* LeftBehind for entity x and rank r.
LeftAt(x, r) ==
  /\ r # Home[x] /\ ~Asked(Home[x], x, r) /\ ~Lives(x, r) /\ transit[x] # r
  => \A y \in Memo(r) : y.key = x => Beyond(itinerary[x], y.value.cur_node, r)

\* LeftBehind, entity by entity and rank by rank.
LEMMA LeftView == LeftBehind <=> asked \/ \A x \in Entity, r \in Node : LeftAt(x, r)
BY DEF LeftBehind, LeftAt, Asked, Memo

\* Appending another rank leaves what lies beyond r, and the last place, if it
\* is not r, lies beyond it.
LEMMA BeyondGrows ==
  ASSUME NEW s \in Seq(Node), NEW a \in Node, NEW r, a # r
  PROVE  /\ \A m : Beyond(s, m, r) => Beyond(Append(s, a), m, r)
         /\ Beyond(Append(s, a), a, r)
<1> DEFINE t == Append(s, a)
<1>1. /\ DOMAIN s = 1..Len(s) /\ DOMAIN t = 1..(Len(s) + 1) /\ Len(s) \in Nat
      /\ \A i \in DOMAIN s : t[i] = s[i]
      /\ t[Len(s) + 1] = a
  BY LongerItinerary
<1> HIDE DEF t
<1>2. \A j \in DOMAIN t : t[j] = r => j \in DOMAIN s /\ s[j] = r
  BY <1>1
<1>3. ASSUME NEW m, Beyond(s, m, r) PROVE Beyond(t, m, r)
  <2>1. PICK p \in DOMAIN s : s[p] = m /\ \A j \in DOMAIN s : s[j] = r => j < p
    BY <1>3 DEF Beyond
  <2>2. p \in DOMAIN t /\ t[p] = m /\ \A j \in DOMAIN t : t[j] = r => j < p
    BY <1>1, <1>2, <2>1
  <2> QED BY <2>2 DEF Beyond
<1>4. Beyond(t, a, r)
  <2>1. /\ Len(s) + 1 \in DOMAIN t
        /\ \A j \in DOMAIN t : t[j] = r => j < Len(s) + 1
    BY <1>1, <1>2
  <2> QED BY <1>1, <2>1 DEF Beyond
<1> QED BY <1>3, <1>4 DEF t

\* The last place of an itinerary is beyond every other rank.
LEMMA BeyondLast ==
  ASSUME NEW s \in Seq(Node), Len(s) > 0, NEW r, s[Len(s)] # r
  PROVE  Beyond(s, s[Len(s)], r)
<1>1. DOMAIN s = 1..Len(s) /\ Len(s) \in Nat
  BY LenProperties
<1>2. Len(s) \in DOMAIN s /\ \A j \in DOMAIN s : s[j] = r => j < Len(s)
  BY <1>1
<1> QED BY <1>2 DEF Beyond

\* A rank that stores nothing new about x.
LEMMA LeftKept ==
  ASSUME HistTypes, NEW x \in Entity, NEW r \in Node, LeftAt(x, r),
         Asked(Home[x], x, r) => Asked(Home[x], x, r)',
         Lives(x, r) => Lives(x, r)' \/ transit'[x] = r \/ \A y \in Memo(r)' : y.key # x,
         transit[x] = r => transit'[x] = r \/ Lives(x, r)',
         \A y \in Memo(r)' : y.key = x => y \in Memo(r),
         \/ itinerary'[x] = itinerary[x]
         \/ \E m \in Node :
              /\ itinerary'[x] = Append(itinerary[x], m)
              /\ Lives(x, r)' \/ transit'[x] = r \/ m # r
  PROVE  LeftAt(x, r)'
<1> SUFFICES ASSUME r # Home[x], ~Asked(Home[x], x, r)', ~Lives(x, r)',
                    transit'[x] # r, NEW y \in Memo(r)', y.key = x
             PROVE  Beyond(itinerary'[x], y.value.cur_node, r)
  BY DEF LeftAt
<1>1. Beyond(itinerary[x], y.value.cur_node, r)
  BY DEF LeftAt
<1>2. itinerary[x] \in Seq(Node)
  BY DEF HistTypes
<1> QED BY <1>1, <1>2, BeyondGrows

\* entityEmigrated: the record n keeps names the rank e was last sent to.
LEMMA LeftEmigrate ==
  ASSUME TypeInv, Placement, OneHost, HistTypes, Heads,
         NEW n \in Node, NEW e \in Entity, NEW m \in Node,
         Departs(n, e, m) \/ HandsOver(n, e, m),
         \A x \in Entity, r \in Node : LeftAt(x, r)
  PROVE  \A x \in Entity, r \in Node : LeftAt(x, r)'
<1> SUFFICES ASSUME NEW x \in Entity, NEW r \in Node PROVE LeftAt(x, r)'
  OBVIOUS
<1>n. NoNode \notin Node
  BY ConstantsAssumption
<1>0. LetsGo(n, e, m)
  BY DEF Departs, HandsOver
<1>1. /\ m # n /\ OthersStay(e)
      /\ \A a \in Node : Lives(e, a)' <=> Lives(e, a) /\ a # n
      /\ Asked(Home[x], x, r)' <=> Asked(Home[x], x, r)
  BY <1>0 DEF LetsGo, Asked
<1>2. \A a \in Node : \A y \in Memo(a)' :
        \/ y \in Memo(a) /\ (a = n => y.key # e \/ Dir(n, e) # Absent)
        \/ a = n /\ y.key = e /\ y.value.cur_node = m
  BY <1>0, MemoStores DEF LetsGo
<1>3. CASE x # e
  BY <1>1, <1>2, <1>3, LeftKept DEF OthersStay
<1>4. CASE x = e /\ r # n
  <2>1. /\ Lives(e, r)' <=> Lives(e, r)
        /\ \A y \in Memo(r)' : y \in Memo(r)
    BY <1>1, <1>2, <1>4
  <2>2. CASE Departs(n, e, m)
    <3>1. /\ transit[e] # r /\ itinerary'[e] = Append(itinerary[e], m)
          /\ transit'[e] = m
      BY <1>n, <2>2 DEF Departs, SentTo
    <3> QED BY <1>1, <1>4, <2>1, <3>1, LeftKept
  <2>3. CASE HandsOver(n, e, m)
    <3>1. transit'[e] = transit[e] /\ itinerary'[e] = itinerary[e]
      BY <2>3 DEF HandsOver, SameWay
    <3> QED BY <1>1, <1>4, <2>1, <3>1, LeftKept
  <2> QED BY <2>2, <2>3
<1>5. CASE x = e /\ r = n
  <2> SUFFICES ASSUME n # Home[e], NEW y \in Memo(n)', y.key = e
               PROVE  Beyond(itinerary'[e], y.value.cur_node, n)
    BY <1>5 DEF LeftAt
  <2>1. Dir(n, e) = Absent
    BY PlacementView
  <2>2. y.value.cur_node = m
    BY <1>2, <2>1
  <2>3. itinerary[e] \in Seq(Node)
    BY DEF HistTypes
  <2>4. CASE Departs(n, e, m)
    BY <1>1, <2>2, <2>3, <2>4, BeyondGrows DEF Departs, SentTo
  <2>5. CASE HandsOver(n, e, m)
    <3>1. itinerary'[e] = itinerary[e] /\ Len(itinerary[e]) > 0 /\ Newest(e) = m
      BY <2>5 DEF HandsOver, SameWay, Heads
    <3> QED BY <1>1, <2>2, <2>3, <3>1, BeyondLast DEF Newest
  <2> QED BY <2>4, <2>5
<1> QED BY <1>3, <1>4, <1>5

\* Every step keeps it: only entityEmigrated writes a record without an answer.
LEMMA LeftStep ==
  ASSUME IndInv, HistTypes, Heads, Unasked, LeftBehind, HistNext
  PROVE  LeftBehind'
<1> USE DEF IndInv
<1>0. TypeInv
  BY DEF TypeInv
<1> DEFINE All == \A x \in Entity, r \in Node : LeftAt(x, r)
<1>v. LeftBehind' <=> asked' \/ All'
  BY DEF LeftBehind, LeftAt, Asked, Memo
<1> SUFFICES ASSUME ~asked' PROVE All'
  BY <1>v
<1>1. ~asked /\ Next
  BY DEF HistNext
<1>2. All
  BY <1>1, LeftView
<1>3. \A x \in Entity, r \in Node : Asked(Home[x], x, r) => Asked(Home[x], x, r)'
  BY <1>0, <1>1, AskedForGood, HomeType
<1>4. ASSUME NEW n \in Node, NEW e \in Entity,
             registerEntity(n, e) \/ entityImmigrated(n, e)
      PROVE  All'
  <2>1. Arrives(n, e)
    BY <1>0, <1>4, Arrival
  <2>2. NothingStored
    BY <1>0, <1>4, StoresNothing DEF registerEntity, entityImmigrated
  <2>3. ASSUME NEW x \in Entity, NEW r \in Node PROVE LeftAt(x, r)'
    <3>1. Lives(x, r) => Lives(x, r)'
      BY <2>1 DEF Arrives, OthersStay
    <3>2. transit[x] = r => transit'[x] = r \/ Lives(x, r)'
      BY <2>1, ConstantsAssumption DEF Arrives, OthersStay
    <3>3. \/ itinerary'[x] = itinerary[x]
          \/ itinerary'[x] = Append(itinerary[x], n) /\ (Lives(x, r)' \/ n # r)
      BY <2>1 DEF Arrives, SentTo, SameWay
    <3> QED BY <1>2, <1>3, <2>2, <3>1, <3>2, <3>3, LeftKept DEF NothingStored
  <2> QED BY <2>3
<1>5. ASSUME NEW n \in Node, NEW e \in Entity, NEW m \in Node,
             entityEmigrated(n, e, m)
      PROVE  All'
  BY <1>0, <1>2, <1>5, Departure, LeftEmigrate
<1>6. ASSUME NobodyMoves, NothingStored, UNCHANGED local_registered_ PROVE All'
  BY <1>2, <1>3, <1>6, LeftKept DEF NobodyMoves, SameWay, NothingStored, Lives
<1>7. ASSUME NEW n \in Node, NEW e \in Entity, unregisterEntity(n, e)
      PROVE  All'
  <2>1. NobodyMoves /\ NothingStored
    BY <1>0, <1>7, NoMove, StoresNothing
  <2>2. \A a \in Node, x \in Entity :
          Lives(x, a)' <=> Lives(x, a) /\ ~(a = n /\ x = e)
    BY <1>0, <1>7, UnregisterEffect DEF Unregisters
  <2>3. \A y \in Memo(n)' : y.key # e
    BY <1>0, <1>7, UnregisterForgets
  <2> QED BY <1>2, <1>3, <2>1, <2>2, <2>3, LeftKept
          DEF NobodyMoves, SameWay, NothingStored
<1>8. ASSUME NEW n \in Node, NEW e \in Entity, getLocation(n, e) \/ entityExists(n, e)
      PROVE  All'
  <2>1. NobodyMoves /\ NothingStored
    BY <1>0, <1>8, NoMove, StoresNothing
  <2> QED BY <1>6, <1>8, <2>1 DEF getLocation, entityExists
<1>9. ASSUME NEW n \in Node, clearCache(n) PROVE All'
  <2>1. NobodyMoves /\ NothingStored
    BY <1>0, <1>9, NoMove, StoresNothing
  <2> QED BY <1>6, <1>9, <2>1 DEF clearCache
<1>10. ASSUME NEW s \in Node, NEW n \in Node, NEW i \in DOMAIN net[s][n],
              \/ updateHome(s, n, i) \/ locationRequest(s, n, i)
              \/ existsRequest(s, n, i)
       PROVE  All'
  <2>1. Poll(s, n)
    BY <1>10 DEF Poll
  <2>2. NobodyMoves /\ NothingStored
    BY <1>0, <1>10, <2>1, NoMove, StoresNothing
  <2> QED BY <1>6, <1>10, <2>2 DEF updateHome, locationRequest, existsRequest
<1>11. ASSUME NEW s \in Node, NEW n \in Node, NEW i \in DOMAIN net[s][n],
              resolveResponse(s, n, i) \/ existsResponse(s, n, i)
       PROVE  All'
  <2> DEFINE m == net[s][n][i]
  <2>1. Poll(s, n)
    BY <1>11 DEF Poll
  <2>2. NobodyMoves /\ UNCHANGED local_registered_
    BY <1>0, <1>11, <2>1, NoMove DEF resolveResponse, existsResponse
  <2>3. m \in Message /\ m \in Msgs(s, n) /\ m.id \in Entity
    BY <1>0, TakeEffect, MessageFields
  <2>4. resolveResponse(s, n, i) /\ m.type = "resolveResponse"
    <3>1. m.type # "existsResponse"
      BY <1>1, <2>3 DEF Unasked, ExistsTypes
    <3> QED BY <1>11, <3>1 DEF existsResponse, resolveResponse, Handles
  <2>5. s = Home[m.id] /\ Asked(s, m.id, n)
    BY <2>3, <2>4 DEF AnsweredRemembered, Placement, Routed, RoutedMsg, Asked
  <2>6. Stores(n, m.id, m.node) /\ m.node \in Node
    <3>1. Tells(m, m.id)
      BY <2>4 DEF Tells
    <3> HIDE DEF m
    <3>2. m = net[s][n][i]
      BY DEF m
    <3> QED BY <1>0, <1>11, <3>1, <3>2, ResponseStores
  <2> HIDE DEF m
  <2>7. \A a \in Node : \A y \in Memo(a)' : y \in Memo(a) \/ (a = n /\ y.key = m.id)
    BY <1>0, <2>3, <2>6, MemoStores
  <2>8. ASSUME NEW x \in Entity, NEW r \in Node PROVE LeftAt(x, r)'
    <3>1. CASE x = m.id /\ r = n
      BY <1>3, <2>5, <3>1 DEF LeftAt
    <3>2. CASE ~(x = m.id /\ r = n)
      BY <1>2, <1>3, <2>2, <2>7, <3>2, LeftKept DEF NobodyMoves, SameWay, Lives
    <3> QED BY <3>1, <3>2
  <2> QED BY <2>8
<1> QED BY <1>1, <1>4, <1>5, <1>7, <1>8, <1>9, <1>10, <1>11 DEF Next, Call, Poll

-----------------------------------------------------------------------------
(* Records lead on                                                         *)

\* The history variables only watch: without them, the steps are those of
\* Coordinator.
LEMMA HistoryWatches == HistSpec => Spec
<1>1. HistInit => Init
  BY DEF HistInit
<1>2. [HistNext]_histVars => [Next]_vars
  BY DEF HistNext, histVars
<1> QED BY <1>1, <1>2, PTL DEF HistSpec, Spec

\* What is proved of the history itself.
HistInv == HistTypes /\ Heads /\ Unasked /\ LeftBehind

\* It holds before any call.
LEMMA HistInvInit == HistInit => HistInv
<1> SUFFICES ASSUME HistInit PROVE HistInv
  OBVIOUS
<1> USE DEF HistInit
<1>1. HistTypes
  <2>1. \A e \in Entity : itinerary[e] = <<>> /\ <<>> \in Seq(Node)
    BY EmptySeq
  <2>2. itinerary \in [Entity -> Seq(Node)]
    BY <2>1
  <2>3. asked \in BOOLEAN
    OBVIOUS
  <2>4. pos \in [Node -> [Entity -> Nat]] /\ former \in [Entity -> SUBSET Node]
    OBVIOUS
  <2> QED BY <2>2, <2>3, <2>4 DEF HistTypes
<1>2. Heads
  <2>1. \A e \in Entity : transit[e] = NoNode /\ \A n \in Node : ~Lives(e, n)
    BY DEF Init, Lives
  <2> QED BY <2>1 DEF Heads, Owns
<1>3. Unasked
  <2>1. \A a, b \in Node : Msgs(a, b) = {}
    BY DEF Init, Msgs, ToSet
  <2> QED BY <2>1 DEF Unasked
<1>4. LeftBehind
  <2>1. \A a \in Node : ToSet(recs_[a].cache) = {}
    BY DEF Init, ToSet, EmptyLookup
  <2> QED BY <2>1 DEF LeftBehind
<1> QED BY <1>1, <1>2, <1>3, <1>4 DEF HistInv

\* Every step keeps it.
LEMMA HistInvStep ==
  ASSUME IndInv, HistInv, [HistNext]_histVars
  PROVE  HistInv'
<1>1. CASE HistNext
  <2>1. TypeInv /\ Placement /\ OneHost
    BY DEF IndInv, TypeInv
  <2> QED BY <1>1, <2>1, HistTypesStep, HeadsStep, UnaskedStep, LeftStep DEF HistInv
<1>2. CASE UNCHANGED histVars
  <2>1. /\ UNCHANGED <<local_registered_, recs_, loc_asks_, net, transit, leaving>>
        /\ UNCHANGED <<itinerary, pos, asked, former>>
    BY <1>2 DEF histVars, vars, coordVars, callVars
  <2> QED BY <2>1 DEF HistInv, HistTypes, Heads, Newest, Owns, Lives, Unasked, Msgs, LeftBehind
<1> QED BY <1>1, <1>2

\* The history is what it claims to be.
THEOREM HistoryCorrect == HistSpec => []HistInv
<1>1. HistSpec => []IndInv
  BY HistoryWatches, IndInvCorrect, PTL
<1> QED BY <1>1, HistInvInit, HistInvStep, PTL DEF HistSpec

\* What entityEmigrated (coordinator.impl.h) leaves in the cache of a rank that
\* the home has never answered names a place after all the rank's own.
THEOREM OldRecordsLeadOn == HistSpec => []LeftBehind
BY HistoryCorrect, PTL DEF HistInv

\* A set of places of an itinerary has a last one.
LEMMA LastPlace ==
  ASSUME NEW s \in Seq(Node), NEW P \in SUBSET DOMAIN s, P # {}
  PROVE  \E q \in P : \A p \in P : p <= q
<1>1. Len(s) \in Nat /\ DOMAIN s = 1..Len(s)
  BY LenProperties
<1> DEFINE back(p) == Len(s) - p
           T == {back(p) : p \in P}
<1>2. T \in SUBSET Nat /\ T # {}
  BY <1>1
<1>3. PICK t \in T : \A u \in T : t <= u
  BY <1>2, LeastNat
<1>4. PICK q \in P : t = back(q)
  OBVIOUS
<1>5. ASSUME NEW p \in P PROVE p <= q
  <2>1. t <= back(p)
    BY <1>3
  <2>2. p \in 1..Len(s) /\ q \in 1..Len(s)
    BY <1>1
  <2> QED BY <1>1, <1>4, <2>1, <2>2
<1> QED BY <1>5

\* An entry of the cache is one of its records.
LEMMA MemoValue ==
  ASSUME NEW r, NEW e, CacheExists(recs_[r].cache, e)
  PROVE  \E y \in Memo(r) :
           y.key = e /\ y.value.cur_node = CacheValue(recs_[r].cache, e).cur_node
<1> DEFINE c == recs_[r].cache
           y == c[CachePos(c, e)]
<1>0. CachePos(c, e) \in DOMAIN c /\ c[CachePos(c, e)].key = e
  BY CachePosProperties
<1>1. CachePos(c, e) \in DOMAIN c /\ y.key = e
  BY <1>0
<1>2. y \in Memo(r)
  BY <1>1 DEF ToSet, Memo
<1> QED BY <1>1, <1>2 DEF CacheValue

\* Every record names a place further along the itinerary than the rank that
\* holds it, so records cannot form a circle: the ranks the home has answered
\* agree with it (AskersConverge), the others are covered by LeftBehind.
LEMMA NoCircle ==
  ASSUME IndInv, HistInv, AskersConverge, HomeAuthoritative, Ordered, Paced
  PROVE  MovesForward
<1> USE DEF IndInv
<1> SUFFICES ASSUME ~asked PROVE NoForwardingLoop
  BY DEF MovesForward
<1> SUFFICES ASSUME NEW e \in Entity, Quiet(e), NEW o \in Node, Lives(e, o),
                    NEW S \in SUBSET Node, S # {}
             PROVE  \E n \in S : Lives(e, n) \/ ~isCached(n, e) \/ Located(n, e) \notin S
  BY DEF NoForwardingLoop
<1> SUFFICES ASSUME \A n \in S : ~Lives(e, n) /\ isCached(n, e) /\ Located(n, e) \in S
             PROVE  FALSE
  OBVIOUS
<1> DEFINE h == Home[e]
           s == itinerary[e]
<1>n. NoNode \notin Node /\ h \in Node
  BY ConstantsAssumption
<1>1. Dir(h, e) # Absent /\ Dir(h, e).cur_node = o
  <2>1. Owns(e, o) /\ ~UpdateInFlight(e)
    BY <1>n DEF Quiet, Owns, UpdateInFlight
  <2> QED BY <2>1 DEF HomeAuthoritative, HomeReflectsOwner, Dir, DirExists
<1>2. o \notin S
  OBVIOUS
<1>3. h \notin S
  <2>1. ~Lives(e, h) => Located(h, e) = o
    BY <1>1 DEF Located, LookupValue, Dir, DirExists
  <2> QED BY <1>2, <2>1
<1>4. ASSUME NEW r \in S
      PROVE  /\ Cached(r, e) /\ ~DirExists(recs_[r].directory, e)
             /\ Located(r, e) = CacheValue(recs_[r].cache, e).cur_node
             /\ Located(r, e) = LookupValue(recs_[r], e).cur_node
  <2>1. ~DirExists(recs_[r].directory, e)
    BY <1>3 DEF Placement, HomeInDirectory
  <2> QED BY <2>1 DEF isCached, LookupExists, Located, LookupValue, Cached
<1>5. ASSUME NEW r \in S PROVE ~Asked(h, e, r)
  <2> SUFFICES ASSUME Asked(h, e, r) PROVE FALSE
    OBVIOUS
  <2>1. LookupValue(recs_[r], e).cur_node = o
    BY <1>1, <1>4 DEF AskersConverge, Asked, Dir, DirExists, Cached
  <2> QED BY <1>2, <1>4, <2>1
<1>6. ASSUME NEW r \in S PROVE Beyond(s, Located(r, e), r)
  <2>1. LeftAt(e, r)
    BY LeftView DEF HistInv
  <2>2. transit[e] # r
    BY <1>n DEF Quiet
  <2>0. CacheExists(recs_[r].cache, e)
    BY <1>4 DEF Cached
  <2>3. PICK y \in Memo(r) :
          y.key = e /\ y.value.cur_node = CacheValue(recs_[r].cache, e).cur_node
    <3> HIDE DEF IndInv
    <3> QED BY <2>0, MemoValue
  <2>6. y.value.cur_node = Located(r, e)
    BY <1>4, <2>3
  <2>4. r # h /\ ~Asked(h, e, r) /\ ~Lives(e, r)
    BY <1>3, <1>5
  <2>5. \A z \in Memo(r) : z.key = e => Beyond(s, z.value.cur_node, r)
    BY <2>1, <2>2, <2>4 DEF LeftAt
  <2> QED BY <2>3, <2>5, <2>6
<1> DEFINE P == {p \in DOMAIN s : s[p] \in S}
<1>7. s \in Seq(Node) /\ P \in SUBSET DOMAIN s
  BY DEF HistInv, HistTypes
<1>8. P # {}
  <2>1. PICK r \in S : TRUE
    OBVIOUS
  <2>2. PICK p \in DOMAIN s : s[p] = Located(r, e)
    BY <1>6 DEF Beyond
  <2> QED BY <2>2
<1>9. PICK q \in P : \A p \in P : p <= q
  <2> HIDE DEF P, s
  <2> QED BY <1>7, <1>8, LastPlace
<1>10. PICK p \in DOMAIN s : s[p] = Located(s[q], e)
                             /\ \A j \in DOMAIN s : s[j] = s[q] => j < p
  BY <1>6, <1>9 DEF Beyond
<1>11. p \in P /\ q < p
  BY <1>9, <1>10
<1>12. p \in Nat /\ q \in Nat
  BY <1>7, <1>9, LenProperties
<1> QED BY <1>9, <1>11, <1>12

\* Over ordered channels and with paced moves, the locations handed out never go
\* round in a circle, as long as no entityExists request has been sent: the
\* repointed record of entityEmigrated forwards to where the entity went.
THEOREM RecordsMoveForward ==
  Ordered /\ Paced => (HistSpec => []MovesForward)
<1> SUFFICES ASSUME Ordered, Paced PROVE HistSpec => []MovesForward
  OBVIOUS
<1>1. HistSpec => [](IndInv /\ AskersConverge /\ HomeAuthoritative)
  BY HistoryWatches, IndInvCorrect, AskersAgree, HomesAuthoritative, PTL
<1>2. IndInv /\ HistInv /\ AskersConverge /\ HomeAuthoritative => MovesForward
  BY NoCircle
<1> QED BY <1>1, <1>2, HistoryCorrect, PTL

-----------------------------------------------------------------------------
(* The location a rank hands out                                           *)

\* What View is made of: the local registration, then the directory, then the
\* cache.
Views ==
  \A n \in Node, e \in Entity :
    /\ Lives(e, n) => View(n, e) = n
    /\ ~Lives(e, n) /\ Dir(n, e) # Absent => View(n, e) = Dir(n, e).cur_node
    /\ ~Lives(e, n) /\ Dir(n, e) = Absent =>
         /\ \A y \in Memo(n) : y.key = e => View(n, e) = y.value.cur_node
         /\ (\A y \in Memo(n) : y.key # e) => View(n, e) = NoNode
    /\ View(n, e) \in Node \cup {NoNode}
    /\ n # Home[e] => Dir(n, e) = Absent
    /\ Lives(e, Home[e]) => Dir(Home[e], e) # Absent
    /\ \A y \in Memo(n) : y.key = e => n # Home[e]

\* With one cached record per key, View is what the record says.
LEMMA ViewsCorrect == TypeInv /\ Placement => Views
<1> SUFFICES ASSUME TypeInv, Placement, NEW n \in Node, NEW e \in Entity
             PROVE  /\ Lives(e, n) => View(n, e) = n
                    /\ ~Lives(e, n) /\ Dir(n, e) # Absent => View(n, e) = Dir(n, e).cur_node
                    /\ ~Lives(e, n) /\ Dir(n, e) = Absent =>
                         /\ \A y \in Memo(n) : y.key = e => View(n, e) = y.value.cur_node
                         /\ (\A y \in Memo(n) : y.key # e) => View(n, e) = NoNode
                    /\ View(n, e) \in Node \cup {NoNode}
                    /\ n # Home[e] => Dir(n, e) = Absent
                    /\ Lives(e, Home[e]) => Dir(Home[e], e) # Absent
                    /\ \A y \in Memo(n) : y.key = e => n # Home[e]
  BY DEF Views
<1> DEFINE c == recs_[n].cache
<1>1. /\ n # Home[e] => Dir(n, e) = Absent
      /\ Lives(e, Home[e]) => Dir(Home[e], e) # Absent
      /\ Cached(n, e) => n # Home[e]
  BY PlacementView
<1>2. \A y \in Memo(n) : y.key = e => Cached(n, e)
  BY DEF Memo, ToSet, Cached, CacheExists, CacheKeys
<1>3. Lives(e, n) => View(n, e) = n
  BY DEF View, isCached, Located
<1>4. ~Lives(e, n) /\ Dir(n, e) # Absent => View(n, e) = Dir(n, e).cur_node
  BY DEF View, isCached, Located, LookupExists, LookupValue, DirExists, Dir
<1>5. ASSUME ~Lives(e, n), Dir(n, e) = Absent, NEW y \in Memo(n), y.key = e
      PROVE  View(n, e) = y.value.cur_node
  <2>1. Cached(n, e)
    BY <1>2, <1>5
  <2>2. View(n, e) = CacheValue(c, e).cur_node
    BY <1>5, <2>1 DEF View, isCached, Located, LookupExists, LookupValue, DirExists, Dir, Cached
  <2>3. PICK i \in DOMAIN c : y = c[i]
    BY <1>5 DEF Memo, ToSet
  <2>4. CachePos(c, e) \in DOMAIN c /\ c[CachePos(c, e)].key = e
    BY <2>1, CachePosProperties DEF Cached
  <2>5. CachePos(c, e) = i
    BY <1>5, <2>3, <2>4 DEF TypeInv, CacheBounded, KeysDistinct
  <2> QED BY <2>2, <2>3, <2>5 DEF CacheValue
<1>6. ASSUME ~Lives(e, n), Dir(n, e) = Absent, \A y \in Memo(n) : y.key # e
      PROVE  View(n, e) = NoNode
  <2>1. ~Cached(n, e)
    BY <1>6, MemoValue DEF Cached
  <2> QED BY <1>6, <2>1 DEF View, isCached, LookupExists, DirExists, Dir, Cached
<1>7. View(n, e) \in Node \cup {NoNode}
  <2>1. CASE isCached(n, e)
    <3>1. Located(n, e) \in Node
      BY <2>1, HomeAnswerType DEF Located, HomeAnswer, isCached, TypeInv
    <3> QED BY <2>1, <3>1 DEF View
  <2>2. CASE ~isCached(n, e)
    BY <2>2 DEF View
  <2> QED BY <2>1, <2>2
<1> QED BY <1>1, <1>2, <1>3, <1>4, <1>5, <1>6, <1>7

\* A rank whose registrations and records are as they were has its view.
LEMMA SameView ==
  ASSUME NEW n, NEW x, Lives(x, n)' <=> Lives(x, n), recs_'[n] = recs_[n]
  PROVE  View(n, x)' = View(n, x)
BY DEF View, isCached, Located

\* One that stores nothing about x keeps its view of x, or forgets it.
LEMMA ViewKept ==
  ASSUME Views, Views', NEW n \in Node, NEW x \in Entity,
         Lives(x, n)' <=> Lives(x, n), Dir(n, x)' = Dir(n, x),
         \A y \in Memo(n)' : y.key = x => y \in Memo(n)
  PROVE  View(n, x)' \in {View(n, x), NoNode}
<1>1. CASE Lives(x, n)
  BY <1>1 DEF Views
<1>2. CASE ~Lives(x, n) /\ Dir(n, x) # Absent
  BY <1>2 DEF Views
<1>3. CASE ~Lives(x, n) /\ Dir(n, x) = Absent
  <2>1. CASE \A y \in Memo(n)' : y.key # x
    BY <1>3, <2>1 DEF Views
  <2>2. ASSUME NEW y \in Memo(n)', y.key = x
        PROVE  View(n, x)' = View(n, x)
    BY <1>3, <2>2 DEF Views
  <2> QED BY <2>1, <2>2
<1> QED BY <1>1, <1>2, <1>3

-----------------------------------------------------------------------------
(* Where the home's directory stands                                       *)

\* The messages updateHome of x.
Updates(x, y) == y.type = "updateHome" /\ y.id = x

\* With paced moves, an updateHome of x in flight names the newest place of its
\* itinerary, and the directory names that or the place before; that only while
\* x is on the move.
Placed(x) ==
  LET s == itinerary[x]
      d == Dir(Home[x], x)
  IN  /\ \A a, b \in Node : \A y : y \in Msgs(a, b) /\ Updates(x, y) =>
           Len(s) > 0 /\ y.node = Newest(x)
      /\ d # Absent =>
           /\ Len(s) > 0
           /\ d.cur_node = Newest(x) \/ (Len(s) > 1 /\ d.cur_node = s[Len(s) - 1])
      /\ d # Absent /\ ~UpdateInFlight(x) /\ transit[x] = NoNode =>
           d.cur_node = Newest(x)

AllPlaced == \A x \in Entity : Placed(x)

\* A step that leaves the directory, the itinerary and the updateHome of x.
LEMMA PlacedKept ==
  ASSUME NEW x \in Entity, Placed(x),
         itinerary'[x] = itinerary[x], transit'[x] = transit[x],
         Dir(Home[x], x)' = Dir(Home[x], x),
         \A a, b \in Node : \A y :
           Updates(x, y) => (y \in Msgs(a, b)' <=> y \in Msgs(a, b))
  PROVE  Placed(x)'
<1>1. UpdateInFlight(x)' <=> UpdateInFlight(x)
  BY DEF UpdateInFlight, Updates
<1>2. Newest(x)' = Newest(x)
  BY DEF Newest
<1>3. Dir(Home[x], x)'.cur_node = Dir(Home[x], x).cur_node
  OBVIOUS
<1> QED BY <1>1, <1>2, <1>3 DEF Placed

\* A step after which the directory, if it has x, names the newest place, and
\* so does every updateHome of x.
LEMMA PlacedNewest ==
  ASSUME NEW x \in Entity, Len(itinerary'[x]) > 0,
         \A a, b \in Node : \A y : y \in Msgs(a, b)' /\ Updates(x, y) => y.node = Newest(x)',
         Dir(Home[x], x)' = Absent \/ Dir(Home[x], x)'.cur_node = Newest(x)'
  PROVE  Placed(x)'
BY DEF Placed

\* The messages that RegisterHere sends.
LEMMA RegisterUpdates ==
  ASSUME TypeInv, NEW n \in Node, NEW e \in Entity, RegisterHere(n, e)
  PROVE  /\ \A x \in Entity : x # e =>
              /\ Dir(Home[x], x)' = Dir(Home[x], x)
              /\ \A a, b \in Node : \A y :
                   Updates(x, y) => (y \in Msgs(a, b)' <=> y \in Msgs(a, b))
         /\ \A a, b \in Node : \A y : y \in Msgs(a, b)' /\ Updates(e, y) =>
              y \in Msgs(a, b) \/ y.node = n
         /\ IF Home[e] = n
            THEN Dir(Home[e], e)' # Absent /\ Dir(Home[e], e)'.cur_node = n
            ELSE Dir(Home[e], e)' = Dir(Home[e], e) /\ UpdateInFlight(e)'
<1>1. Registers(n, e)
  BY RegisterEffect
<1>2. /\ ResolveResponse(e, n).type # "updateHome"
      /\ UpdateHome(e, n).id = e /\ UpdateHome(e, n).node = n
      /\ UpdateHome(e, n).type = "updateHome"
  BY DEF ResolveResponse, UpdateHome
<1>3. \A a, b \in Node : OnWire(net, a, b) = Msgs(a, b)
  BY DEF OnWire, Msgs
<1>4. \A a, b \in Node : \A y :
        /\ y \in Msgs(a, b) => y \in Msgs(a, b)'
        /\ y \in Msgs(a, b)' => y \in Msgs(a, b) \/ y = ResolveResponse(e, n)
                                \/ y = UpdateHome(e, n)
  BY <1>1, <1>3 DEF Registers, Announces, Sends
<1>5. \A x \in Entity : x # e => Dir(Home[x], x)' = Dir(Home[x], x)
  BY <1>1, HomeType DEF Registers, Announces, SameDir
<1>6. CASE Home[e] = n
  BY <1>1, <1>2, <1>4, <1>5, <1>6, AbsentRecord DEF Registers, Announces, Updates
<1>7. CASE Home[e] # n
  <2>1. UpdateHome(e, n) \in Msgs(n, Home[e])'
    BY <1>1, <1>7, HomeType DEF Registers, Sends
  <2>2. UpdateInFlight(e)'
    BY <1>2, <2>1, HomeType DEF UpdateInFlight
  <2> QED BY <1>1, <1>2, <1>4, <1>5, <1>7, <2>2, HomeType DEF Registers, SameDir, Updates
<1> QED BY <1>6, <1>7

\* registerEntity and entityImmigrated.
LEMMA PlacedArrives ==
  ASSUME TypeInv, Placement, Hosting, Paced, HistTypes, Heads, AllPlaced,
         NEW n \in Node, NEW e \in Entity, Arrives(n, e),
         transit[e] = n \/ MayMove(e)
  PROVE  AllPlaced'
<1>n. NoNode \notin Node
  BY ConstantsAssumption
<1>0. ~UpdateInFlight(e)
  BY <1>n DEF Hosting, PacedHome, MayMove
<1>1. RegisterHere(n, e)
  BY DEF Arrives
<1>2. ASSUME NEW x \in Entity, x # e PROVE Placed(x)'
  BY <1>1, <1>2, RegisterUpdates, PlacedKept DEF Arrives, OthersStay, AllPlaced
<1>3. Placed(e)'
  <2> DEFINE s == itinerary[e]
  <2>s. s \in Seq(Node)
    BY DEF HistTypes
  <2>1. Len(itinerary'[e]) > 0 /\ Newest(e)' = n
    BY <1>n, NewestSent DEF Arrives, SameWay, Heads, Newest
  <2>2. \A a, b \in Node : \A y : y \in Msgs(a, b)' /\ Updates(e, y) => y.node = n
    BY <1>0, <1>1, RegisterUpdates DEF UpdateInFlight, Updates
  <2>3. CASE Home[e] = n
    BY <1>1, <2>1, <2>2, <2>3, RegisterUpdates, PlacedNewest
  <2>4. CASE Home[e] # n
    <3>1. Dir(Home[e], e)' = Dir(Home[e], e) /\ UpdateInFlight(e)'
      BY <1>1, <2>4, RegisterUpdates
    <3>2. CASE SameWay
      <4>1. itinerary'[e] = itinerary[e]
        BY <3>2 DEF SameWay
      <4> QED BY <2>1, <2>2, <3>1, <4>1 DEF AllPlaced, Placed, Newest
    <3>3. CASE SentTo(e, n) /\ transit[e] = NoNode
      <4>1. Dir(Home[e], e) # Absent => Len(s) > 0 /\ Dir(Home[e], e).cur_node = s[Len(s)]
        BY <1>0, <3>3 DEF AllPlaced, Placed, Newest
      <4>2. itinerary'[e] = Append(s, n)
        BY <3>3 DEF SentTo
      <4>3. /\ Len(itinerary'[e]) - 1 = Len(s)
            /\ Len(s) > 0 => itinerary'[e][Len(s)] = s[Len(s)] /\ Len(itinerary'[e]) > 1
        BY <2>s, <4>2, LongerItinerary
      <4>4. Dir(Home[e], e)' # Absent =>
              /\ Len(itinerary'[e]) > 1
              /\ Dir(Home[e], e)'.cur_node = itinerary'[e][Len(itinerary'[e]) - 1]
        BY <3>1, <4>1, <4>3
      <4> QED BY <2>1, <2>2, <3>1, <4>4 DEF Placed
    <3> QED BY <3>2, <3>3 DEF Arrives
  <2> QED BY <2>3, <2>4
<1> QED BY <1>2, <1>3 DEF AllPlaced

\* entityEmigrated.
LEMMA PlacedEmigrate ==
  ASSUME TypeInv, Placement, Paced, HistTypes, Heads, AllPlaced,
         NEW n \in Node, NEW e \in Entity, NEW m \in Node,
         Departs(n, e, m) \/ HandsOver(n, e, m)
  PROVE  AllPlaced'
<1>n. NoNode \notin Node
  BY ConstantsAssumption
<1>0. LetsGo(n, e, m)
  BY DEF Departs, HandsOver
<1>1. \A a, b \in Node : Msgs(a, b)' = Msgs(a, b)
  BY <1>0 DEF LetsGo, Msgs
<1>2. \A a \in Node, x \in Entity :
        Dir(a, x)' = IF a = n /\ x = e /\ Dir(n, e) # Absent
                     THEN makeRec(n, m) ELSE Dir(a, x)
  <2>1. recs_' = [recs_ EXCEPT ![n] = LookupUpdate(@, e, makeRec(n, m))]
    BY <1>0 DEF LetsGo, Stores
  <2> QED BY <2>1, UpdateEffect
<1>3. ASSUME NEW x \in Entity, x # e PROVE Placed(x)'
  BY <1>0, <1>1, <1>2, <1>3, HomeType, PlacedKept DEF LetsGo, OthersStay, AllPlaced
<1>4. Placed(e)'
  <2> DEFINE s == itinerary[e]
  <2>s. s \in Seq(Node)
    BY DEF HistTypes
  <2>1. CASE Departs(n, e, m)
    <3>0. ~UpdateInFlight(e) /\ transit[e] = NoNode /\ transit'[e] = m
      BY <2>1 DEF Departs, MayMove
    <3>1. Len(itinerary'[e]) > 0 /\ Newest(e)' = m
      BY <2>1, NewestSent DEF Departs
    <3>2. \A a, b \in Node : \A y : ~(y \in Msgs(a, b)' /\ Updates(e, y))
      BY <1>1, <3>0 DEF UpdateInFlight, Updates
    <3>3. Dir(Home[e], e) # Absent => Len(s) > 0 /\ Dir(Home[e], e).cur_node = s[Len(s)]
      BY <3>0 DEF AllPlaced, Placed, Newest
    <3>4. itinerary'[e] = Append(s, m)
      BY <2>1 DEF Departs, SentTo
    <3>5. /\ Len(itinerary'[e]) - 1 = Len(s)
          /\ Len(s) > 0 => itinerary'[e][Len(s)] = s[Len(s)] /\ Len(itinerary'[e]) > 1
      BY <2>s, <3>4, LongerItinerary
    <3>6. \/ Dir(Home[e], e)' = Dir(Home[e], e)
          \/ Dir(Home[e], e)'.cur_node = m
      BY <1>2, AbsentRecord, HomeType
    <3>7. Dir(Home[e], e)' # Absent =>
            \/ Dir(Home[e], e)'.cur_node = m
            \/ /\ Len(itinerary'[e]) > 1
               /\ Dir(Home[e], e)'.cur_node = itinerary'[e][Len(itinerary'[e]) - 1]
      BY <3>3, <3>5, <3>6
    <3> QED BY <1>n, <3>0, <3>1, <3>2, <3>7 DEF Placed
  <2>2. CASE HandsOver(n, e, m)
    <3>1. /\ itinerary'[e] = itinerary[e] /\ transit'[e] = transit[e]
          /\ Len(itinerary'[e]) > 0 /\ Newest(e)' = m
      BY <2>2 DEF HandsOver, SameWay, Heads, Newest
    <3>2. CASE Dir(Home[e], e)' = Dir(Home[e], e)
      BY <1>1, <3>1, <3>2, PlacedKept DEF AllPlaced
    <3>3. CASE Dir(Home[e], e)' # Dir(Home[e], e)
      <4>1. Dir(Home[e], e)'.cur_node = m
        BY <1>2, <3>3, AbsentRecord, HomeType
      <4>2. Newest(e)' = Newest(e)
        BY <3>1 DEF Newest
      <4> QED BY <1>1, <3>1, <4>1, <4>2, PlacedNewest DEF AllPlaced, Placed
    <3> QED BY <3>2, <3>3
  <2> QED BY <2>1, <2>2
<1> QED BY <1>3, <1>4 DEF AllPlaced

\* Everything else: updateHome makes the directory name the newest place.
LEMMA PlacedOthers ==
  ASSUME TypeInv, Placement, Paced, HistTypes, Heads, AllPlaced, NobodyMoves,
         \/ \E n \in Node, e \in Entity : \/ unregisterEntity(n, e)
                                          \/ getLocation(n, e)
                                          \/ entityExists(n, e)
         \/ \E n \in Node : clearCache(n)
         \/ \E s, n \in Node : Poll(s, n)
  PROVE  AllPlaced'
<1> SUFFICES ASSUME NEW x \in Entity PROVE Placed(x)'
  BY DEF AllPlaced
<1> DEFINE h == Home[x]
<1>0. /\ itinerary'[x] = itinerary[x] /\ transit'[x] = transit[x]
      /\ Placed(x) /\ h \in Node
  BY HomeType DEF NobodyMoves, SameWay, AllPlaced
<1> DEFINE SameUps == \A a, b \in Node : \A y :
             Updates(x, y) => (y \in Msgs(a, b)' <=> y \in Msgs(a, b))
           SameDirs == Dir(h, x)' = Dir(h, x)
<1>1. SameUps /\ SameDirs => Placed(x)'
  BY <1>0, PlacedKept
<1>2. SameUps /\ Dir(h, x)' = Absent => Placed(x)'
  BY <1>0 DEF Placed, Newest
<1>3. ASSUME NEW n \in Node, NEW e \in Entity, unregisterEntity(n, e)
      PROVE  Placed(x)'
  <2>1. Unregisters(n, e)
    BY <1>3, UnregisterEffect
  <2>2. SameUps /\ (SameDirs \/ Dir(h, x)' = Absent)
    BY <1>0, <2>1 DEF Unregisters
  <2> QED BY <1>1, <1>2, <2>2
<1>4. ASSUME NEW n \in Node, NEW e \in Entity, getLocation(n, e) \/ entityExists(n, e)
      PROVE  Placed(x)'
  <2>1. LocationRequest(e, n).type # "updateHome" /\ ExistsRequest(e, n).type # "updateHome"
    BY DEF LocationRequest, ExistsRequest
  <2>2. SameUps /\ SameDirs
    BY <1>0, <1>4, <2>1, GetLocationEffect, EntityExistsEffect
       DEF AsksLocation, AsksExistence, Sends, SameDir, Updates
  <2> QED BY <1>1, <2>2
<1>5. ASSUME NEW n \in Node, clearCache(n) PROVE Placed(x)'
  <2>1. SameUps /\ SameDirs
    BY <1>0, <1>5, ClearCacheEffect DEF ClearsCache, SameDir
  <2> QED BY <1>1, <2>1
<1>6. ASSUME NEW s \in Node, NEW n \in Node, Poll(s, n) PROVE Placed(x)'
  <2>1. PICK m : /\ m \in Msgs(s, n) /\ RoutedMsg(s, n, m) /\ m.id \in Entity
                 /\ \/ HandlesUpdateHome(s, n, m)
                    \/ HandlesLocationRequest(s, n, m)
                    \/ HandlesResolveResponse(s, n, m)
                    \/ HandlesExistsRequest(s, n, m)
                    \/ HandlesExistsResponse(s, n, m)
    BY <1>6, PollEffect
  <2>2. \A node : ResolveResponse(m.id, node).type # "updateHome"
    BY DEF ResolveResponse
  <2>3. CASE HandlesUpdateHome(s, n, m)
    <3>1. PICK q \in Channels :
            /\ Announces(n, m.id, m.node, q)
            /\ \A a, b \in Node : \A y :
                 y \in Msgs(a, b) <=>
                   y \in OnWire(q, a, b) \/ (a = s /\ b = n /\ y = m)
      BY <2>3 DEF HandlesUpdateHome
    <3>2. Home[m.id] = n /\ m.type = "updateHome" /\ m.node \in Node
      BY <2>1, <2>3 DEF HandlesUpdateHome, RoutedMsg
    <3>3. \A a, b \in Node : \A y : y.type = "updateHome" =>
            /\ y \in Msgs(a, b)' => y \in Msgs(a, b)
            /\ y \in Msgs(a, b) => y \in Msgs(a, b)' \/ y = m
      BY <2>2, <3>1 DEF Announces
    <3>4. CASE x = m.id
      <4>1. Dir(h, x)' = makeRec(n, m.node)
        BY <3>1, <3>2, <3>4 DEF Announces
      <4>2. Dir(h, x)'.cur_node = m.node
        BY <3>2, <4>1, AbsentRecord
      <4>3. Len(itinerary[x]) > 0 /\ m.node = Newest(x)
        BY <1>0, <2>1, <3>2, <3>4 DEF Placed, Updates
      <4>4. Newest(x)' = Newest(x)
        BY <1>0 DEF Newest
      <4>5. \A a, b \in Node : \A y : y \in Msgs(a, b)' /\ Updates(x, y) => y.node = Newest(x)'
        BY <1>0, <3>3, <4>4 DEF Placed, Updates
      <4> QED BY <1>0, <4>2, <4>3, <4>4, <4>5, PlacedNewest
    <3>5. CASE x # m.id
      <4>1. SameDirs
        BY <1>0, <3>1, <3>5 DEF Announces
      <4>2. SameUps
        BY <3>3, <3>5 DEF Updates
      <4> QED BY <1>1, <4>1, <4>2
    <3> QED BY <3>4, <3>5
  <2>4. CASE HandlesLocationRequest(s, n, m)
    <3>1. SameUps /\ SameDirs
      BY <1>0, <2>2, <2>4 DEF HandlesLocationRequest, Replies, Receives, SameDir, Updates
    <3> QED BY <1>1, <3>1
  <2>5. CASE HandlesResolveResponse(s, n, m)
    <3>1. Home[m.id] # n
      BY <2>1, <2>5 DEF HandlesResolveResponse, RoutedMsg
    <3>2. SameUps /\ SameDirs
      BY <1>0, <2>5, <3>1 DEF HandlesResolveResponse, Receives, Updates
    <3> QED BY <1>1, <3>2
  <2>6. CASE HandlesExistsRequest(s, n, m)
    <3>1. SameUps /\ SameDirs
      BY <1>0, <2>6 DEF HandlesExistsRequest, Replies, SameDir, Updates
    <3> QED BY <1>1, <3>1
  <2>7. CASE HandlesExistsResponse(s, n, m)
    <3>1. Home[m.id] # n
      BY <2>1, <2>7 DEF HandlesExistsResponse, RoutedMsg
    <3>2. SameUps /\ SameDirs
      BY <1>0, <2>7, <3>1 DEF HandlesExistsResponse, Receives, Updates
    <3> QED BY <1>1, <3>2
  <2> QED BY <2>1, <2>3, <2>4, <2>5, <2>6, <2>7
<1> QED BY <1>3, <1>4, <1>5, <1>6

\* Every step keeps the home one move behind at most.
LEMMA PlacedStep ==
  ASSUME TypeInv, Placement, Hosting, Paced, HistTypes, Heads, AllPlaced, HistNext
  PROVE  AllPlaced'
<1>0. OneHost /\ Next
  BY DEF Hosting, HistNext
<1>1. ASSUME NEW n \in Node, NEW e \in Entity,
             registerEntity(n, e) \/ entityImmigrated(n, e)
      PROVE  AllPlaced'
  <2>1. transit[e] = n \/ MayMove(e)
    BY <1>1 DEF registerEntity, entityImmigrated, StartMove
  <2> QED BY <1>0, <1>1, <2>1, Arrival, PlacedArrives
<1>2. ASSUME NEW n \in Node, NEW e \in Entity, NEW m \in Node, entityEmigrated(n, e, m)
      PROVE  AllPlaced'
  BY <1>0, <1>2, Departure, PlacedEmigrate
<1>3. ASSUME \/ \E n \in Node, e \in Entity : \/ unregisterEntity(n, e)
                                              \/ getLocation(n, e)
                                              \/ entityExists(n, e)
             \/ \E n \in Node : clearCache(n)
             \/ \E s, n \in Node : Poll(s, n)
      PROVE  AllPlaced'
  BY <1>3, NoMove, PlacedOthers
<1> QED BY <1>0, <1>1, <1>2, <1>3 DEF Next, Call

-----------------------------------------------------------------------------
(* What a step does to the channels from the home                          *)

\* Channel p is q with more messages at its end; those that tell where x is
\* say what the directory entry d says.
Grows(q, p, x, d) ==
  /\ DOMAIN q \subseteq DOMAIN p /\ \A i \in DOMAIN q : p[i] = q[i]
  /\ \A i \in DOMAIN p \ DOMAIN q :
       Tells(p[i], x) => d # Absent /\ p[i].node = d.cur_node

\* Channel p is q without its first message.
Shifts(q, p) == 1 \in DOMAIN q /\ p = RemoveAt(q, 1)

\* Every channel from a home is one or the other.
Wire ==
  \A x \in Entity, r \in Node :
    LET h == Home[x]
    IN  Grows(net[h][r], net'[h][r], x, Dir(h, x)') \/ Shifts(net[h][r], net'[h][r])

\* What message w tells is what the directory says after the step.
Repeats(w) ==
  \A x \in Entity : Tells(w, x) =>
    Dir(Home[x], x)' # Absent /\ w.node = Dir(Home[x], x)'.cur_node

\* A channel that nothing is sent on.
LEMMA GrowsSame == \A q, x, d : Grows(q, q, x, d)
BY DEF Grows

\* One more message.
LEMMA GrowsAppend ==
  ASSUME NEW S, NEW q \in Seq(S), NEW m \in S, NEW x, NEW d,
         Tells(m, x) => d # Absent /\ m.node = d.cur_node
  PROVE  Grows(q, Append(q, m), x, d)
<1> DEFINE p == Append(q, m)
<1>1. /\ Len(q) \in Nat /\ DOMAIN q = 1..Len(q)
      /\ p \in Seq(S) /\ Len(p) = Len(q) + 1
      /\ \A i \in 1..Len(q) : p[i] = q[i]
      /\ p[Len(q) + 1] = m
  BY LenProperties, AppendProperties
<1>2. DOMAIN p = 1..(Len(q) + 1)
  BY <1>1, LenProperties
<1> HIDE DEF p
<1>3. /\ DOMAIN q \subseteq DOMAIN p /\ \A i \in DOMAIN q : p[i] = q[i]
      /\ \A i \in DOMAIN p \ DOMAIN q : p[i] = m
  BY <1>1, <1>2
<1>4. Grows(q, p, x, d)
  BY <1>3 DEF Grows
<1> QED BY <1>4 DEF p

\* The answers of announceLocation to one rank.
LEMMA GrowsRepeat ==
  ASSUME NEW q \in Seq(Message), NEW m \in Message, NEW k \in Nat,
         NEW x, NEW d, Tells(m, x) => d # Absent /\ m.node = d.cur_node
  PROVE  Grows(q, q \o Repeat(m, k), x, d)
<1> DEFINE w == Repeat(m, k)
           p == q \o w
<1>1. w \in Seq(Message) /\ Len(w) = k /\ \A j \in 1..k : w[j] = m
  <2>1. w \in Seq(Message)
    BY RepeatProperties
  <2>2. DOMAIN w = 1..k /\ \A j \in 1..k : w[j] = m
    BY DEF Repeat
  <2>3. Len(w) = k
    BY <2>1, <2>2, LenProperties
  <2> QED BY <2>1, <2>2, <2>3
<1>p. p = q \o w
  OBVIOUS
<1> HIDE DEF w, p
<1>q. Len(q) \in Nat /\ DOMAIN q = 1..Len(q)
  BY LenProperties
<1>2. /\ p \in Seq(Message) /\ Len(p) = Len(q) + k
      /\ \A j \in 1..(Len(q) + k) :
           p[j] = IF j <= Len(q) THEN q[j] ELSE w[j - Len(q)]
  <2>1. /\ q \o w \in Seq(Message) /\ Len(q \o w) = Len(q) + k
        /\ \A j \in 1..(Len(q) + k) :
             (q \o w)[j] = IF j <= Len(q) THEN q[j] ELSE w[j - Len(q)]
    BY <1>1, ConcatProperties, Zenon
  <2> QED BY <1>p, <2>1, Zenon
<1>3. DOMAIN p = 1..(Len(q) + k)
  BY <1>2, LenProperties
<1>4. ASSUME NEW j \in DOMAIN q PROVE j \in DOMAIN p /\ p[j] = q[j]
  <2>1. j \in 1..(Len(q) + k) /\ j <= Len(q)
    BY <1>q
  <2> QED BY <1>2, <1>3, <2>1
<1>5. ASSUME NEW j \in DOMAIN p, j \notin DOMAIN q PROVE p[j] = m
  <2>1. ~(j <= Len(q)) /\ j - Len(q) \in 1..k
    BY <1>q, <1>3, <1>5
  <2>2. p[j] = w[j - Len(q)]
    BY <1>2, <1>3, <2>1
  <2> QED BY <1>1, <2>1, <2>2
<1>6. Grows(q, p, x, d)
  BY <1>4, <1>5 DEF Grows
<1> QED BY <1>6 DEF p, w

\* The channels q before rank n sends anything: as they were, or rank n has
\* taken the first message of one of another rank.
Taken(q, n) ==
  /\ q \in Channels
  /\ \A a, b \in Node : q[a][b] = net[a][b] \/ (a # n /\ Shifts(net[a][b], q[a][b]))

\* Nothing taken.
LEMMA TakenNothing == TypeInv => \A n : Taken(net, n)
BY DEF TypeInv, TypeOK, Channels, Taken

\* A message the communicator dispatches over an ordered channel is the first.
LEMMA TakenFirst ==
  ASSUME TypeInv, Placement, Ordered, NEW s \in Node, NEW n \in Node,
         NEW i \in Receivable(s, n)
  PROVE  /\ s # n /\ i = 1 /\ Taken(Take(net, s, n, i), n)
         /\ Shifts(net[s][n], Take(net, s, n, i)[s][n])
<1> DEFINE q == Take(net, s, n, i)
<1>0. net \in Channels
  BY DEF TypeInv, TypeOK, Channels
<1>1. i = 1 /\ i \in DOMAIN net[s][n]
  BY DEF Receivable
<1>2. q \in Channels /\ net[s][n][i] \in Msgs(s, n)
  BY <1>1, TakeEffect
<1>3. s # n
  BY <1>2 DEF Placement, Routed, RoutedMsg
<1>4. \A a, b \in Node : q[a][b] = IF a = s /\ b = n THEN RemoveAt(net[s][n], i) ELSE net[a][b]
  BY <1>0, TakeChannel
<1> HIDE DEF q
<1>5. Taken(q, n) /\ Shifts(net[s][n], q[s][n])
  BY <1>1, <1>2, <1>3, <1>4 DEF Taken, Shifts
<1> QED BY <1>1, <1>3, <1>5 DEF q

\* A step that sends nothing.
LEMMA WireQuiet ==
  ASSUME NEW n \in Node, Taken(net', n)
  PROVE  Wire
BY HomeType, GrowsSame DEF Wire, Taken

\* A step that sends one message.
LEMMA WireSend ==
  ASSUME NEW n \in Node, NEW to \in Node, NEW q, Taken(q, n), NEW w \in Message,
         net' = Send(q, n, to, w), Repeats(w)
  PROVE  Wire
<1> SUFFICES ASSUME NEW x \in Entity, NEW r \in Node
             PROVE  \/ Grows(net[Home[x]][r], net'[Home[x]][r], x, Dir(Home[x], x)')
                    \/ Shifts(net[Home[x]][r], net'[Home[x]][r])
  BY DEF Wire
<1> DEFINE h == Home[x]
<1>0. h \in Node /\ q \in Channels
  BY HomeType DEF Taken
<1>1. net'[h][r] = IF h = n /\ r = to THEN Append(q[n][to], w) ELSE q[h][r]
  BY <1>0, SendChannel
<1>2. CASE h = n /\ r = to
  <2>1. q[n][to] = net[n][to] /\ q[n][to] \in Seq(Message)
    BY <1>0 DEF Taken, Channels
  <2>2. Grows(q[n][to], Append(q[n][to], w), x, Dir(h, x)')
    BY <2>1, GrowsAppend DEF Repeats
  <2> QED BY <1>1, <1>2, <2>1, <2>2
<1>3. CASE ~(h = n /\ r = to)
  BY <1>0, <1>1, <1>3, GrowsSame DEF Taken
<1> QED BY <1>2, <1>3

\* announceLocation.
LEMMA WireAnnounce ==
  ASSUME TypeInv, NEW n \in Node, NEW e \in Entity, Home[e] = n, NEW node \in Node,
         NEW q, Taken(q, n), announceLocation(n, e, node, q)
  PROVE  Wire
<1> SUFFICES ASSUME NEW x \in Entity, NEW r \in Node
             PROVE  \/ Grows(net[Home[x]][r], net'[Home[x]][r], x, Dir(Home[x], x)')
                    \/ Shifts(net[Home[x]][r], net'[Home[x]][r])
  BY DEF Wire
<1> DEFINE h == Home[x]
           w == ResolveResponse(e, node)
           k == Announced(n, e, r)
<1>0. h \in Node /\ q \in Channels
  BY HomeType DEF Taken
<1>1. net'[h][r] = IF h = n THEN q[n][r] \o Repeat(w, k) ELSE q[h][r]
  BY <1>0, AnnounceChannel
<1>2. Announces(n, e, node, q)
  BY <1>0, AnnounceEffect
<1>3. Dir(n, e)' # Absent /\ Dir(n, e)'.cur_node = node
  BY <1>2, AbsentRecord DEF Announces
<1>4. w \in Message /\ w.node = node /\ w.id = e
  BY MessageTypes DEF ResolveResponse
<1>5. k \in Nat
  BY AnnouncedType DEF TypeInv
<1> HIDE DEF w, k
<1>6. CASE h = n
  <2>1. q[n][r] = net[n][r] /\ q[n][r] \in Seq(Message)
    BY <1>0 DEF Taken, Channels
  <2>2. Tells(w, x) => Dir(h, x)' # Absent /\ w.node = Dir(h, x)'.cur_node
    BY <1>3, <1>4, <1>6 DEF Tells
  <2>3. Grows(q[n][r], q[n][r] \o Repeat(w, k), x, Dir(h, x)')
    BY <1>4, <1>5, <2>1, <2>2, GrowsRepeat
  <2> QED BY <1>1, <1>6, <2>1, <2>3
<1>7. CASE h # n
  BY <1>0, <1>1, <1>7, GrowsSame DEF Taken
<1> QED BY <1>6, <1>7

-----------------------------------------------------------------------------
(* What a step looks like from the itineraries                             *)

\* Rank n hands out the newest place of e; it is the home, or hosts e.
AtNewest(n, e) ==
  /\ Len(itinerary'[e]) > 0 /\ View(n, e)' = Newest(e)'
  /\ n = Home[e] \/ Lives(e, n)'

\* Rank n takes a message off the channel from the home and hands out the
\* place that it tells.
Told(n, e) ==
  LET q == net[Home[e]][n]
  IN  /\ n # Home[e] /\ ~Lives(e, n)
      /\ Shifts(q, net'[Home[e]][n])
      /\ Tells(q[1], e) /\ View(n, e)' = q[1].node

\* Only rank n changes what it hands out, and forgets if it is not about e.
OthersSee(n, e) ==
  \A r \in Node, x \in Entity : r # n \/ x # e =>
    View(r, x)' = View(r, x) \/ (r = n /\ View(r, x)' = NoNode)

Sees(n, e) ==
  /\ OthersSee(n, e)
  /\ \/ View(n, e)' \in {View(n, e), NoNode}
     \/ n \in former'[e]
     \/ AtNewest(n, e)
     \/ Told(n, e)

\* Only e goes anywhere, and no further than one place.
OneGoes(e) ==
  /\ \A x \in Entity : x # e => itinerary'[x] = itinerary[x]
  /\ \/ itinerary'[e] = itinerary[e]
     \/ \E m \in Node : itinerary'[e] = Append(itinerary[e], m)

\* A directory entry that changes names the newest place.
DirMoves ==
  \A x \in Entity :
    LET d == Dir(Home[x], x)
    IN  d' = d \/ d' = Absent \/ d'.cur_node = Newest(x)'

Outline(n, e) == Sees(n, e) /\ Wire /\ DirMoves /\ OneGoes(e)

\* What a step that changes the records of rank n about e leaves alone.
LEMMA OthersKept ==
  ASSUME Views, Views', NEW n \in Node, NEW e \in Entity,
         \A a \in Node : a # n => recs_'[a] = recs_[a],
         \A a \in Node, x \in Entity :
           a # n \/ x # e => (Lives(x, a)' <=> Lives(x, a)),
         \A x \in Entity : x # e => Dir(n, x)' = Dir(n, x),
         \A y \in Memo(n)' : y.key # e => y \in Memo(n)
  PROVE  OthersSee(n, e)
<1>1. ASSUME NEW r \in Node, NEW x \in Entity, r # n
      PROVE  View(r, x)' = View(r, x)
  BY <1>1, SameView
<1>2. ASSUME NEW x \in Entity, x # e
      PROVE  View(n, x)' \in {View(n, x), NoNode}
  <2>1. \A y \in Memo(n)' : y.key = x => y \in Memo(n)
    BY <1>2
  <2> QED BY <1>2, <2>1, ViewKept
<1> QED BY <1>1, <1>2 DEF OthersSee

\* A step that stores nothing and leaves the registrations and the directories.
LEMMA AllKept ==
  ASSUME TypeInv, Views, Views', NEW n \in Node, SameHosts, SameDir, NothingStored,
         \A a \in Node : a # n => recs_'[a] = recs_[a],
         NEW e \in Entity
  PROVE  Sees(n, e)
<1>1. \A x \in Entity, a \in Node : Lives(x, a)' <=> Lives(x, a)
  BY DEF SameHosts
<1>2. OthersSee(n, e)
  BY <1>1, OthersKept DEF SameDir, NothingStored
<1>3. View(n, e)' \in {View(n, e), NoNode}
  BY <1>1, ViewKept DEF SameDir, NothingStored
<1> QED BY <1>2, <1>3 DEF Sees

\* registerEntity and entityImmigrated.
LEMMA ArrivesOutline ==
  ASSUME TypeInv, Placement, HistTypes, Heads, Views, Views', HistNext,
         NEW n \in Node, NEW e \in Entity, Arrives(n, e)
  PROVE  Outline(n, e)
<1>n. NoNode \notin Node
  BY ConstantsAssumption
<1>1. RegisterHere(n, e) /\ OthersStay(e)
  BY DEF Arrives
<1>2. Len(itinerary'[e]) > 0 /\ Newest(e)' = n
  BY <1>n, NewestSent DEF Arrives, SameWay, Heads, Newest
<1>3. OneGoes(e)
  BY DEF Arrives, SentTo, SameWay, OneGoes
<1>4. /\ \A x \in Entity : x # e => Dir(Home[x], x)' = Dir(Home[x], x)
      /\ Dir(Home[e], e)' = Dir(Home[e], e) \/ Dir(Home[e], e)'.cur_node = n
  BY <1>1, RegisterUpdates
<1>5. DirMoves
  BY <1>2, <1>4 DEF DirMoves
<1>6. Sees(n, e)
  <2>1. \A a \in Node : a # n => recs_'[a] = recs_[a]
    <3>1. CASE Home[e] = n
      <4>1. recs_' = [recs_ EXCEPT ![n] = LookupInsert(@, n, e, n, makeRec(n, n))]
        BY <1>1, <3>1 DEF RegisterHere, announceLocation
      <4>2. \A a \in Node : recs_'[a] = IF a = n
              THEN LookupInsert(recs_[n], n, e, n, makeRec(n, n)) ELSE recs_[a]
        BY <4>1, RecsAt DEF TypeInv
      <4> QED BY <4>2
    <3>2. CASE Home[e] # n
      BY <1>1, <3>2 DEF RegisterHere
    <3> QED BY <3>1, <3>2
  <2>2. \A a \in Node, x \in Entity :
          a # n \/ x # e => (Lives(x, a)' <=> Lives(x, a))
    BY DEF Arrives, OthersStay
  <2>3. \A x \in Entity : x # e => Dir(n, x)' = Dir(n, x)
    BY <1>1, RegisterEffect DEF Registers, Announces, SameDir
  <2>4. NothingStored
    BY <1>1, StoresNothing
  <2>5. OthersSee(n, e)
    BY <2>1, <2>2, <2>3, <2>4, OthersKept DEF NothingStored
  <2>6. Lives(e, n)' /\ View(n, e)' = n
    BY DEF Arrives, Views
  <2> QED BY <1>2, <2>5, <2>6 DEF Sees, AtNewest
<1>7. Wire
  <2>1. CASE Home[e] = n
    BY <1>1, <2>1, TakenNothing, WireAnnounce DEF RegisterHere
  <2>2. CASE Home[e] # n
    <3>1. net' = Send(net, n, Home[e], UpdateHome(e, n))
      BY <1>1, <2>2 DEF RegisterHere
    <3>2. Repeats(UpdateHome(e, n)) /\ UpdateHome(e, n) \in Message
      BY MessageTypes DEF Repeats, Tells, UpdateHome
    <3> QED BY <3>1, <3>2, HomeType, TakenNothing, WireSend
  <2> QED BY <2>1, <2>2
<1> QED BY <1>3, <1>5, <1>6, <1>7 DEF Outline

\* entityEmigrated.
LEMMA EmigrateOutline ==
  ASSUME TypeInv, Placement, HistTypes, Heads, Views, Views', HistNext,
         NEW n \in Node, NEW e \in Entity, NEW m \in Node, Lives(e, n),
         Departs(n, e, m) \/ HandsOver(n, e, m)
  PROVE  Outline(n, e)
<1>n. NoNode \notin Node
  BY ConstantsAssumption
<1>0. LetsGo(n, e, m)
  BY DEF Departs, HandsOver
<1>1. ~Lives(e, n)' /\ UNCHANGED net /\ OthersStay(e) /\ Stores(n, e, m)
  BY <1>0 DEF LetsGo
<1>2. Len(itinerary'[e]) > 0 /\ Newest(e)' = m
  BY <1>n, NewestSent DEF Departs, HandsOver, SameWay, Heads, Newest
<1>3. OneGoes(e)
  BY DEF Departs, HandsOver, SentTo, SameWay, OneGoes
<1>r. recs_' = [recs_ EXCEPT ![n] = LookupUpdate(@, e, makeRec(n, m))]
  BY <1>1 DEF Stores
<1>4. \A a \in Node, x \in Entity :
        Dir(a, x)' = IF a = n /\ x = e /\ Dir(n, e) # Absent
                     THEN makeRec(n, m) ELSE Dir(a, x)
  BY <1>r, UpdateEffect
<1>5. DirMoves
  BY <1>2, <1>4, AbsentRecord, HomeType DEF DirMoves
<1>6. OthersSee(n, e)
  <2>1. \A a \in Node : a # n => recs_'[a] = recs_[a]
    <3>1. \A a \in Node : recs_'[a] = IF a = n
            THEN LookupUpdate(recs_[n], e, makeRec(n, m)) ELSE recs_[a]
      BY <1>r, RecsAt DEF TypeInv
    <3> QED BY <3>1
  <2>2. \A a \in Node, x \in Entity :
          a # n \/ x # e => (Lives(x, a)' <=> Lives(x, a))
    BY <1>0 DEF LetsGo, OthersStay
  <2>3. \A y \in Memo(n)' : y.key # e => y \in Memo(n)
    BY <1>1, MemoStores
  <2> QED BY <1>4, <2>1, <2>2, <2>3, OthersKept
<1>7. n \in former'[e] \/ AtNewest(n, e)
  <2>1. CASE n # Home[e]
    BY <1>1, <2>1 DEF HistNext
  <2>2. CASE n = Home[e]
    <3>1. Dir(n, e) # Absent
      BY <2>2 DEF Views
    <3>2. Dir(n, e)' # Absent /\ Dir(n, e)'.cur_node = m
      BY <1>4, <3>1, AbsentRecord
    <3>3. View(n, e)' = m
      BY <1>1, <3>2 DEF Views
    <3> QED BY <1>2, <2>2, <3>3 DEF AtNewest
  <2> QED BY <2>1, <2>2
<1>8. Sees(n, e)
  BY <1>6, <1>7 DEF Sees
<1>9. Wire
  <2>1. Taken(net', n)
    BY <1>1, TakenNothing
  <2> QED BY <2>1, WireQuiet
<1> QED BY <1>3, <1>5, <1>8, <1>9 DEF Outline

-----------------------------------------------------------------------------
(* Everything else, where nobody arrives anywhere                          *)

\* A step in which nobody moves.
LEMMA NobodyGoes ==
  ASSUME NobodyMoves, NEW e \in Entity
  PROVE  OneGoes(e)
BY DEF NobodyMoves, SameWay, OneGoes

\* A step that leaves the directories.
LEMMA SameDirs == SameDir => DirMoves
BY HomeType DEF SameDir, DirMoves

\* A step that changes one rank's records leaves those of the others.
LEMMA OneRecord ==
  ASSUME TypeInv, NEW n \in Node, NEW l,
         recs_' = [recs_ EXCEPT ![n] = l] \/ recs_' = recs_
  PROVE  \A a \in Node : a # n => recs_'[a] = recs_[a]
<1>1. CASE recs_' = [recs_ EXCEPT ![n] = l]
  <2>1. \A a \in Node : recs_'[a] = IF a = n THEN l ELSE recs_[a]
    BY <1>1, RecsAt DEF TypeInv
  <2> QED BY <2>1
<1>2. CASE recs_' = recs_
  BY <1>2
<1> QED BY <1>1, <1>2

\* unregisterEntity.
LEMMA UnregisterOutline ==
  ASSUME TypeInv, Views, Views', NobodyMoves,
         NEW n \in Node, NEW e \in Entity, unregisterEntity(n, e)
  PROVE  Outline(n, e)
<1>1. Unregisters(n, e)
  BY UnregisterEffect
<1>2. UNCHANGED net /\ recs_' = [recs_ EXCEPT ![n] = LookupRemove(@, e)]
  BY DEF unregisterEntity
<1>3. \A a \in Node : a # n => recs_'[a] = recs_[a]
  BY <1>2, OneRecord
<1>4. NothingStored
  BY StoresNothing
<1>5. OthersSee(n, e)
  BY <1>1, <1>3, <1>4, OthersKept DEF Unregisters, NothingStored
<1>6. View(n, e)' = NoNode
  <2>1. \A y \in Memo(n)' : y.key # e
    BY UnregisterForgets
  <2>2. ~Lives(e, n)' /\ Dir(n, e)' = Absent
    BY <1>1 DEF Unregisters
  <2> QED BY <2>1, <2>2 DEF Views
<1>7. Sees(n, e)
  BY <1>5, <1>6 DEF Sees
<1>8. DirMoves
  BY <1>1, HomeType DEF Unregisters, DirMoves
<1>9. Wire
  <2>1. Taken(net', n)
    BY <1>2, TakenNothing
  <2> QED BY <2>1, WireQuiet
<1> QED BY <1>7, <1>8, <1>9, NobodyGoes DEF Outline

\* getLocation and entityExists.
LEMMA QueryOutline ==
  ASSUME TypeInv, Views, Views', NobodyMoves,
         NEW n \in Node, NEW e \in Entity, getLocation(n, e) \/ entityExists(n, e)
  PROVE  Outline(n, e)
<1>1. SameHosts /\ SameDir
  BY GetLocationEffect, EntityExistsEffect DEF AsksLocation, AsksExistence
<1>2. recs_' = [recs_ EXCEPT ![n] = AfterHit(n, e)] \/ recs_' = recs_
  BY DEF getLocation, entityExists
<1>3. \A a \in Node : a # n => recs_'[a] = recs_[a]
  BY <1>2, OneRecord
<1>4. NothingStored
  BY StoresNothing
<1>5. Sees(n, e)
  BY <1>1, <1>3, <1>4, AllKept
<1>6. Wire
  <2>1. \/ net' = net
        \/ net' = Send(net, n, Home[e], LocationRequest(e, n))
        \/ net' = Send(net, n, Home[e], ExistsRequest(e, n))
    BY DEF getLocation, entityExists
  <2>2. Taken(net, n)
    BY TakenNothing
  <2>3. /\ LocationRequest(e, n) \in Message /\ Repeats(LocationRequest(e, n))
        /\ ExistsRequest(e, n) \in Message /\ Repeats(ExistsRequest(e, n))
    BY MessageTypes DEF Repeats, Tells, LocationRequest, ExistsRequest
  <2> QED BY <2>1, <2>2, <2>3, HomeType, WireQuiet, WireSend
<1> QED BY <1>1, <1>5, <1>6, SameDirs, NobodyGoes DEF Outline

\* clearCache.
LEMMA ClearOutline ==
  ASSUME TypeInv, Views, Views', NobodyMoves, NEW n \in Node, clearCache(n)
  PROVE  \A e \in Entity : Outline(n, e)
<1>1. SameHosts /\ SameDir
  BY ClearCacheEffect DEF ClearsCache
<1>2. UNCHANGED net /\ recs_' = [recs_ EXCEPT ![n] = LookupClearCache(@)]
  BY DEF clearCache
<1>3. \A a \in Node : a # n => recs_'[a] = recs_[a]
  BY <1>2, OneRecord
<1>4. NothingStored
  BY StoresNothing
<1>5. Wire
  <2>1. Taken(net', n)
    BY <1>2, TakenNothing
  <2> QED BY <2>1, WireQuiet
<1> QED BY <1>1, <1>3, <1>4, <1>5, AllKept, SameDirs, NobodyGoes DEF Outline

\* announceLocation in the handler of an updateHome.
LEMMA AnnounceOutline ==
  ASSUME TypeInv, Placement, Views, Views', NobodyMoves, SameHosts,
         NEW n \in Node, NEW e \in Entity, NEW node \in Node, NEW q,
         Home[e] = n, Taken(q, n), announceLocation(n, e, node, q),
         Len(itinerary[e]) > 0, Newest(e) = node
  PROVE  Outline(n, e)
<1>1. Announces(n, e, node, q)
  BY AnnounceEffect DEF Taken
<1>2. Len(itinerary'[e]) > 0 /\ Newest(e)' = node
  BY DEF NobodyMoves, SameWay, Newest
<1>3. \A a \in Node, x \in Entity :
        Dir(a, x)' = IF a = n /\ x = e THEN makeRec(n, node) ELSE Dir(a, x)
  BY <1>1 DEF Announces
<1>4. makeRec(n, node) # Absent /\ makeRec(n, node).cur_node = node
  BY AbsentRecord
<1>5. DirMoves
  BY <1>2, <1>3, <1>4, HomeType DEF DirMoves
<1>6. Sees(n, e)
  <2>1. \A a \in Node : a # n => recs_'[a] = recs_[a]
    <3>1. recs_' = [recs_ EXCEPT ![n] = LookupInsert(@, n, e, n, makeRec(n, node))]
      BY DEF announceLocation
    <3> QED BY <3>1, OneRecord
  <2>2. \A x \in Entity, a \in Node : Lives(x, a)' <=> Lives(x, a)
    BY DEF SameHosts
  <2>3. NothingStored
    BY MemoShrinks DEF NothingStored
  <2>4. OthersSee(n, e)
    BY <1>3, <2>1, <2>2, <2>3, OthersKept DEF NothingStored
  <2>5. CASE Lives(e, n)
    <3>1. View(n, e)' = View(n, e)
      BY <2>2, <2>5 DEF Views
    <3> QED BY <2>4, <3>1 DEF Sees
  <2>6. CASE ~Lives(e, n)
    <3>1. View(n, e)' = node
      BY <1>3, <1>4, <2>2, <2>6 DEF Views
    <3> QED BY <1>2, <2>4, <3>1 DEF Sees, AtNewest
  <2> QED BY <2>5, <2>6
<1>7. Wire
  BY WireAnnounce
<1> QED BY <1>5, <1>6, <1>7, NobodyGoes DEF Outline

\* A step of the home that takes a message and may answer with another; e is
\* any entity of that home.
LEMMA AnswerOutline ==
  ASSUME TypeInv, Placement, Views, Views', NobodyMoves, SameHosts, SameDir,
         NothingStored, NEW n \in Node, NEW e \in Entity, NEW to \in Node, NEW q,
         \A a \in Node : a # n => recs_'[a] = recs_[a],
         Taken(q, n), Home[e] = n, NEW w \in Message, w.id = e,
         net' = q \/ net' = Send(q, n, to, w),
         Tells(w, e) => Dir(n, e) # Absent /\ w.node = Dir(n, e).cur_node
  PROVE  Outline(n, e)
<1>1. Sees(n, e)
  BY AllKept
<1>2. Repeats(w)
  <2>1. ASSUME NEW x \in Entity, Tells(w, x)
        PROVE  Dir(Home[x], x)' # Absent /\ w.node = Dir(Home[x], x)'.cur_node
    <3>1. x = e
      BY <2>1 DEF Tells
    <3> QED BY <2>1, <3>1 DEF SameDir
  <2> QED BY <2>1 DEF Repeats
<1>3. Wire
  BY <1>2, WireQuiet, WireSend
<1> QED BY <1>1, <1>3, SameDirs, NobodyGoes DEF Outline

\* resolveResponse and existsResponse store what they say ...
LEMMA LearnOutline ==
  ASSUME TypeInv, Placement, Views, Views', NobodyMoves, SameHosts,
         NEW s \in Node, NEW n \in Node, NEW e \in Entity, NEW node \in Node,
         s = Home[e], s # n, Taken(net', n), Shifts(net[s][n], net'[s][n]),
         Tells(net[s][n][1], e), net[s][n][1].node = node, Stores(n, e, node)
  PROVE  Outline(n, e)
<1>1. Dir(n, e) = Absent
  BY DEF Views
<1>2. /\ SameDir
      /\ \A y \in Memo(n)' :
           \/ y \in Memo(n) /\ y.key # e
           \/ y.key = e /\ y.value.cur_node = node
  BY <1>1, MemoStores
<1>3. \A x \in Entity, a \in Node : Lives(x, a)' <=> Lives(x, a)
  BY DEF SameHosts
<1>4. \A a \in Node : a # n => recs_'[a] = recs_[a]
  <2>1. recs_' = [recs_ EXCEPT ![n] = LookupUpdate(@, e, makeRec(n, node))]
    BY DEF Stores
  <2> QED BY <2>1, OneRecord
<1>5. OthersSee(n, e)
  BY <1>2, <1>3, <1>4, OthersKept DEF SameDir
<1>6. CASE Lives(e, n)
  <2>1. View(n, e)' = View(n, e)
    BY <1>3, <1>6 DEF Views
  <2> QED BY <1>2, <1>5, <2>1, WireQuiet, SameDirs, NobodyGoes DEF Outline, Sees
<1>7. CASE ~Lives(e, n)
  <2>1. ~Lives(e, n)' /\ Dir(n, e)' = Absent
    BY <1>1, <1>2, <1>3, <1>7 DEF SameDir
  <2>2. View(n, e)' \in {node, NoNode}
    BY <1>2, <2>1 DEF Views
  <2>3. View(n, e)' = NoNode \/ Told(n, e)
    BY <1>7, <2>2 DEF Told
  <2> QED BY <1>2, <1>5, <2>3, WireQuiet, SameDirs, NobodyGoes DEF Outline, Sees
<1> QED BY <1>6, <1>7

\* ... or nothing.
LEMMA IgnoreOutline ==
  ASSUME TypeInv, Placement, Views, Views', NobodyMoves, SameHosts,
         NEW n \in Node, NEW e \in Entity, Taken(net', n), UNCHANGED recs_
  PROVE  Outline(n, e)
<1>1. SameDir /\ NothingStored
  BY DEF SameDir, NothingStored, Dir, Memo
<1>2. Sees(n, e)
  BY <1>1, AllKept
<1> QED BY <1>1, <1>2, WireQuiet, SameDirs, NobodyGoes DEF Outline

\* Every handler, in these terms.
LEMMA PollOutline ==
  ASSUME TypeInv, Placement, Ordered, AllPlaced, Views, Views', NobodyMoves,
         NEW s \in Node, NEW n \in Node, Poll(s, n)
  PROVE  \E e \in Entity : Outline(n, e)
<1>1. PICK i \in DOMAIN net[s][n] :
        \/ updateHome(s, n, i) \/ locationRequest(s, n, i)
        \/ resolveResponse(s, n, i) \/ existsRequest(s, n, i)
        \/ existsResponse(s, n, i)
  BY DEF Poll
<1>2. PICK m : m = net[s][n][i]
  OBVIOUS
<1>3. PICK q : q = Take(net, s, n, i)
  OBVIOUS
<1>4. i \in Receivable(s, n) /\ UNCHANGED local_registered_
  BY <1>1 DEF updateHome, locationRequest, resolveResponse, existsRequest,
     existsResponse, Handles
<1>5. SameHosts
  BY <1>4 DEF SameHosts, Lives
<1>6. /\ m \in Message /\ m \in Msgs(s, n)
      /\ s # n /\ i = 1 /\ Taken(q, n) /\ Shifts(net[s][n], q[s][n])
  BY <1>2, <1>3, <1>4, TakeEffect, TakenFirst
<1>7. RoutedMsg(s, n, m)
  BY <1>6 DEF Placement, Routed
<1>8. PICK e \in Entity : e = m.id
  BY <1>6, MessageFields
<1>9. CASE updateHome(s, n, i)
  <2>1. m.type = "updateHome" /\ announceLocation(n, e, m.node, q)
    BY <1>2, <1>3, <1>8, <1>9 DEF updateHome, Handles
  <2>2. m.node \in Node /\ Home[e] = n
    BY <1>6, <1>7, <1>8, <2>1, MessageFields DEF RoutedMsg
  <2>3. Len(itinerary[e]) > 0 /\ Newest(e) = m.node
    BY <1>6, <1>8, <2>1 DEF AllPlaced, Placed, Updates
  <2> QED BY <1>5, <1>6, <2>1, <2>2, <2>3, AnnounceOutline
<1>10. ASSUME locationRequest(s, n, i) \/ existsRequest(s, n, i)
       PROVE  Outline(n, e)
  <2>1. m.type \in {"locationRequest", "existsRequest"}
    BY <1>2, <1>10 DEF locationRequest, existsRequest, Handles
  <2>2. m.node \in Node /\ Home[e] = n
    BY <1>6, <1>7, <1>8, <2>1, MessageFields DEF RoutedMsg
  <2>3. SameDir
    BY <1>10, LocationRequestEffect, ExistsRequestEffect
       DEF HandlesLocationRequest, HandlesExistsRequest
  <2>4. NothingStored
    BY <1>10, StoresNothing
  <2>5. recs_' = [recs_ EXCEPT ![n] = AfterAnswer(n, e)] \/ recs_' = recs_
    BY <1>2, <1>8, <1>10 DEF locationRequest, existsRequest
  <2>6. \A a \in Node : a # n => recs_'[a] = recs_[a]
    BY <2>5, OneRecord
  <2> DEFINE known == ResolveResponse(e, HomeAnswer(n, e))
             found == ExistsResponse(e, TRUE, HomeAnswer(n, e))
             none  == ExistsResponse(e, FALSE, NoNode)
             Fine(w) == /\ w \in Message /\ w.id = e
                        /\ Tells(w, e) => Dir(n, e) # Absent /\ w.node = Dir(n, e).cur_node
  <2>7. isCached(n, e) => Dir(n, e) # Absent /\ HomeAnswer(n, e) = Dir(n, e).cur_node
    BY <2>2, HomeHasIsCached, HomeAnswersDirectory DEF HomeHas
  <2>8. HomeAnswer(n, e) \in Node
    BY HomeAnswerType DEF TypeInv
  <2>9. Fine(none) /\ (isCached(n, e) => Fine(known) /\ Fine(found))
    <3>1. /\ known.id = e /\ known.node = HomeAnswer(n, e)
          /\ found.id = e /\ found.node = HomeAnswer(n, e)
          /\ none.id = e /\ ~Tells(none, e)
      BY DEF ResolveResponse, ExistsResponse, Tells
    <3> QED BY <2>7, <2>8, <3>1, MessageTypes
  <2>10. PICK w : Fine(w) /\ (net' = q \/ net' = Send(q, n, m.node, w))
    <3>1. CASE locationRequest(s, n, i) /\ isCached(n, e)
      <4>1. net' = Send(q, n, m.node, known)
        BY <1>2, <1>3, <1>8, <3>1 DEF locationRequest
      <4> QED BY <2>9, <3>1, <4>1
    <3>2. CASE locationRequest(s, n, i) /\ ~isCached(n, e)
      <4>1. net' = q
        BY <1>2, <1>3, <1>8, <3>2 DEF locationRequest
      <4> QED BY <2>9, <4>1
    <3>3. CASE existsRequest(s, n, i)
      <4>1. net' = Send(q, n, m.node, IF isCached(n, e) THEN found ELSE none)
        BY <1>2, <1>3, <1>8, <3>3 DEF existsRequest
      <4> QED BY <2>9, <4>1
    <3> QED BY <1>10, <3>1, <3>2, <3>3
  <2> QED BY <1>5, <1>6, <2>2, <2>3, <2>4, <2>6, <2>10, AnswerOutline
<1>11. ASSUME resolveResponse(s, n, i) \/ existsResponse(s, n, i)
       PROVE  Outline(n, e)
  <2>1. net' = q
    BY <1>3, <1>11 DEF resolveResponse, existsResponse
  <2>2. \/ Tells(m, m.id) /\ m.node \in Node /\ Stores(n, m.id, m.node)
        \/ recs_' = recs_
    BY <1>2, <1>11, ResponseStores
  <2>3. CASE Tells(m, m.id) /\ m.node \in Node /\ Stores(n, m.id, m.node)
    <3>1. PICK node \in Node : node = m.node
      BY <2>3
    <3>2. s = Home[e] /\ Tells(m, e) /\ Stores(n, e, node)
      BY <1>7, <1>8, <2>3, <3>1 DEF RoutedMsg, Tells
    <3> QED BY <1>2, <1>5, <1>6, <2>1, <3>1, <3>2, LearnOutline
  <2>4. CASE recs_' = recs_
    BY <1>5, <1>6, <2>1, <2>4, IgnoreOutline
  <2> QED BY <2>2, <2>3, <2>4
<1> QED BY <1>1, <1>9, <1>10, <1>11

\* Every step, in these terms; without entities there is only clearCache.
LEMMA OutlineStep ==
  ASSUME TypeInv, Placement, Hosting, Ordered, HistTypes, Heads, AllPlaced,
         Views, Views', HistNext
  PROVE  Entity = {} \/ \E n \in Node, e \in Entity : Outline(n, e)
<1>0. OneHost /\ Next
  BY DEF Hosting, HistNext
<1>1. ASSUME NEW n \in Node, NEW e \in Entity,
             registerEntity(n, e) \/ entityImmigrated(n, e)
      PROVE  Outline(n, e)
  BY <1>0, <1>1, Arrival, ArrivesOutline
<1>2. ASSUME NEW n \in Node, NEW e \in Entity, NEW m \in Node, entityEmigrated(n, e, m)
      PROVE  Outline(n, e)
  <2>1. Lives(e, n)
    BY <1>2 DEF entityEmigrated
  <2> QED BY <1>0, <1>2, <2>1, Departure, EmigrateOutline
<1>3. ASSUME NEW n \in Node, NEW e \in Entity,
             unregisterEntity(n, e) \/ getLocation(n, e) \/ entityExists(n, e)
      PROVE  Outline(n, e)
  <2>1. NobodyMoves
    BY <1>3, NoMove
  <2> QED BY <1>3, <2>1, UnregisterOutline, QueryOutline
<1>4. ASSUME NEW n \in Node, clearCache(n)
      PROVE  \A e \in Entity : Outline(n, e)
  <2>1. NobodyMoves
    BY <1>4, NoMove
  <2> QED BY <1>4, <2>1, ClearOutline
<1>5. ASSUME NEW s \in Node, NEW n \in Node, Poll(s, n)
      PROVE  \E e \in Entity : Outline(n, e)
  <2>1. NobodyMoves
    BY <1>5, NoMove
  <2> QED BY <1>5, <2>1, PollOutline
<1>6. CASE \E n \in Node, e \in Entity : Call(n, e)
  BY <1>1, <1>2, <1>3, <1>6 DEF Call
<1>7. CASE \E n \in Node : clearCache(n)
  BY <1>4, <1>7
<1>8. CASE \E s, n \in Node : Poll(s, n)
  BY <1>5, <1>8
<1> QED BY <1>0, <1>6, <1>7, <1>8 DEF Next

-----------------------------------------------------------------------------
(* Channels as pieces of an itinerary                                      *)

\* The messages of channel q name places of the itinerary s of x, in order, from
\* place p to place d.
Piece(q, x, s, p, d) ==
  p <= d /\ \E f \in [DOMAIN q -> p .. d] : InPlaces(q, x, s, f)

\* An itinerary that is as it was, or longer by one place.
Longer(s, t) == t = s \/ \E m \in Node : t = Append(s, m)

\* What an itinerary keeps when it gets longer.
LEMMA LongerProperties ==
  ASSUME NEW s \in Seq(Node), NEW t, Longer(s, t)
  PROVE  /\ t \in Seq(Node) /\ Len(s) \in Nat /\ Len(t) \in {Len(s), Len(s) + 1}
         /\ t = s \/ Len(t) = Len(s) + 1
         /\ DOMAIN s = 1..Len(s) /\ DOMAIN t = 1..Len(t)
         /\ \A i \in DOMAIN s : i \in DOMAIN t /\ t[i] = s[i]
<1>1. CASE t = s
  BY <1>1, LenProperties
<1>2. ASSUME NEW m \in Node, t = Append(s, m)
      PROVE  /\ t \in Seq(Node) /\ Len(s) \in Nat /\ Len(t) = Len(s) + 1
             /\ DOMAIN s = 1..Len(s) /\ DOMAIN t = 1..Len(t)
             /\ \A i \in DOMAIN s : i \in DOMAIN t /\ t[i] = s[i]
  <2>1. /\ Append(s, m) \in Seq(Node) /\ Len(Append(s, m)) = Len(s) + 1
        /\ DOMAIN s = 1..Len(s) /\ DOMAIN Append(s, m) = 1..(Len(s) + 1)
        /\ Len(s) \in Nat
        /\ \A i \in DOMAIN s : Append(s, m)[i] = s[i]
    BY LongerItinerary
  <2>2. \A i \in DOMAIN s : i \in DOMAIN Append(s, m)
    BY <2>1
  <2> QED BY <1>2, <2>1, <2>2
<1> QED BY <1>1, <1>2 DEF Longer

\* More of what the directory says at the end of a channel: the new messages
\* name the place the directory stands at.
LEMMA PieceGrows ==
  ASSUME NEW q \in Seq(Message), NEW u \in Seq(Message), NEW x,
         NEW s \in Seq(Node), NEW t, Longer(s, t),
         NEW p \in Nat, NEW d \in Nat, NEW c \in Nat, d <= c,
         Piece(q, x, s, p, d), NEW v, Grows(q, u, x, v),
         v # Absent => c \in DOMAIN t /\ t[c] = v.cur_node
  PROVE  Piece(u, x, t, p, c)
<1>1. PICK f \in [DOMAIN q -> p .. d] : InPlaces(q, x, s, f)
  BY DEF Piece
<1>2. /\ Len(q) \in Nat /\ DOMAIN q = 1..Len(q)
      /\ Len(u) \in Nat /\ DOMAIN u = 1..Len(u)
  BY LenProperties
<1>3. \A i \in DOMAIN s : i \in DOMAIN t /\ t[i] = s[i]
  BY LongerProperties
<1> DEFINE g == [i \in DOMAIN u |-> IF i \in DOMAIN q THEN f[i] ELSE c]
<1>4. \A i \in DOMAIN q : f[i] \in p .. d /\ f[i] \in Nat
  BY <1>1
<1>5. p <= c /\ c \in p .. c /\ \A k \in p .. d : k \in p .. c
  BY DEF Piece
<1>6. g \in [DOMAIN u -> p .. c]
  BY <1>4, <1>5
<1>7. ASSUME NEW i \in DOMAIN u, NEW j \in DOMAIN u, i <= j PROVE g[i] <= g[j]
  <2>1. CASE j \in DOMAIN q
    <3>1. i \in DOMAIN q
      BY <1>2, <1>7, <2>1
    <3> QED BY <1>1, <1>7, <2>1, <3>1 DEF InPlaces
  <2>2. CASE j \notin DOMAIN q /\ i \in DOMAIN q
    BY <1>4, <2>2
  <2>3. CASE j \notin DOMAIN q /\ i \notin DOMAIN q
    BY <2>3
  <2> QED BY <2>1, <2>2, <2>3
<1>8. ASSUME NEW i \in DOMAIN u, Tells(u[i], x)
      PROVE  g[i] \in DOMAIN t /\ t[g[i]] = u[i].node
  <2>1. CASE i \in DOMAIN q
    <3>1. u[i] = q[i]
      BY <2>1 DEF Grows
    <3>2. f[i] \in DOMAIN s /\ s[f[i]] = q[i].node
      BY <1>1, <1>8, <2>1, <3>1 DEF InPlaces
    <3> QED BY <1>3, <2>1, <3>1, <3>2
  <2>2. CASE i \notin DOMAIN q
    BY <1>8, <2>2 DEF Grows
  <2> QED BY <2>1, <2>2
<1> HIDE DEF g
<1>9. InPlaces(u, x, t, g)
  BY <1>7, <1>8 DEF InPlaces
<1> QED BY <1>5, <1>6, <1>9 DEF Piece

\* Once the first message is taken the rank has read its place, or is before it.
LEMMA PieceShifts ==
  ASSUME NEW q \in Seq(Message), NEW u, Shifts(q, u), NEW x,
         NEW s \in Seq(Node), NEW t, Longer(s, t),
         NEW p \in Nat, NEW d \in Nat, NEW c \in Nat, d <= c,
         Piece(q, x, s, p, d), NEW r \in Nat,
         \/ r = p
         \/ /\ Tells(q[1], x)
            /\ \A k \in DOMAIN s : k >= p /\ s[k] = q[1].node => r <= k
  PROVE  Piece(u, x, t, r, c)
<1>1. PICK f \in [DOMAIN q -> p .. d] : InPlaces(q, x, s, f)
  BY DEF Piece
<1>2. /\ Len(q) \in Nat /\ DOMAIN q = 1..Len(q) /\ 1 \in 1..Len(q)
      /\ u \in Seq(Message) /\ Len(u) = Len(q) - 1
      /\ \A j \in 1..(Len(q) - 1) : u[j] = IF j < 1 THEN q[j] ELSE q[j + 1]
  BY LenProperties, RemoveAtProperties DEF Shifts
<1>3. DOMAIN u = 1..(Len(q) - 1)
  BY <1>2, LenProperties
<1>4. \A j \in DOMAIN u : j + 1 \in DOMAIN q /\ u[j] = q[j + 1] /\ 1 <= j + 1
  BY <1>2, <1>3
<1>5. \A i \in DOMAIN s : i \in DOMAIN t /\ t[i] = s[i]
  BY LongerProperties
<1>6. \A i \in DOMAIN q : f[i] \in Nat /\ p <= f[i] /\ f[i] <= d
  BY <1>1
<1>7. r <= f[1]
  <2>1. CASE r = p
    BY <1>2, <1>6, <2>1
  <2>2. CASE /\ Tells(q[1], x)
             /\ \A k \in DOMAIN s : k >= p /\ s[k] = q[1].node => r <= k
    <3>1. f[1] \in DOMAIN s /\ s[f[1]] = q[1].node
      BY <1>1, <1>2, <2>2 DEF InPlaces
    <3>2. f[1] >= p
      BY <1>2, <1>6
    <3> QED BY <2>2, <3>1, <3>2
  <2> QED BY <2>1, <2>2
<1>8. r <= c
  BY <1>2, <1>6, <1>7
<1> DEFINE g == [j \in DOMAIN u |-> f[j + 1]]
<1>9. ASSUME NEW j \in DOMAIN u PROVE f[j + 1] \in r .. c
  <2>1. f[1] <= f[j + 1]
    BY <1>1, <1>2, <1>4 DEF InPlaces
  <2> QED BY <1>2, <1>4, <1>6, <1>7, <2>1
<1>10. g \in [DOMAIN u -> r .. c]
  BY <1>9
<1>11. ASSUME NEW i \in DOMAIN u, NEW j \in DOMAIN u, i <= j PROVE g[i] <= g[j]
  <2>1. i + 1 <= j + 1
    BY <1>2, <1>3, <1>11
  <2> QED BY <1>1, <1>4, <2>1 DEF InPlaces
<1>12. ASSUME NEW i \in DOMAIN u, Tells(u[i], x)
       PROVE  g[i] \in DOMAIN t /\ t[g[i]] = u[i].node
  <2>1. f[i + 1] \in DOMAIN s /\ s[f[i + 1]] = q[i + 1].node
    BY <1>1, <1>4, <1>12 DEF InPlaces
  <2> QED BY <1>4, <1>5, <2>1
<1> HIDE DEF g
<1>13. InPlaces(u, x, t, g)
  BY <1>11, <1>12 DEF InPlaces
<1> QED BY <1>8, <1>10, <1>13 DEF Piece

-----------------------------------------------------------------------------
(* The place the directory stands at                                       *)

PlaceOf(s, d) == IF d # Absent /\ d.cur_node # s[Len(s)] THEN Len(s) - 1 ELSE Len(s)

\* DirPlace is that of the directory entry.
LEMMA DirPlaceOf ==
  \A x \in Entity : DirPlace(x) = PlaceOf(itinerary[x], Dir(Home[x], x))
BY DEF DirPlace, PlaceOf, DirExists, Dir

\* What Placed says of it.
LEMMA PlaceProperties ==
  ASSUME NEW s \in Seq(Node), NEW d,
         d # Absent => /\ Len(s) > 0
                       /\ \/ d.cur_node = s[Len(s)]
                          \/ Len(s) > 1 /\ d.cur_node = s[Len(s) - 1]
  PROVE  /\ PlaceOf(s, d) \in Nat /\ PlaceOf(s, d) \in {Len(s), Len(s) - 1}
         /\ PlaceOf(s, d) <= Len(s)
         /\ d # Absent => PlaceOf(s, d) \in DOMAIN s /\ s[PlaceOf(s, d)] = d.cur_node
         /\ d = Absent \/ d.cur_node = s[Len(s)] => PlaceOf(s, d) = Len(s)
<1> DEFINE l == Len(s)
<1>1. l \in Nat /\ DOMAIN s = 1..l
  BY LenProperties
<1>2. CASE d = Absent \/ d.cur_node = s[l]
  <2>1. PlaceOf(s, d) = l
    BY <1>2 DEF PlaceOf
  <2>2. d # Absent => l > 0 /\ d.cur_node = s[l]
    BY <1>2
  <2> HIDE DEF l
  <2>3. d # Absent => l \in DOMAIN s
    BY <1>1, <2>2
  <2> QED BY <1>1, <2>1, <2>2, <2>3 DEF l
<1>3. CASE ~(d = Absent \/ d.cur_node = s[l])
  <2>1. PlaceOf(s, d) = l - 1 /\ l > 1 /\ d.cur_node = s[l - 1]
    BY <1>3 DEF PlaceOf
  <2> HIDE DEF l
  <2>2. l - 1 \in DOMAIN s /\ l - 1 \in Nat /\ l - 1 <= l
    BY <1>1, <2>1
  <2> QED BY <1>3, <2>1, <2>2 DEF l
<1> QED BY <1>2, <1>3

\* It never goes back.
LEMMA PlaceGrows ==
  ASSUME HistTypes, DirMoves, NEW x \in Entity, Placed(x), Placed(x)',
         Longer(itinerary[x], itinerary'[x])
  PROVE  /\ DirPlace(x) \in Nat /\ DirPlace(x)' \in Nat /\ DirPlace(x) <= DirPlace(x)'
         /\ DirPlace(x) <= Len(itinerary[x])
         /\ Dir(Home[x], x)' # Absent =>
              /\ DirPlace(x)' \in DOMAIN itinerary'[x]
              /\ itinerary'[x][DirPlace(x)'] = Dir(Home[x], x)'.cur_node
<1> DEFINE s == itinerary[x]
           t == itinerary'[x]
           d == Dir(Home[x], x)
           c == Dir(Home[x], x)'
<1>1. s \in Seq(Node)
  BY DEF HistTypes
<1>2. /\ t \in Seq(Node) /\ Len(s) \in Nat /\ Len(t) \in {Len(s), Len(s) + 1}
      /\ t = s \/ Len(t) = Len(s) + 1
  BY <1>1, LongerProperties
<1>3. DirPlace(x) = PlaceOf(s, d) /\ DirPlace(x)' = PlaceOf(t, c)
  BY DEF DirPlace, PlaceOf, DirExists, Dir
<1>4. /\ d # Absent => /\ Len(s) > 0
                       /\ \/ d.cur_node = s[Len(s)]
                          \/ Len(s) > 1 /\ d.cur_node = s[Len(s) - 1]
      /\ c # Absent => /\ Len(t) > 0
                       /\ \/ c.cur_node = t[Len(t)]
                          \/ Len(t) > 1 /\ c.cur_node = t[Len(t) - 1]
  BY DEF Placed, Newest
<1>5. c = d \/ c = Absent \/ c.cur_node = t[Len(t)]
  BY DEF DirMoves, Newest
<1> HIDE DEF s, t, d, c
<1>6. /\ PlaceOf(s, d) \in Nat /\ PlaceOf(s, d) <= Len(s)
      /\ PlaceOf(t, c) \in Nat /\ PlaceOf(t, c) \in {Len(t), Len(t) - 1}
      /\ c # Absent => PlaceOf(t, c) \in DOMAIN t /\ t[PlaceOf(t, c)] = c.cur_node
      /\ c = Absent \/ c.cur_node = t[Len(t)] => PlaceOf(t, c) = Len(t)
  BY <1>1, <1>2, <1>4, PlaceProperties
<1>7. PlaceOf(s, d) <= PlaceOf(t, c)
  <2>1. CASE c = Absent \/ c.cur_node = t[Len(t)]
    BY <1>2, <1>6, <2>1
  <2>2. CASE c = d /\ t = s
    BY <1>6, <2>2
  <2>3. CASE Len(t) = Len(s) + 1
    BY <1>2, <1>6, <2>3
  <2> QED BY <1>2, <1>5, <2>1, <2>2, <2>3
<1> QED BY <1>3, <1>6, <1>7 DEF s, t, d, c

-----------------------------------------------------------------------------
(* Reading the itinerary                                                   *)

\* A rank is nowhere past the end of the itinerary of x, and what it hands out
\* is the place it has read, unless it has let x go.
ReadAt(x, r) ==
  /\ pos[r][x] <= Len(itinerary[x])
  /\ r \notin former[x] /\ View(r, x) # NoNode =>
       /\ pos[r][x] \in DOMAIN itinerary[x]
       /\ itinerary[x][pos[r][x]] = View(r, x)

\* The ranks InOrder binds.
Bound(x, r) == r # Home[x] /\ r \notin former[x] /\ ~Lives(x, r)

PieceAt(x, r) ==
  Piece(net[Home[x]][r], x, itinerary[x], pos[r][x], DirPlace(x))

\* InOrder, entity by entity and rank by rank.
LEMMA InOrderView ==
  InOrder <=> (Ordered /\ Paced =>
                 \A x \in Entity, r \in Node : Bound(x, r) => PieceAt(x, r))
BY DEF InOrder, Bound, PieceAt, Piece

\* How pos is kept.
LEMMA PosStep ==
  ASSUME HistTypes, HistNext, NEW x \in Entity, NEW r \in Node
  PROVE  /\ pos'[r][x] = IF r \in former'[x] THEN pos[r][x]
                         ELSE Follow(itinerary'[x], pos[r][x], View(r, x)')
         /\ pos[r][x] \in Nat
         /\ r \in former[x] => r \in former'[x]
         /\ r \in former'[x] => r \in former[x] \/ (r # Home[x] /\ Lives(x, r))
         /\ r # Home[x] /\ Lives(x, r) /\ ~Lives(x, r)' => r \in former'[x]
BY DEF HistNext, HistTypes

\* A rank that keeps or forgets what it has read stays where it is; so does one
\* that has let x go.
LEMMA Still ==
  ASSUME HistTypes, HistNext, NEW x \in Entity, NEW r \in Node, ReadAt(x, r),
         Longer(itinerary[x], itinerary'[x]),
         r \in former'[x] \/ View(r, x)' \in {View(r, x), NoNode}
  PROVE  pos'[r][x] = pos[r][x] /\ ReadAt(x, r)'
<1> DEFINE s == itinerary[x]
           t == itinerary'[x]
           p == pos[r][x]
<1>n. NoNode \notin Node
  BY ConstantsAssumption
<1>0. s \in Seq(Node) /\ p \in Nat
  BY DEF HistTypes
<1>1. /\ t \in Seq(Node) /\ Len(s) \in Nat /\ Len(t) \in {Len(s), Len(s) + 1}
      /\ DOMAIN s = 1..Len(s) /\ DOMAIN t = 1..Len(t)
      /\ \A i \in DOMAIN s : i \in DOMAIN t /\ t[i] = s[i]
  BY <1>0, LongerProperties
<1>2. p <= Len(s)
  BY DEF ReadAt
<1>3. p <= Len(t)
  BY <1>0, <1>1, <1>2
<1>4. CASE r \in former'[x]
  <2>1. pos'[r][x] = p
    BY <1>4, PosStep
  <2> QED BY <1>3, <1>4, <2>1 DEF ReadAt
<1>5. CASE r \notin former'[x] /\ View(r, x)' = NoNode
  <2>1. \A i \in DOMAIN t : t[i] \in Node
    BY <1>1, ElementOfSeq
  <2>2. \A i \in DOMAIN t : i >= p => t[i] # View(r, x)'
    BY <1>n, <1>5, <2>1
  <2>3. Follow(t, p, View(r, x)') = p
    BY <1>0, <1>1, <2>2, FollowProperties
  <2>4. pos'[r][x] = p
    BY <1>5, <2>3, PosStep
  <2> QED BY <1>3, <1>5, <2>4 DEF ReadAt
<1>6. CASE r \notin former'[x] /\ View(r, x)' = View(r, x) /\ View(r, x) # NoNode
  <2>1. r \notin former[x]
    BY <1>6, PosStep
  <2>2. p \in DOMAIN s /\ s[p] = View(r, x)
    BY <1>6, <2>1 DEF ReadAt
  <2>3. p \in DOMAIN t /\ t[p] = View(r, x)'
    BY <1>1, <1>6, <2>2
  <2>4. Follow(t, p, View(r, x)') \in Nat /\ Follow(t, p, View(r, x)') >= p
        /\ Follow(t, p, View(r, x)') <= p
    BY <1>0, <1>1, <2>3, FollowProperties
  <2>5. pos'[r][x] = p
    BY <1>0, <1>6, <2>4, PosStep
  <2> QED BY <1>3, <2>3, <2>5 DEF ReadAt
<1> QED BY <1>4, <1>5, <1>6

\* A rank that hands out a place ahead goes there, or to an earlier occurrence
\* of it.
LEMMA GoesOn ==
  ASSUME HistTypes, HistNext, NEW x \in Entity, NEW r \in Node,
         Longer(itinerary[x], itinerary'[x]), r \notin former'[x],
         NEW k \in DOMAIN itinerary'[x], k >= pos[r][x],
         itinerary'[x][k] = View(r, x)'
  PROVE  /\ pos'[r][x] \in Nat /\ pos'[r][x] >= pos[r][x]
         /\ \A i \in DOMAIN itinerary'[x] :
              i >= pos[r][x] /\ itinerary'[x][i] = View(r, x)' => pos'[r][x] <= i
         /\ pos'[r][x] \in pos[r][x] .. Len(itinerary'[x]) /\ pos'[r][x] > 0
         /\ itinerary'[x][pos'[r][x]] = View(r, x)'
         /\ ReadAt(x, r)'
<1> DEFINE t == itinerary'[x]
           p == pos[r][x]
           c == pos'[r][x]
<1>0. itinerary[x] \in Seq(Node) /\ p \in Nat
  BY DEF HistTypes
<1>1. t \in Seq(Node) /\ Len(t) \in Nat /\ DOMAIN t = 1..Len(t)
  BY <1>0, LongerProperties
<1>2. c = Follow(t, p, View(r, x)')
  BY PosStep
<1>3. /\ c \in Nat /\ c >= p /\ c \in DOMAIN t /\ t[c] = View(r, x)'
      /\ \A i \in DOMAIN t : i >= p /\ t[i] = View(r, x)' => c <= i
  BY <1>0, <1>1, <1>2, FollowProperties
<1> HIDE DEF c, t, p
<1>4. c \in p .. Len(t) /\ c > 0 /\ c <= Len(t)
  BY <1>0, <1>1, <1>3
<1>5. ReadAt(x, r)'
  BY <1>3, <1>4 DEF ReadAt, t, c
<1> QED BY <1>3, <1>4, <1>5 DEF t, p, c

-----------------------------------------------------------------------------
(* What a step does to the readers                                         *)

Reading == \A x \in Entity, r \in Node : ReadAt(x, r)
Pieces  == \A x \in Entity, r \in Node : Bound(x, r) => PieceAt(x, r)

\* The place of the first message of a channel.
LEMMA PieceFirst ==
  ASSUME NEW q, NEW x, NEW s \in Seq(Node), NEW p \in Nat, NEW d \in Nat,
         Piece(q, x, s, p, d), 1 \in DOMAIN q, Tells(q[1], x)
  PROVE  \E k \in DOMAIN s : k >= p /\ s[k] = q[1].node
<1>1. PICK f \in [DOMAIN q -> p .. d] : InPlaces(q, x, s, f)
  BY DEF Piece
<1>2. f[1] \in DOMAIN s /\ s[f[1]] = q[1].node
  BY <1>1 DEF InPlaces
<1>3. f[1] \in p .. d
  BY <1>1
<1>4. f[1] >= p
  BY <1>3
<1> QED BY <1>2, <1>4

\* Rank n reads the place of a message, and no further.
ReadsTold(n, e) ==
  /\ Told(n, e)
  /\ \A k \in DOMAIN itinerary[e] :
       k >= pos[n][e] /\ itinerary[e][k] = net[Home[e]][n][1].node =>
         pos'[n][e] <= k

\* Rank n stays where it is in the itinerary of e, or goes on.
ReadsOn(n, e) ==
  /\ n \notin former'[e]
  /\ pos'[n][e] \in pos[n][e] .. Len(itinerary'[e])
  /\ pos'[n][e] > 0
  /\ itinerary'[e][pos'[n][e]] = View(n, e)'

\* No itinerary gets longer by more than one place in a step.
LEMMA OneLonger ==
  ASSUME HistTypes, NEW e \in Entity, OneGoes(e)
  PROVE  \A x \in Entity : Longer(itinerary[x], itinerary'[x])
BY DEF OneGoes, Longer

\* What a step does to everybody but rank n on e: at most, rank n forgets.
LEMMA OthersRead ==
  ASSUME HistTypes, HistNext, Reading, NEW n \in Node, NEW e \in Entity,
         Outline(n, e), NEW r \in Node, NEW x \in Entity, r # n \/ x # e
  PROVE  /\ pos'[r][x] = pos[r][x] /\ ReadAt(x, r)'
         /\ View(r, x)' = View(r, x) \/ (r = n /\ View(r, x)' = NoNode)
<1>1. Longer(itinerary[x], itinerary'[x])
  BY OneLonger DEF Outline
<1>2. View(r, x)' = View(r, x) \/ (r = n /\ View(r, x)' = NoNode)
  BY DEF Outline, Sees, OthersSee
<1> QED BY <1>1, <1>2, Still DEF Reading

\* What a step does to rank n on e: it keeps or forgets what it has read, is
\* released, or goes on; if it stays bound, no further than the place of the
\* message it has taken.
LEMMA OneReads ==
  ASSUME HistTypes, HistNext, Reading, Pieces, NEW n \in Node, NEW e \in Entity,
         Outline(n, e), AllPlaced, AllPlaced'
  PROVE  /\ ReadAt(e, n)'
         /\ \/ /\ pos'[n][e] = pos[n][e]
               /\ n \in former'[e] \/ View(n, e)' \in {View(n, e), NoNode}
            \/ ReadsOn(n, e) /\ (Bound(e, n)' => ReadsTold(n, e))
<1> DEFINE s == itinerary[e]
           t == itinerary'[e]
<1>1. Longer(s, t) /\ ReadAt(e, n)
  BY OneLonger DEF Outline, Reading
<1>2. s \in Seq(Node) /\ pos[n][e] \in Nat
  BY DEF HistTypes
<1>3. /\ t \in Seq(Node) /\ Len(s) \in Nat /\ Len(t) \in {Len(s), Len(s) + 1}
      /\ DOMAIN t = 1..Len(t) /\ \A i \in DOMAIN s : i \in DOMAIN t /\ t[i] = s[i]
  BY <1>1, <1>2, LongerProperties
<1>4. CASE n \in former'[e] \/ View(n, e)' \in {View(n, e), NoNode}
  BY <1>1, <1>4, Still
<1>5. CASE n \notin former'[e] /\ AtNewest(n, e)
  <2>1. Len(t) \in DOMAIN t /\ Len(t) >= pos[n][e]
    BY <1>1, <1>2, <1>3, <1>5 DEF AtNewest, ReadAt
  <2>2. t[Len(t)] = View(n, e)'
    BY <1>5 DEF AtNewest, Newest
  <2>3. ReadsOn(n, e) /\ ReadAt(e, n)'
    BY <1>1, <1>5, <2>1, <2>2, GoesOn DEF ReadsOn
  <2>4. ~Bound(e, n)'
    BY <1>5 DEF AtNewest, Bound
  <2> QED BY <2>3, <2>4
<1>6. CASE n \notin former'[e] /\ Told(n, e)
  <2> DEFINE q == net[Home[e]][n]
  <2>1. Bound(e, n)
    BY <1>6, PosStep DEF Told, Bound
  <2>2. DirPlace(e) \in Nat
    BY <1>1, PlaceGrows DEF Outline, AllPlaced
  <2>3. PICK k \in DOMAIN s : k >= pos[n][e] /\ s[k] = q[1].node
    <3>1. 1 \in DOMAIN q /\ Tells(q[1], e)
      BY <1>6 DEF Told, Shifts
    <3> QED BY <1>2, <2>1, <2>2, <3>1, PieceFirst DEF Pieces, PieceAt
  <2>4. k \in DOMAIN t /\ t[k] = View(n, e)'
    BY <1>3, <1>6, <2>3 DEF Told
  <2>5. /\ ReadsOn(n, e) /\ ReadAt(e, n)'
        /\ \A i \in DOMAIN t : i >= pos[n][e] /\ t[i] = View(n, e)' => pos'[n][e] <= i
    BY <1>1, <1>6, <2>3, <2>4, GoesOn DEF ReadsOn
  <2>6. ReadsTold(n, e)
    BY <1>3, <1>6, <2>5 DEF ReadsTold, Told
  <2> QED BY <2>5, <2>6
<1> QED BY <1>4, <1>5, <1>6 DEF Outline, Sees

\* Every step keeps the readers on the itinerary.
LEMMA ReadingStep ==
  ASSUME HistTypes, HistNext, Reading, Pieces, NEW n \in Node, NEW e \in Entity,
         Outline(n, e), AllPlaced, AllPlaced'
  PROVE  Reading'
BY OthersRead, OneReads DEF Reading

\* Every step keeps the channels pieces of the itineraries.
LEMMA PiecesStep ==
  ASSUME TypeInv, TypeInv', HistTypes, HistNext, Reading, Pieces,
         NEW n \in Node, NEW e \in Entity,
         Outline(n, e), AllPlaced, AllPlaced'
  PROVE  Pieces'
<1> SUFFICES ASSUME NEW x \in Entity, NEW r \in Node, Bound(x, r)'
             PROVE  PieceAt(x, r)'
  BY DEF Pieces
<1> DEFINE h == Home[x]
           q == net[h][r]
           u == net'[h][r]
           s == itinerary[x]
           t == itinerary'[x]
           p == pos[r][x]
           c == pos'[r][x]
<1>1. Bound(x, r)
  BY PosStep DEF Bound
<1>2. Longer(s, t)
  BY OneLonger DEF Outline
<1>3. s \in Seq(Node) /\ p \in Nat /\ c \in Nat
  <2>1. c \in Nat
    BY HistTypesStep DEF HistTypes
  <2> QED BY <2>1 DEF HistTypes
<1>4. h \in Node /\ q \in Seq(Message) /\ u \in Seq(Message)
  <2>1. net \in Channels /\ net' \in Channels
    BY DEF TypeInv, TypeOK, Channels
  <2>2. h \in Node
    BY HomeType
  <2> HIDE DEF h
  <2>3. q \in Seq(Message) /\ u \in Seq(Message)
    BY <2>1, <2>2 DEF Channels
  <2> QED BY <2>2, <2>3
<1>5. /\ DirPlace(x) \in Nat /\ DirPlace(x)' \in Nat /\ DirPlace(x) <= DirPlace(x)'
      /\ Dir(h, x)' # Absent =>
           DirPlace(x)' \in DOMAIN t /\ t[DirPlace(x)'] = Dir(h, x)'.cur_node
  BY <1>2, PlaceGrows DEF Outline, AllPlaced
<1>6. Piece(q, x, s, p, DirPlace(x))
  BY <1>1 DEF Pieces, PieceAt
<1>7. SUFFICES Piece(u, x, t, c, DirPlace(x)')
  BY DEF PieceAt
<1>8. Grows(q, u, x, Dir(h, x)') \/ Shifts(q, u)
  BY DEF Outline, Wire
<1>9. c = p \/ (r = n /\ x = e /\ ReadsTold(n, e))
  BY OthersRead, OneReads
<1>10. r = n /\ x = e /\ ReadsTold(n, e) =>
         /\ Shifts(q, u) /\ Tells(q[1], x)
         /\ \A k \in DOMAIN s : k >= p /\ s[k] = q[1].node => c <= k
  BY DEF ReadsTold, Told
<1> DEFINE a == DirPlace(x)
           b == DirPlace(x)'
           v == Dir(h, x)'
<1>11. /\ a \in Nat /\ b \in Nat /\ a <= b
       /\ v # Absent => b \in DOMAIN t /\ t[b] = v.cur_node
       /\ Piece(q, x, s, p, a)
       /\ Grows(q, u, x, v) \/ Shifts(q, u)
  BY <1>5, <1>6, <1>8
<1> HIDE DEF h, q, u, s, t, p, c, a, b, v
<1>12. Piece(u, x, t, c, b)
  <2>1. CASE c = p /\ Grows(q, u, x, v)
    BY <1>2, <1>3, <1>4, <1>11, <2>1, PieceGrows
  <2>2. CASE c = p /\ Shifts(q, u)
    BY <1>2, <1>3, <1>4, <1>11, <2>2, PieceShifts
  <2>3. CASE r = n /\ x = e /\ ReadsTold(n, e)
    BY <1>2, <1>3, <1>4, <1>10, <1>11, <2>3, PieceShifts
  <2> QED BY <1>9, <1>11, <2>1, <2>2, <2>3
<1> QED BY <1>12 DEF b, u, t, c, h

-----------------------------------------------------------------------------
(* The channels stay pieces of the itineraries                             *)

\* What holds of the readers over ordered channels and with paced moves.
ReadInv == AllPlaced /\ Reading /\ Pieces

\* It holds before any call.
LEMMA ReadInvInit == HistInit => ReadInv
<1> SUFFICES ASSUME HistInit PROVE ReadInv
  OBVIOUS
<1> USE DEF HistInit, Init
<1>1. \A a, b \in Node : net[a][b] = <<>> /\ Msgs(a, b) = {}
  BY DEF Msgs, ToSet
<1>2. \A a \in Node, x \in Entity :
        Dir(a, x) = Absent /\ ~Cached(a, x) /\ ~Lives(x, a)
  BY DEF Dir, Cached, CacheExists, CacheKeys, Lives, EmptyLookup
<1>3. AllPlaced
  BY <1>1, <1>2, HomeType DEF AllPlaced, Placed
<1>4. Reading
  <2>1. \A a \in Node, x \in Entity : View(a, x) = NoNode
    BY <1>2 DEF View, isCached, LookupExists, DirExists, Dir, Cached
  <2>2. \A a \in Node, x \in Entity : pos[a][x] = 0 /\ itinerary[x] = <<>>
    OBVIOUS
  <2>3. Len(<<>>) = 0
    BY EmptySeq
  <2> QED BY <2>1, <2>2, <2>3 DEF Reading, ReadAt
<1>5. Pieces
  <2>1. ASSUME NEW x \in Entity, NEW r \in Node PROVE PieceAt(x, r)
    <3>1. net[Home[x]][r] = <<>> /\ pos[r][x] = 0 /\ itinerary[x] = <<>>
      BY <1>1, HomeType
    <3>2. DirPlace(x) = 0
      BY <1>2, <3>1, HomeType, EmptySeq DEF DirPlace, DirExists, Dir
    <3>3. DOMAIN net[Home[x]][r] = {}
      BY <3>1
    <3> DEFINE q == net[Home[x]][r]
    <3> HIDE DEF q
    <3>4. DOMAIN q = {}
      BY <3>3 DEF q
    <3>5. Piece(q, x, <<>>, 0, 0)
      <4> DEFINE f == [i \in DOMAIN q |-> 0]
      <4>1. f \in [DOMAIN q -> 0 .. 0]
        BY <3>4
      <4> HIDE DEF f
      <4>2. InPlaces(q, x, <<>>, f)
        BY <3>4 DEF InPlaces
      <4> QED BY <4>1, <4>2 DEF Piece
    <3> QED BY <3>1, <3>2, <3>5 DEF PieceAt, q
  <2> QED BY <2>1 DEF Pieces
<1> QED BY <1>3, <1>4, <1>5 DEF ReadInv

\* Every step keeps it.
LEMMA ReadInvStep ==
  ASSUME Ordered, Paced, IndInv, IndInv', Views, Views', HistInv, ReadInv,
         [HistNext]_histVars
  PROVE  ReadInv'
<1>0. TypeInv /\ TypeInv' /\ Placement /\ Hosting /\ HistTypes /\ Heads
  BY DEF IndInv, TypeInv, Hosting, HistInv
<1>1. CASE HistNext
  <2>1. AllPlaced'
    BY <1>0, <1>1, PlacedStep DEF ReadInv
  <2>2. CASE Entity = {}
    BY <2>1, <2>2 DEF ReadInv, Reading, Pieces
  <2>3. ASSUME NEW n \in Node, NEW e \in Entity, Outline(n, e)
        PROVE  Reading' /\ Pieces'
    BY <1>0, <1>1, <2>1, <2>3, ReadingStep, PiecesStep DEF ReadInv
  <2> QED BY <1>0, <1>1, <2>1, <2>2, <2>3, OutlineStep DEF ReadInv
<1>2. CASE UNCHANGED histVars
  <2>1. /\ UNCHANGED <<local_registered_, recs_, net, transit>>
        /\ UNCHANGED <<itinerary, pos, former>>
    BY <1>2 DEF histVars, vars, coordVars, callVars
  <2>2. AllPlaced'
    BY <2>1 DEF ReadInv, AllPlaced, Placed, Updates, Newest, Msgs, Dir, UpdateInFlight
  <2>3. \A x \in Entity, r \in Node : View(r, x)' = View(r, x)
    BY <2>1 DEF View, isCached, Located, Lives
  <2>4. Reading'
    BY <2>1, <2>3 DEF ReadInv, Reading, ReadAt
  <2>5. \A x \in Entity : DirPlace(x)' = DirPlace(x)
    BY <2>1 DEF DirPlace
  <2>6. Pieces'
    BY <2>1, <2>5 DEF ReadInv, Pieces, Bound, PieceAt, Lives
  <2> QED BY <2>2, <2>4, <2>6 DEF ReadInv
<1> QED BY <1>1, <1>2

\* A consequence of the invariant of Coordinator.
LEMMA IndInvViews == IndInv => Views
<1>1. IndInv => TypeInv /\ Placement
  BY DEF IndInv, TypeInv
<1> QED BY <1>1, ViewsCorrect

\* It holds over ordered channels and with paced moves.
LEMMA ReadersCorrect == Ordered /\ Paced => (HistSpec => [](Views /\ ReadInv))
<1> SUFFICES ASSUME Ordered, Paced PROVE HistSpec => [](Views /\ ReadInv)
  OBVIOUS
<1>1. HistSpec => []IndInv
  BY HistoryWatches, IndInvCorrect, PTL
<1>2. HistSpec => []Views
  BY <1>1, IndInvViews, PTL
<1>3. IndInv /\ IndInv' /\ Views /\ Views' /\ HistInv /\ ReadInv /\ [HistNext]_histVars
        => ReadInv'
  BY ReadInvStep
<1> QED BY <1>1, <1>2, <1>3, ReadInvInit, HistoryCorrect, PTL DEF HistSpec

\* Over ordered channels and with paced moves, what the home has sent a rank
\* (resolveResponse, existsResponse, the refreshes of announceLocation) is a
\* piece of the itinerary that the rank has still to read, in order.
THEOREM ChannelsInOrder == HistSpec => []InOrder
<1>1. CASE Ordered /\ Paced
  <2>1. ReadInv => InOrder
    BY InOrderView DEF ReadInv, Pieces
  <2> QED BY <1>1, <2>1, ReadersCorrect, PTL
<1>2. CASE ~(Ordered /\ Paced)
  <2>1. InOrder
    BY <1>2 DEF InOrder
  <2> QED BY <2>1, PTL
<1> QED BY <1>1, <1>2

-----------------------------------------------------------------------------
(* The refinement                                                          *)

\* The initial states map to initial states of the service.
LEMMA ServiceInit == HistInit => Service!Init
<1> SUFFICES ASSUME HistInit PROVE Service!Init
  OBVIOUS
<1>1. \A a \in Node, x \in Entity :
        Dir(a, x) = Absent /\ ~Cached(a, x) /\ ~Lives(x, a)
  BY DEF HistInit, Init, Dir, Cached, CacheExists, CacheKeys, Lives, EmptyLookup
<1>2. \A a \in Node, x \in Entity : View(a, x) = NoNode
  BY <1>1 DEF View, isCached, LookupExists, DirExists, Dir, Cached
<1> QED BY <1>2 DEF HistInit, Service!Init

\* A step that rank n does about e maps to one of the service's.
LEMMA ServiceStep ==
  ASSUME HistTypes, HistTypes', HistNext, Reading, Pieces,
         NEW n \in Node, NEW e \in Entity,
         Outline(n, e), AllPlaced, AllPlaced'
  PROVE  Service!Next
<1>1. /\ Service!Reads(n, e) \/ Service!Forgets(n, e)
         \/ Service!Keeps(n, e) \/ n \in former'[e]
  <2>1. CASE n \in former'[e]
    BY <2>1
  <2>2. CASE View(n, e)' \in {View(n, e), NoNode} /\ pos'[n][e] = pos[n][e]
    BY <2>2 DEF Service!Forgets, Service!Keeps
  <2>3. CASE ReadsOn(n, e)
    BY <2>3 DEF ReadsOn, Service!Reads
  <2> QED BY <2>1, <2>2, <2>3, OneReads
<1>2. \A k \in Entity \ {e} : Service!Keeps(n, k) \/ Service!Forgets(n, k)
  BY OthersRead DEF Service!Forgets, Service!Keeps
<1>3. ASSUME NEW r \in Node \ {n}
      PROVE  /\ [x \in Entity |-> View(r, x)]' = [x \in Entity |-> View(r, x)]
             /\ pos'[r] = pos[r]
  <2>1. \A x \in Entity : View(r, x)' = View(r, x) /\ pos'[r][x] = pos[r][x]
    BY OthersRead
  <2>2. pos[r] \in [Entity -> Nat] /\ pos'[r] \in [Entity -> Nat]
    BY DEF HistTypes
  <2> QED BY <2>1, <2>2
<1>4. Service!Step(n, e)
  BY <1>1, <1>2, <1>3 DEF Service!Step
<1>5. Service!Learn(n, e) \/ \E m \in Node : Service!Go(n, e, m)
  <2>1. OneGoes(e)
    BY DEF Outline
  <2>2. CASE itinerary'[e] = itinerary[e]
    <3>1. UNCHANGED itinerary
      BY <2>1, <2>2 DEF OneGoes, HistTypes
    <3> QED BY <1>4, <3>1 DEF Service!Learn
  <2>3. ASSUME NEW m \in Node, itinerary'[e] = Append(itinerary[e], m)
        PROVE  Service!Go(n, e, m)
    <3>1. itinerary' = [itinerary EXCEPT ![e] = Append(@, m)]
      BY <2>1, <2>3 DEF OneGoes, HistTypes
    <3> QED BY <1>4, <3>1 DEF Service!Go
  <2> QED BY <2>1, <2>2, <2>3 DEF OneGoes
<1>6. \A x \in Entity : former[x] \subseteq former'[x]
  BY PosStep DEF HistTypes
<1> QED BY <1>5, <1>6 DEF Service!Next

\* Every step maps to a step of the service or to a stutter.
LEMMA ServiceNext ==
  ASSUME Ordered, Paced, IndInv, Views, Views', HistInv, HistInv', ReadInv, ReadInv',
         [HistNext]_histVars
  PROVE  [Service!Next]_(Service!vars)
<1>0. TypeInv /\ Placement /\ Hosting /\ HistTypes /\ HistTypes' /\ Heads
  BY DEF IndInv, TypeInv, Hosting, HistInv
<1>1. CASE HistNext
  <2>1. CASE Entity = {}
    <3>1. UNCHANGED <<itinerary, former>> /\ pos' = pos
      BY <1>0, <2>1 DEF HistTypes
    <3>2. [r \in Node |-> [x \in Entity |-> View(r, x)]]' =
            [r \in Node |-> [x \in Entity |-> View(r, x)]]
      BY <2>1
    <3> QED BY <3>1, <3>2 DEF Service!vars
  <2>2. ASSUME NEW n \in Node, NEW e \in Entity, Outline(n, e)
        PROVE  Service!Next
    BY <1>0, <1>1, <2>2, ServiceStep DEF ReadInv
  <2> QED BY <1>0, <1>1, <2>1, <2>2, OutlineStep DEF ReadInv
<1>2. CASE UNCHANGED histVars
  <2>1. /\ UNCHANGED <<local_registered_, recs_, itinerary, pos, former>>
    BY <1>2 DEF histVars, vars, coordVars
  <2>2. \A x \in Entity, r \in Node : View(r, x)' = View(r, x)
    BY <2>1 DEF View, isCached, Located, Lives
  <2> QED BY <2>1, <2>2 DEF Service!vars
<1> QED BY <1>1, <1>2

\* Over ordered channels and with paced moves, the coordinators implement the
\* location service: no rank that the entity has not left hands out an earlier
\* place than it has handed out before (getLocation, isCached).
THEOREM CoordinatorImplementsService ==
  Ordered /\ Paced => (HistSpec => ImplementsService)
<1> SUFFICES ASSUME Ordered, Paced PROVE HistSpec => ImplementsService
  OBVIOUS
<1>1. HistSpec => []IndInv
  BY HistoryWatches, IndInvCorrect, PTL
<1>2. HistSpec => [](Views /\ ReadInv)
  BY ReadersCorrect
<1>3. IndInv /\ Views /\ Views' /\ HistInv /\ HistInv' /\ ReadInv /\ ReadInv'
        /\ [HistNext]_histVars => [Service!Next]_(Service!vars)
  BY ServiceNext
<1> QED BY <1>1, <1>2, <1>3, ServiceInit, HistoryCorrect, PTL
    DEF HistSpec, ImplementsService, Service!Spec

=============================================================================
