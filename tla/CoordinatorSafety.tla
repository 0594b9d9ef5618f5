------------------------- MODULE CoordinatorSafety -------------------------
(***************************************************************************)
(* Where records live and what the home knows, for every instance.         *)
(* Placement (routing of messages, askers, directory and cache) is         *)
(* inductive on its own; OneHost rests on the embedder's moves; HomeLearns *)
(* and PacedHome rest on both.                                             *)
(***************************************************************************)
EXTENDS CoordinatorProofs

\* Every entity has a home rank.
LEMMA HomeType == \A e \in Entity : Home[e] \in Node
BY ConstantsAssumption

\* Placement in terms of the observations of CoordinatorProofs.
LEMMA PlacementView ==
  Placement <=>
    /\ Routed
    /\ \A n, r \in Node, e \in Entity :
         Asked(n, e, r) \/ Buffered(n, e, r) => n = Home[e] /\ r # n
    /\ \A n \in Node, e \in Entity :
         /\ Dir(n, e) # Absent => Home[e] = n
         /\ Cached(n, e) => Home[e] # n
    /\ \A e \in Entity : Lives(e, Home[e]) => Dir(Home[e], e) # Absent
BY DEF Placement, AskersRouted, HomeInDirectory, LocalInDirectory, Asked,
       Buffered, Dir, DirExists, Cached

\* Routing is kept if every new message is routed.
LEMMA RoutedStep ==
  ASSUME Routed, \A a, b \in Node : \A x :
                   x \in Msgs(a, b)' => x \in Msgs(a, b) \/ RoutedMsg(a, b, x)
  PROVE  Routed'
BY DEF Routed, RoutedMsg

\* announceLocation on the home of e keeps Placement: its responses go to
\* askers and buffered requesters, none of which is the home itself.
LEMMA PlacementAnnounce ==
  ASSUME Placement, NEW n \in Node, NEW e \in Entity, Home[e] = n,
         NEW node \in Node, NEW q,
         \A a, b \in Node : \A x : x \in OnWire(q, a, b) => x \in Msgs(a, b),
         Announces(n, e, node, q),
         \A a \in Node, x \in Entity :
           Lives(x, a)' => Lives(x, a) \/ (a = n /\ x = e)
  PROVE  Placement'
<1> DEFINE rr == ResolveResponse(e, node)
<1>0. rr.type = "resolveResponse" /\ rr.id = e
  BY DEF ResolveResponse
<1>1. /\ Routed
      /\ \A a, r \in Node, x \in Entity :
           Asked(a, x, r) \/ Buffered(a, x, r) => a = Home[x] /\ r # a
      /\ \A a \in Node, x \in Entity :
           /\ Dir(a, x) # Absent => Home[x] = a
           /\ Cached(a, x) => Home[x] # a
      /\ \A x \in Entity : Lives(x, Home[x]) => Dir(Home[x], x) # Absent
  BY PlacementView
<1>2. Routed'
  <2>1. \A a, b \in Node : \A x :
          x \in Msgs(a, b)' =>
            \/ x \in OnWire(q, a, b)
            \/ a = n /\ x = rr /\ (Asked(n, e, b) \/ Buffered(n, e, b))
    BY DEF Announces
  <2> HIDE DEF rr
  <2>2. \A b \in Node : Asked(n, e, b) \/ Buffered(n, e, b) => RoutedMsg(n, b, rr)
    BY <1>0, <1>1 DEF RoutedMsg
  <2>3. \A a, b \in Node : \A x :
          x \in Msgs(a, b)' => x \in Msgs(a, b) \/ RoutedMsg(a, b, x)
    BY <2>1, <2>2
  <2> QED BY <1>1, <2>3, RoutedStep
<1>3. \A a, r \in Node, x \in Entity :
        Asked(a, x, r)' \/ Buffered(a, x, r)' => a = Home[x] /\ r # a
  BY <1>1 DEF Announces
<1>4. \A a \in Node, x \in Entity :
        /\ Dir(a, x)' # Absent => Home[x] = a
        /\ Cached(a, x)' => Home[x] # a
  BY <1>1 DEF Announces
<1>5. \A x \in Entity : Lives(x, Home[x])' => Dir(Home[x], x)' # Absent
  BY <1>1, HomeType, AbsentRecord DEF Announces
<1> QED BY <1>2, <1>3, <1>4, <1>5 DEF Placement, AskersRouted, HomeInDirectory,
           LocalInDirectory, Asked, Buffered, Dir, DirExists, Cached

\* Placement is kept by a step that routes its messages, adds askers at homes
\* only, no host or cache entry at a home, and removes a directory entry only
\* together with the local registration.
LEMMA PlacementFrame ==
  ASSUME Placement,
         \A a, r \in Node, x \in Entity :
           Asked(a, x, r)' \/ Buffered(a, x, r)' =>
             Asked(a, x, r) \/ Buffered(a, x, r) \/ (a = Home[x] /\ r # a),
         \A a, b \in Node : \A x :
           x \in Msgs(a, b)' => x \in Msgs(a, b) \/ RoutedMsg(a, b, x),
         \A a \in Node, x \in Entity :
           /\ Lives(x, a)' => Lives(x, a) \/ a # Home[x]
           /\ Dir(a, x)' # Absent => Dir(a, x) # Absent
           /\ Dir(a, x) # Absent => Dir(a, x)' # Absent \/ ~Lives(x, a)'
           /\ Cached(a, x)' => Cached(a, x) \/ a # Home[x]
  PROVE  Placement'
<1>1. /\ Routed
      /\ \A a, r \in Node, x \in Entity :
           Asked(a, x, r) \/ Buffered(a, x, r) => a = Home[x] /\ r # a
      /\ \A a \in Node, x \in Entity :
           /\ Dir(a, x) # Absent => Home[x] = a
           /\ Cached(a, x) => Home[x] # a
      /\ \A x \in Entity : Lives(x, Home[x]) => Dir(Home[x], x) # Absent
  BY PlacementView
<1>2. Routed'
  BY <1>1, RoutedStep
<1>3. \A a, r \in Node, x \in Entity :
        Asked(a, x, r)' \/ Buffered(a, x, r)' => a = Home[x] /\ r # a
  BY <1>1
<1>4. \A a \in Node, x \in Entity :
        /\ Dir(a, x)' # Absent => Home[x] = a
        /\ Cached(a, x)' => Home[x] # a
  BY <1>1
<1>5. \A x \in Entity : Lives(x, Home[x])' => Dir(Home[x], x)' # Absent
  BY <1>1, HomeType
<1> QED BY <1>2, <1>3, <1>4, <1>5 DEF Placement, AskersRouted, HomeInDirectory,
           LocalInDirectory, Asked, Buffered, Dir, DirExists, Cached

\* The special case of a step that changes neither hosts, directory nor askers.
LEMMA PlacementKept ==
  ASSUME Placement, SameHosts, SameDir, FewerCached, SameAskers,
         \A a, b \in Node : \A x :
           x \in Msgs(a, b)' => x \in Msgs(a, b) \/ RoutedMsg(a, b, x)
  PROVE  Placement'
<1>1. \A a, r \in Node, x \in Entity :
        Asked(a, x, r)' \/ Buffered(a, x, r)' =>
          Asked(a, x, r) \/ Buffered(a, x, r) \/ (a = Home[x] /\ r # a)
  BY DEF SameAskers
<1>2. \A a \in Node, x \in Entity :
        /\ Lives(x, a)' => Lives(x, a) \/ a # Home[x]
        /\ Dir(a, x)' # Absent => Dir(a, x) # Absent
        /\ Dir(a, x) # Absent => Dir(a, x)' # Absent \/ ~Lives(x, a)'
        /\ Cached(a, x)' => Cached(a, x) \/ a # Home[x]
  BY DEF SameHosts, SameDir, FewerCached
<1> QED BY <1>1, <1>2, PlacementFrame

\* The messages a rank other than the home sends to the home are routed.
LEMMA RoutedTypes ==
  ASSUME NEW e \in Entity, NEW n \in Node, n # Home[e]
  PROVE  /\ RoutedMsg(n, Home[e], UpdateHome(e, n))
         /\ RoutedMsg(n, Home[e], LocationRequest(e, n))
         /\ RoutedMsg(n, Home[e], ExistsRequest(e, n))
BY DEF RoutedMsg, UpdateHome, LocationRequest, ExistsRequest

\* Every call of the public API but clearCache keeps Placement.
LEMMA PlacementCalls ==
  ASSUME TypeInv, Placement, NEW n \in Node, NEW e \in Entity, Call(n, e)
  PROVE  Placement'
<1>1. CASE RegisterHere(n, e)
  <2>1. Registers(n, e)
    BY <1>1, RegisterEffect
  <2> USE DEF Registers
  <2>2. CASE Home[e] = n
    <3>1. \A a, b \in Node : \A x : x \in OnWire(net, a, b) => x \in Msgs(a, b)
      BY DEF OnWire, Msgs
    <3>2. Announces(n, e, n, net)
      BY <2>1, <2>2
    <3>3. \A a \in Node, x \in Entity :
            Lives(x, a)' => Lives(x, a) \/ (a = n /\ x = e)
      BY <2>1
    <3> QED BY <2>2, <3>1, <3>2, <3>3, PlacementAnnounce
  <2>3. CASE Home[e] # n
    <3>1. \A a, b \in Node : \A x :
            x \in Msgs(a, b)' => x \in Msgs(a, b) \/ RoutedMsg(a, b, x)
      BY <2>1, <2>3, RoutedTypes DEF Sends
    <3>2. \A a, r \in Node, x \in Entity :
            Asked(a, x, r)' \/ Buffered(a, x, r)' =>
              Asked(a, x, r) \/ Buffered(a, x, r) \/ (a = Home[x] /\ r # a)
      BY <2>1, <2>3 DEF SameAskers
    <3>3. \A a \in Node, x \in Entity :
            /\ Lives(x, a)' => Lives(x, a) \/ a # Home[x]
            /\ Dir(a, x)' # Absent => Dir(a, x) # Absent
            /\ Dir(a, x) # Absent => Dir(a, x)' # Absent \/ ~Lives(x, a)'
            /\ Cached(a, x)' => Cached(a, x) \/ a # Home[x]
      BY <2>1, <2>3 DEF SameDir, FewerCached
    <3> QED BY <3>1, <3>2, <3>3, PlacementFrame
  <2> QED BY <2>2, <2>3
<1>2. ASSUME NEW new_node \in Node, entityEmigrated(n, e, new_node)
      PROVE  Placement'
  <2>1. Emigrates(n, e, new_node)
    BY <1>2, EmigrateEffect
  <2> USE DEF Emigrates
  <2>2. makeRec(n, new_node) # Absent
    BY AbsentRecord
  <2>3. Lives(e, n) /\ (n = Home[e] => Dir(n, e) # Absent)
    BY <1>2, PlacementView DEF entityEmigrated
  <2>4. \A a, r \in Node, x \in Entity :
          Asked(a, x, r)' \/ Buffered(a, x, r)' =>
            Asked(a, x, r) \/ Buffered(a, x, r) \/ (a = Home[x] /\ r # a)
    BY <2>1 DEF SameAskers
  <2>5. \A a, b \in Node : \A x :
          x \in Msgs(a, b)' => x \in Msgs(a, b) \/ RoutedMsg(a, b, x)
    BY <2>1
  <2>6. \A a \in Node, x \in Entity :
          /\ Lives(x, a)' => Lives(x, a) \/ a # Home[x]
          /\ Dir(a, x)' # Absent => Dir(a, x) # Absent
          /\ Dir(a, x) # Absent => Dir(a, x)' # Absent \/ ~Lives(x, a)'
          /\ Cached(a, x)' => Cached(a, x) \/ a # Home[x]
    BY <2>1, <2>2, <2>3
  <2> QED BY <2>4, <2>5, <2>6, PlacementFrame
<1>3. CASE unregisterEntity(n, e)
  <2>1. Unregisters(n, e)
    BY <1>3, UnregisterEffect
  <2> USE DEF Unregisters
  <2>2. \A a, r \in Node, x \in Entity :
          Asked(a, x, r)' \/ Buffered(a, x, r)' =>
            Asked(a, x, r) \/ Buffered(a, x, r) \/ (a = Home[x] /\ r # a)
    BY <2>1 DEF SameAskers
  <2>3. \A a, b \in Node : \A x :
          x \in Msgs(a, b)' => x \in Msgs(a, b) \/ RoutedMsg(a, b, x)
    BY <2>1
  <2>4. \A a \in Node, x \in Entity :
          /\ Lives(x, a)' => Lives(x, a) \/ a # Home[x]
          /\ Dir(a, x)' # Absent => Dir(a, x) # Absent
          /\ Dir(a, x) # Absent => Dir(a, x)' # Absent \/ ~Lives(x, a)'
          /\ Cached(a, x)' => Cached(a, x) \/ a # Home[x]
    BY <2>1 DEF FewerCached
  <2> QED BY <2>2, <2>3, <2>4, PlacementFrame
<1>4. CASE getLocation(n, e)
  <2>1. AsksLocation(n, e)
    BY <1>4, GetLocationEffect
  <2> USE DEF AsksLocation
  <2>2. \A a, b \in Node : \A x :
          x \in Msgs(a, b)' => x \in Msgs(a, b) \/ RoutedMsg(a, b, x)
    BY <2>1, RoutedTypes DEF Sends
  <2> QED BY <2>1, <2>2, PlacementKept
<1>5. CASE entityExists(n, e)
  <2>1. AsksExistence(n, e)
    BY <1>5, EntityExistsEffect
  <2> USE DEF AsksExistence
  <2>2. \A a, b \in Node : \A x :
          x \in Msgs(a, b)' => x \in Msgs(a, b) \/ RoutedMsg(a, b, x)
    BY <2>1, RoutedTypes DEF Sends
  <2> QED BY <2>1, <2>2, PlacementKept
<1> QED BY <1>1, <1>2, <1>3, <1>4, <1>5 DEF Call, registerEntity, entityImmigrated

\* Every message handler keeps Placement.
LEMMA PlacementHandlers ==
  ASSUME TypeInv, Placement, NEW s \in Node, NEW n \in Node, Poll(s, n)
  PROVE  Placement'
<1>0. PICK i \in DOMAIN net[s][n] :
        \/ updateHome(s, n, i)
        \/ locationRequest(s, n, i)
        \/ resolveResponse(s, n, i)
        \/ existsRequest(s, n, i)
        \/ existsResponse(s, n, i)
  BY DEF Poll
<1> DEFINE m == net[s][n][i]
<1>1. \A x : x \in Msgs(s, n) => RoutedMsg(s, n, x)
  BY DEF Placement, Routed
<1>2. CASE updateHome(s, n, i)
  <2>1. HandlesUpdateHome(s, n, m)
    BY <1>2, UpdateHomeEffect
  <2> USE DEF HandlesUpdateHome
  <2>2. PICK q \in Channels :
          /\ Announces(n, m.id, m.node, q)
          /\ \A a, b \in Node : \A x :
               x \in Msgs(a, b) <=>
                 x \in OnWire(q, a, b) \/ (a = s /\ b = n /\ x = m)
    BY <2>1
  <2>3. Home[m.id] = n
    BY <1>1, <2>1 DEF RoutedMsg
  <2>4. \A a \in Node, x \in Entity : Lives(x, a)' => Lives(x, a)
    BY <2>1 DEF SameHosts
  <2> QED BY <2>1, <2>2, <2>3, <2>4, PlacementAnnounce
<1>3. CASE locationRequest(s, n, i)
  <2>1. HandlesLocationRequest(s, n, m)
    BY <1>3, LocationRequestEffect
  <2> USE DEF HandlesLocationRequest
  <2>2. n = Home[m.id] /\ m.node # n
    BY <1>1, <2>1 DEF RoutedMsg
  <2>3. \A node \in Node : RoutedMsg(n, m.node, ResolveResponse(m.id, node))
    BY <2>2 DEF RoutedMsg, ResolveResponse
  <2> HIDE DEF m
  <2>4. \A a, b \in Node : \A x :
          x \in Msgs(a, b)' => x \in Msgs(a, b) \/ RoutedMsg(a, b, x)
    BY <2>1, <2>3 DEF Replies, Receives
  <2>5. \A a, r \in Node, x \in Entity :
          Asked(a, x, r)' \/ Buffered(a, x, r)' =>
            Asked(a, x, r) \/ Buffered(a, x, r) \/ (a = Home[x] /\ r # a)
    BY <2>1, <2>2
  <2>6. \A a \in Node, x \in Entity :
          /\ Lives(x, a)' => Lives(x, a) \/ a # Home[x]
          /\ Dir(a, x)' # Absent => Dir(a, x) # Absent
          /\ Dir(a, x) # Absent => Dir(a, x)' # Absent \/ ~Lives(x, a)'
          /\ Cached(a, x)' => Cached(a, x) \/ a # Home[x]
    BY <2>1 DEF SameHosts, SameDir, FewerCached
  <2> QED BY <2>4, <2>5, <2>6, PlacementFrame
<1>4. CASE resolveResponse(s, n, i)
  <2>1. HandlesResolveResponse(s, n, m)
    BY <1>4, ResolveResponseEffect
  <2> USE DEF HandlesResolveResponse
  <2>2. n # Home[m.id]
    BY <1>1, <2>1 DEF RoutedMsg
  <2>3. makeRec(n, m.node) # Absent
    BY <2>1, AbsentRecord
  <2> HIDE DEF m
  <2>4. \A a, b \in Node : \A x :
          x \in Msgs(a, b)' => x \in Msgs(a, b) \/ RoutedMsg(a, b, x)
    BY <2>1 DEF Receives
  <2>5. \A a, r \in Node, x \in Entity :
          Asked(a, x, r)' \/ Buffered(a, x, r)' =>
            Asked(a, x, r) \/ Buffered(a, x, r) \/ (a = Home[x] /\ r # a)
    BY <2>1 DEF SameAskers
  <2>6. \A a \in Node, x \in Entity :
          /\ Lives(x, a)' => Lives(x, a) \/ a # Home[x]
          /\ Dir(a, x)' # Absent => Dir(a, x) # Absent
          /\ Dir(a, x) # Absent => Dir(a, x)' # Absent \/ ~Lives(x, a)'
          /\ Cached(a, x)' => Cached(a, x) \/ a # Home[x]
    BY <2>1, <2>2, <2>3 DEF SameHosts
  <2> QED BY <2>4, <2>5, <2>6, PlacementFrame
<1>5. CASE existsRequest(s, n, i)
  <2>1. HandlesExistsRequest(s, n, m)
    BY <1>5, ExistsRequestEffect
  <2> USE DEF HandlesExistsRequest
  <2>2. n = Home[m.id] /\ m.node # n
    BY <1>1, <2>1 DEF RoutedMsg
  <2> HIDE DEF m
  <2>3. PICK r \in Message : /\ r.type = "existsResponse" /\ r.id = m.id
                             /\ Replies(s, n, m, m.node, r)
    BY <2>1
  <2>4. RoutedMsg(n, m.node, r)
    BY <2>2, <2>3 DEF RoutedMsg
  <2>5. \A a, b \in Node : \A x :
          x \in Msgs(a, b)' => x \in Msgs(a, b) \/ RoutedMsg(a, b, x)
    BY <2>3, <2>4 DEF Replies
  <2> QED BY <2>1, <2>5, PlacementKept
<1>6. CASE existsResponse(s, n, i)
  <2>1. HandlesExistsResponse(s, n, m)
    BY <1>6, ExistsResponseEffect
  <2> USE DEF HandlesExistsResponse
  <2>2. n # Home[m.id]
    BY <1>1, <2>1 DEF RoutedMsg
  <2> HIDE DEF m
  <2>3. \A a, b \in Node : \A x :
          x \in Msgs(a, b)' => x \in Msgs(a, b) \/ RoutedMsg(a, b, x)
    BY <2>1 DEF Receives
  <2>4. \A a, r \in Node, x \in Entity :
          Asked(a, x, r)' \/ Buffered(a, x, r)' =>
            Asked(a, x, r) \/ Buffered(a, x, r) \/ (a = Home[x] /\ r # a)
    BY <2>1 DEF SameAskers
  <2>5. \A a \in Node, x \in Entity :
          /\ Lives(x, a)' => Lives(x, a) \/ a # Home[x]
          /\ Dir(a, x)' # Absent => Dir(a, x) # Absent
          /\ Dir(a, x) # Absent => Dir(a, x)' # Absent \/ ~Lives(x, a)'
          /\ Cached(a, x)' => Cached(a, x) \/ a # Home[x]
    BY <2>1, <2>2 DEF SameHosts
  <2> QED BY <2>3, <2>4, <2>5, PlacementFrame
<1> QED BY <1>0, <1>2, <1>3, <1>4, <1>5, <1>6

\* Placement holds of freshly constructed coordinators.
LEMMA PlacementInit == Init => Placement
<1> SUFFICES ASSUME Init PROVE Placement
  OBVIOUS
<1>1. \A a, b \in Node : \A x : x \notin Msgs(a, b)
  <2>1. \A a, b \in Node : net[a][b] = <<>>
    BY DEF Init
  <2>2. \A x : x \notin ToSet(<<>>)
    BY DEF ToSet
  <2> QED BY <2>1, <2>2 DEF Msgs
<1>2. \A n, r \in Node, e \in Entity : ~Asked(n, e, r) /\ ~Buffered(n, e, r)
  BY DEF Init, Asked, Buffered
<1>3. \A n \in Node, e \in Entity : Dir(n, e) = Absent /\ ~Cached(n, e)
  BY DEF Init, Dir, Cached, EmptyLookup, CacheExists, CacheKeys
<1>4. \A n \in Node, e \in Entity : ~Lives(e, n)
  BY DEF Init, Lives
<1>5. Routed
  BY <1>1 DEF Routed
<1> QED BY <1>2, <1>3, <1>4, <1>5, HomeType, PlacementView

\* Placement is inductive relative to the types.
LEMMA PlacementStep ==
  ASSUME TypeInv, Placement, [Next]_vars
  PROVE  Placement'
<1>1. ASSUME NEW n \in Node, clearCache(n)
      PROVE  Placement'
  BY <1>1, ClearCacheEffect, PlacementKept DEF ClearsCache
<1>2. CASE UNCHANGED vars
  BY <1>2 DEF vars, coordVars, callVars, Placement, Routed, RoutedMsg, Msgs,
              AskersRouted, HomeInDirectory, LocalInDirectory, Lives
<1> QED BY <1>1, <1>2, PlacementCalls, PlacementHandlers DEF Next

\* Messages are routed to and from homes, only homes keep askers and buffered
\* requests, and records are in the directory on the home and in the cache
\* elsewhere (lookup.h insert and update, announceLocation).
THEOREM PlacementCorrect == Spec => []Placement
<1>1. Init => Placement
  BY PlacementInit
<1>2. TypeInv /\ Placement /\ [Next]_vars => Placement'
  BY PlacementStep
<1>3. Spec => []TypeInv
  BY TypeCorrect DEF TypeInv
<1> QED BY <1>1, <1>2, <1>3, PTL DEF Spec

\* The directory of a rank holds only entities it is the home of, and its cache
\* only others: update(), which never sees the home, still chooses correctly,
\* so no home record can be evicted.
THEOREM HomesInDirectory == Spec => []HomeInDirectory
<1>1. Placement => HomeInDirectory
  BY DEF Placement
<1> QED BY <1>1, PlacementCorrect, PTL

\* Comm::poll handles one routed message and has the effect of its handler.
LEMMA PollEffect ==
  ASSUME TypeInv, Placement, NEW s \in Node, NEW n \in Node, Poll(s, n)
  PROVE  /\ UNCHANGED callVars
         /\ \E m : /\ m \in Msgs(s, n) /\ RoutedMsg(s, n, m) /\ m.id \in Entity
                   /\ \/ HandlesUpdateHome(s, n, m)
                      \/ HandlesLocationRequest(s, n, m)
                      \/ HandlesResolveResponse(s, n, m)
                      \/ HandlesExistsRequest(s, n, m)
                      \/ HandlesExistsResponse(s, n, m)
<1>0. PICK i \in DOMAIN net[s][n] :
        \/ updateHome(s, n, i)
        \/ locationRequest(s, n, i)
        \/ resolveResponse(s, n, i)
        \/ existsRequest(s, n, i)
        \/ existsResponse(s, n, i)
  BY DEF Poll
<1>1. UNCHANGED callVars
  BY <1>0 DEF updateHome, locationRequest, resolveResponse, existsRequest,
              existsResponse
<1> DEFINE m == net[s][n][i]
<1>2. \/ HandlesUpdateHome(s, n, m)
      \/ HandlesLocationRequest(s, n, m)
      \/ HandlesResolveResponse(s, n, m)
      \/ HandlesExistsRequest(s, n, m)
      \/ HandlesExistsResponse(s, n, m)
  BY <1>0, UpdateHomeEffect, LocationRequestEffect, ResolveResponseEffect,
     ExistsRequestEffect, ExistsResponseEffect
<1> HIDE DEF m
<1>3. m \in Msgs(s, n) /\ m.id \in Entity
  BY <1>2 DEF HandlesUpdateHome, HandlesLocationRequest, HandlesResolveResponse,
              HandlesExistsRequest, HandlesExistsResponse
<1>4. RoutedMsg(s, n, m)
  BY <1>3 DEF Placement, Routed
<1> QED BY <1>1, <1>2, <1>3, <1>4

\* OneHost is kept by the embedder's moves, whichever of entityEmigrated and
\* entityImmigrated comes first.
LEMMA OneHostStep ==
  ASSUME TypeInv, Placement, OneHost, [Next]_vars
  PROVE  OneHost'
<1>0. NoNode \notin Node
  BY ConstantsAssumption
<1>t. /\ transit \in [Entity -> Node \cup {NoNode}]
      /\ leaving \in [Entity -> Node \cup {NoNode}]
  BY DEF TypeInv, TypeOK
<1>1. ASSUME SameHosts, UNCHANGED <<transit, leaving>>
      PROVE  OneHost'
  BY <1>1 DEF SameHosts, OneHost
<1>2. ASSUME NEW n \in Node, NEW e \in Entity, registerEntity(n, e)
      PROVE  OneHost'
  <2>1. Registers(n, e)
    BY <1>2, RegisterEffect DEF registerEntity
  <2>2. Nowhere(e) /\ UNCHANGED <<transit, leaving>>
    BY <1>2 DEF registerEntity
  <2> QED BY <2>1, <2>2 DEF Registers, OneHost, Nowhere
<1>3. ASSUME NEW n \in Node, NEW e \in Entity, entityImmigrated(n, e)
      PROVE  OneHost'
  <2>1. Registers(n, e)
    BY <1>3, RegisterEffect DEF entityImmigrated
  <2>2. \A a \in Node, x \in Entity :
          Lives(x, a)' <=> Lives(x, a) \/ (a = n /\ x = e)
    BY <2>1 DEF Registers
  <2>3. CASE /\ transit[e] = n
             /\ transit' = [transit EXCEPT ![e] = NoNode]
             /\ UNCHANGED <<leaving, moves>>
    BY <1>0, <1>t, <2>2, <2>3 DEF OneHost
  <2>4. ASSUME NEW from \in Node \ {n}, Lives(e, from), StartMove(e),
               leaving' = [leaving EXCEPT ![e] = from], UNCHANGED transit
        PROVE  OneHost'
    <3>1. \A a \in Node : Lives(e, a) => a = from
      BY <1>0, <2>4 DEF OneHost, StartMove
    <3>2. transit[e] = NoNode
      BY <2>4 DEF OneHost
    <3> QED BY <1>t, <2>2, <2>4, <3>1, <3>2 DEF OneHost
  <2> QED BY <1>3, <2>3, <2>4 DEF entityImmigrated
<1>4. ASSUME NEW n \in Node, NEW e \in Entity, NEW new_node \in Node,
             entityEmigrated(n, e, new_node)
      PROVE  OneHost'
  <2>1. Emigrates(n, e, new_node)
    BY <1>4, EmigrateEffect
  <2>2. \A a \in Node, x \in Entity :
          Lives(x, a)' <=> Lives(x, a) /\ ~(a = n /\ x = e)
    BY <2>1 DEF Emigrates
  <2>3. Lives(e, n)
    BY <1>4 DEF entityEmigrated
  <2>4. CASE /\ StartMove(e)
             /\ transit' = [transit EXCEPT ![e] = new_node]
             /\ UNCHANGED leaving
    <3>1. \A a \in Node : Lives(e, a) => a = n
      BY <1>0, <2>3, <2>4 DEF OneHost, StartMove
    <3> QED BY <1>t, <2>2, <2>4, <3>1 DEF OneHost
  <2>5. CASE /\ leaving[e] = n
             /\ leaving' = [leaving EXCEPT ![e] = NoNode]
             /\ UNCHANGED <<transit, moves>>
    BY <1>t, <2>2, <2>5 DEF OneHost
  <2> QED BY <1>4, <2>4, <2>5 DEF entityEmigrated
<1>5. ASSUME NEW n \in Node, NEW e \in Entity, unregisterEntity(n, e)
      PROVE  OneHost'
  <2>1. Unregisters(n, e)
    BY <1>5, UnregisterEffect
  <2>2. UNCHANGED <<transit, leaving>>
    BY <1>5 DEF unregisterEntity, callVars
  <2> QED BY <2>1, <2>2 DEF Unregisters, OneHost
<1>6. ASSUME NEW n \in Node, NEW e \in Entity, getLocation(n, e)
      PROVE  OneHost'
  BY <1>1, <1>6, GetLocationEffect DEF AsksLocation, getLocation
<1>7. ASSUME NEW n \in Node, NEW e \in Entity, entityExists(n, e)
      PROVE  OneHost'
  BY <1>1, <1>7, EntityExistsEffect DEF AsksExistence, entityExists
<1>8. ASSUME NEW n \in Node, clearCache(n)
      PROVE  OneHost'
  BY <1>1, <1>8, ClearCacheEffect DEF ClearsCache, clearCache
<1>9. ASSUME NEW s \in Node, NEW n \in Node, Poll(s, n)
      PROVE  OneHost'
  <2>1. UNCHANGED callVars /\ SameHosts
    BY <1>9, PollEffect
       DEF HandlesUpdateHome, HandlesLocationRequest, HandlesResolveResponse,
           HandlesExistsRequest, HandlesExistsResponse
  <2> QED BY <1>1, <2>1 DEF callVars
<1>10. CASE UNCHANGED vars
  BY <1>10 DEF vars, coordVars, callVars, OneHost, Lives
<1> QED BY <1>2, <1>3, <1>4, <1>5, <1>6, <1>7, <1>8, <1>9, <1>10 DEF Next, Call

\* The home of e has a record of it, or the updateHome of rank n is in flight.
Informed(n, e) ==
  Dir(Home[e], e) # Absent \/ UpdateHome(e, n) \in Msgs(n, Home[e])

\* HomeLearns in terms of Informed.
LEMMA HomeLearnsView ==
  HomeLearns <=> \A n \in Node, e \in Entity : Lives(e, n) => Informed(n, e)
BY DEF HomeLearns, Informed, Dir, DirExists

\* HomeLearns is kept by a step that adds no host, drops no directory entry and
\* no updateHome.
LEMMA HomeLearnsFrame ==
  ASSUME HomeLearns,
         \A a \in Node, x \in Entity : Lives(x, a)' => Lives(x, a),
         \A a \in Node, x \in Entity : Dir(a, x) # Absent => Dir(a, x)' # Absent,
         \A a, b \in Node : \A y :
           y.type = "updateHome" /\ y \in Msgs(a, b) => y \in Msgs(a, b)'
  PROVE  HomeLearns'
<1>1. \A a \in Node, x \in Entity : Lives(x, a) => Informed(a, x)
  BY HomeLearnsView
<1>2. \A x, a : UpdateHome(x, a).type = "updateHome"
  BY DEF UpdateHome
<1>3. \A a \in Node, x \in Entity : Informed(a, x) => Informed(a, x)'
  BY <1>2, HomeType DEF Informed
<1>4. \A a \in Node, x \in Entity : Lives(x, a)' => Informed(a, x)'
  BY <1>1, <1>3
<1> QED BY <1>4 DEF HomeLearns, Informed, Dir, DirExists

\* HomeLearns is inductive relative to Placement and OneHost: unregisterEntity
\* on the home removes the entry of an entity nobody else hosts.
LEMMA HomeLearnsStep ==
  ASSUME TypeInv, Placement, OneHost, HomeLearns, [Next]_vars
  PROVE  HomeLearns'
<1>0. \A a \in Node, x \in Entity : Lives(x, a) => Informed(a, x)
  BY HomeLearnsView
<1>n. NoNode \notin Node
  BY ConstantsAssumption
<1>1. ASSUME NEW n \in Node, NEW e \in Entity, RegisterHere(n, e)
      PROVE  HomeLearns'
  <2>1. Registers(n, e)
    BY <1>1, RegisterEffect
  <2>2. CASE Home[e] = n
    <3>1. /\ \A a \in Node, x \in Entity :
               Dir(a, x)' = IF a = n /\ x = e THEN makeRec(n, n) ELSE Dir(a, x)
          /\ \A a, b \in Node : \A x : x \in Msgs(a, b) => x \in Msgs(a, b)'
      BY <2>1, <2>2 DEF Registers, Announces, OnWire, Msgs
    <3>2. makeRec(n, n) # Absent
      BY AbsentRecord
    <3>3. \A a \in Node, x \in Entity : Lives(x, a)' => Informed(a, x)'
      BY <1>0, <2>1, <2>2, <3>1, <3>2, HomeType DEF Registers, Informed
    <3> QED BY <3>3 DEF HomeLearns, Informed, Dir, DirExists
  <2>3. CASE Home[e] # n
    <3>1. \A a \in Node, x \in Entity : Lives(x, a)' => Informed(a, x)'
      BY <1>0, <2>1, <2>3, HomeType DEF Registers, SameDir, Sends, Informed
    <3> QED BY <3>1 DEF HomeLearns, Informed, Dir, DirExists
  <2> QED BY <2>2, <2>3
<1>2. ASSUME NEW n \in Node, NEW e \in Entity, NEW new_node \in Node,
             entityEmigrated(n, e, new_node)
      PROVE  HomeLearns'
  <2>1. Emigrates(n, e, new_node)
    BY <1>2, EmigrateEffect
  <2>2. makeRec(n, new_node) # Absent
    BY AbsentRecord
  <2>3. /\ \A a \in Node, x \in Entity : Lives(x, a)' => Lives(x, a)
        /\ \A a \in Node, x \in Entity : Dir(a, x) # Absent => Dir(a, x)' # Absent
        /\ \A a, b \in Node : \A y :
             y.type = "updateHome" /\ y \in Msgs(a, b) => y \in Msgs(a, b)'
    BY <2>1, <2>2 DEF Emigrates
  <2> QED BY <2>3, HomeLearnsFrame
<1>3. ASSUME NEW n \in Node, NEW e \in Entity, unregisterEntity(n, e)
      PROVE  HomeLearns'
  <2>1. Unregisters(n, e)
    BY <1>3, UnregisterEffect
  <2>2. Lives(e, n) /\ leaving[e] = NoNode
    BY <1>3 DEF unregisterEntity
  <2>3. \A a \in Node : Lives(e, a) => a = n
    BY <1>n, <2>2 DEF OneHost
  <2>4. \A a \in Node, x \in Entity :
          Lives(x, a)' => x # e /\ Lives(x, a)
    BY <2>1, <2>3 DEF Unregisters
  <2>5. \A a \in Node, x \in Entity : x # e => Dir(a, x)' = Dir(a, x)
    BY <2>1 DEF Unregisters
  <2>6. \A a, b \in Node : Msgs(a, b)' = Msgs(a, b)
    BY <2>1 DEF Unregisters
  <2>7. \A a \in Node, x \in Entity : Lives(x, a)' => Informed(a, x)'
    BY <1>0, <2>4, <2>5, <2>6, HomeType DEF Informed
  <2> QED BY <2>7 DEF HomeLearns, Informed, Dir, DirExists
<1>4. ASSUME SameHosts, SameDir,
             \A a, b \in Node : \A y :
               y.type = "updateHome" /\ y \in Msgs(a, b) => y \in Msgs(a, b)'
      PROVE  HomeLearns'
  <2>1. /\ \A a \in Node, x \in Entity : Lives(x, a)' => Lives(x, a)
        /\ \A a \in Node, x \in Entity : Dir(a, x) # Absent => Dir(a, x)' # Absent
    BY <1>4 DEF SameHosts, SameDir
  <2> QED BY <1>4, <2>1, HomeLearnsFrame
<1>5. ASSUME NEW n \in Node, NEW e \in Entity, getLocation(n, e)
      PROVE  HomeLearns'
  <2>1. AsksLocation(n, e)
    BY <1>5, GetLocationEffect
  <2> QED BY <1>4, <2>1 DEF AsksLocation, Sends
<1>6. ASSUME NEW n \in Node, NEW e \in Entity, entityExists(n, e)
      PROVE  HomeLearns'
  <2>1. AsksExistence(n, e)
    BY <1>6, EntityExistsEffect
  <2> QED BY <1>4, <2>1 DEF AsksExistence, Sends
<1>7. ASSUME NEW n \in Node, clearCache(n)
      PROVE  HomeLearns'
  BY <1>4, <1>7, ClearCacheEffect DEF ClearsCache
<1>8. ASSUME NEW s \in Node, NEW n \in Node, Poll(s, n)
      PROVE  HomeLearns'
  <2>1. PICK m : /\ m \in Msgs(s, n) /\ RoutedMsg(s, n, m) /\ m.id \in Entity
                 /\ \/ HandlesUpdateHome(s, n, m)
                    \/ HandlesLocationRequest(s, n, m)
                    \/ HandlesResolveResponse(s, n, m)
                    \/ HandlesExistsRequest(s, n, m)
                    \/ HandlesExistsResponse(s, n, m)
    BY <1>8, PollEffect
  <2>2. CASE HandlesUpdateHome(s, n, m)
    <3>1. PICK q \in Channels :
            /\ Announces(n, m.id, m.node, q)
            /\ \A a, b \in Node : \A x :
                 x \in Msgs(a, b) <=>
                   x \in OnWire(q, a, b) \/ (a = s /\ b = n /\ x = m)
      BY <2>2 DEF HandlesUpdateHome
    <3>2. /\ m.type = "updateHome" /\ m.node \in Node
          /\ n = Home[m.id] /\ m.node = s /\ SameHosts
      BY <2>1, <2>2 DEF HandlesUpdateHome, RoutedMsg
    <3>3. \A a \in Node, x \in Entity :
            Dir(a, x)' = IF a = n /\ x = m.id THEN makeRec(n, m.node)
                                              ELSE Dir(a, x)
      BY <3>1 DEF Announces
    <3>4. makeRec(n, m.node) # Absent
      BY <3>2, AbsentRecord
    <3>5. \A x, a : UpdateHome(x, a) = m => x = m.id
      BY DEF UpdateHome
    <3>6. \A a, b \in Node : \A x :
            x \in Msgs(a, b) => x \in Msgs(a, b)' \/ x = m
      BY <3>1 DEF Announces
    <3>7. \A a \in Node, x \in Entity : Lives(x, a)' => Informed(a, x)'
      BY <1>0, <3>2, <3>3, <3>4, <3>5, <3>6, HomeType DEF SameHosts, Informed
    <3> QED BY <3>7 DEF HomeLearns, Informed, Dir, DirExists
  <2>3. CASE HandlesLocationRequest(s, n, m)
    <3>1. \A a, b \in Node : \A y :
            y.type = "updateHome" /\ y \in Msgs(a, b) => y \in Msgs(a, b)'
      BY <2>3 DEF HandlesLocationRequest, Replies, Receives
    <3> QED BY <1>4, <2>3, <3>1 DEF HandlesLocationRequest
  <2>4. CASE HandlesResolveResponse(s, n, m)
    <3>1. makeRec(n, m.node) # Absent
      BY <2>4, AbsentRecord DEF HandlesResolveResponse
    <3>2. /\ \A a \in Node, x \in Entity : Lives(x, a)' => Lives(x, a)
          /\ \A a \in Node, x \in Entity :
               Dir(a, x) # Absent => Dir(a, x)' # Absent
          /\ \A a, b \in Node : \A y :
               y.type = "updateHome" /\ y \in Msgs(a, b) => y \in Msgs(a, b)'
      BY <2>4, <3>1 DEF HandlesResolveResponse, SameHosts, Receives
    <3> QED BY <3>2, HomeLearnsFrame
  <2>5. CASE HandlesExistsRequest(s, n, m)
    <3>1. \A a, b \in Node : \A y :
            y.type = "updateHome" /\ y \in Msgs(a, b) => y \in Msgs(a, b)'
      BY <2>5 DEF HandlesExistsRequest, Replies
    <3> QED BY <1>4, <2>5, <3>1 DEF HandlesExistsRequest
  <2>6. CASE HandlesExistsResponse(s, n, m)
    <3>1. /\ \A a \in Node, x \in Entity : Lives(x, a)' => Lives(x, a)
          /\ \A a \in Node, x \in Entity :
               Dir(a, x) # Absent => Dir(a, x)' # Absent
          /\ \A a, b \in Node : \A y :
               y.type = "updateHome" /\ y \in Msgs(a, b) => y \in Msgs(a, b)'
      BY <2>6 DEF HandlesExistsResponse, SameHosts, Receives
    <3> QED BY <3>1, HomeLearnsFrame
  <2> QED BY <2>1, <2>2, <2>3, <2>4, <2>5, <2>6
<1>9. CASE UNCHANGED vars
  BY <1>9 DEF vars, coordVars, callVars, HomeLearns, Lives, Msgs
<1> QED BY <1>1, <1>2, <1>3, <1>5, <1>6, <1>7, <1>8, <1>9
        DEF Next, Call, registerEntity, entityImmigrated

\* The home's directory names n as the host of e.
Names(e, n) == Dir(Home[e], e) # Absent /\ Dir(Home[e], e).cur_node = n

\* What PacedHome says of one entity.
Settled(e) ==
  /\ \A n \in Node :
       Owns(e, n) => Names(e, n) \/ UpdateHome(e, n) \in Msgs(n, Home[e])
  /\ \A n \in Node : Owns(e, n) =>
       \A s, d \in Node : \A m :
         m \in Msgs(s, d) /\ m.type = "updateHome" /\ m.id = e => m.node = n
  /\ transit[e] # NoNode =>
       \A s, d \in Node : \A m :
         ~(m \in Msgs(s, d) /\ m.type = "updateHome" /\ m.id = e)

\* PacedHome in terms of Settled.
LEMMA PacedHomeView ==
  PacedHome <=> (Paced => \A e \in Entity : Settled(e))
BY DEF PacedHome, Settled, Names, Dir, DirExists, UpdateInFlight

\* Settled is kept by a step that gives e no new owner and leaves its directory
\* entry, its transit and its updateHome messages alone.
LEMMA SettledFrame ==
  ASSUME NEW e \in Entity, Settled(e),
         \A a \in Node : Owns(e, a)' => Owns(e, a),
         transit'[e] = transit[e],
         Dir(Home[e], e)' = Dir(Home[e], e),
         \A a, b \in Node : \A y :
           y.type = "updateHome" /\ y.id = e =>
             (y \in Msgs(a, b)' <=> y \in Msgs(a, b))
  PROVE  Settled(e)'
<1>1. \A a : UpdateHome(e, a).type = "updateHome" /\ UpdateHome(e, a).id = e
  BY DEF UpdateHome
<1>2. \A a \in Node :
        Owns(e, a)' => Names(e, a)' \/ UpdateHome(e, a) \in Msgs(a, Home[e])'
  BY <1>1, HomeType DEF Settled, Names
<1>3. \A n \in Node : Owns(e, n)' =>
        \A s, d \in Node : \A m :
          m \in Msgs(s, d)' /\ m.type = "updateHome" /\ m.id = e => m.node = n
  BY DEF Settled
<1>4. transit'[e] # NoNode =>
        \A s, d \in Node : \A m :
          ~(m \in Msgs(s, d)' /\ m.type = "updateHome" /\ m.id = e)
  BY DEF Settled
<1> QED BY <1>2, <1>3, <1>4 DEF Settled

\* Registering e on rank n settles it, if no updateHome for it was in flight.
LEMMA SettledRegister ==
  ASSUME TypeInv, NEW n \in Node, NEW e \in Entity, RegisterHere(n, e),
         ~UpdateInFlight(e), transit'[e] = NoNode,
         \A a \in Node : Owns(e, a)' => a = n
  PROVE  Settled(e)'
<1>1. Registers(n, e)
  BY RegisterEffect
<1>2. \A a, b \in Node : \A m :
        ~(m \in Msgs(a, b) /\ m.type = "updateHome" /\ m.id = e)
  BY DEF UpdateInFlight
<1>3. CASE Home[e] = n
  <2>1. Announces(n, e, n, net)
    BY <1>1, <1>3 DEF Registers
  <2>2. Dir(n, e)' = makeRec(n, n)
    BY <2>1 DEF Announces
  <2>3. Names(e, n)'
    BY <1>3, <2>2, AbsentRecord DEF Names
  <2>4. ResolveResponse(e, n).type # "updateHome"
    BY DEF ResolveResponse
  <2>5. \A a, b \in Node : \A m :
          m \in Msgs(a, b)' => m \in Msgs(a, b) \/ m = ResolveResponse(e, n)
    BY <2>1 DEF Announces, OnWire, Msgs
  <2>6. \A a, b \in Node : \A m :
          ~(m \in Msgs(a, b)' /\ m.type = "updateHome" /\ m.id = e)
    BY <1>2, <2>4, <2>5
  <2> QED BY <2>3, <2>6 DEF Settled
<1>4. CASE Home[e] # n
  <2>1. Sends(n, Home[e], UpdateHome(e, n))
    BY <1>1, <1>4 DEF Registers
  <2>2. UpdateHome(e, n).node = n
    BY DEF UpdateHome
  <2>3. \A a, b \in Node : \A m :
          m \in Msgs(a, b)' /\ m.type = "updateHome" /\ m.id = e => m.node = n
    BY <1>2, <2>1, <2>2 DEF Sends
  <2>4. UpdateHome(e, n) \in Msgs(n, Home[e])'
    BY <2>1, HomeType DEF Sends
  <2> QED BY <2>3, <2>4 DEF Settled
<1> QED BY <1>3, <1>4

\* Registering e leaves other entities settled.
LEMMA RegisterOthers ==
  ASSUME TypeInv, NEW n \in Node, NEW e \in Entity, RegisterHere(n, e),
         \A x \in Entity : x # e =>
           Settled(x) /\ transit'[x] = transit[x] /\ leaving'[x] = leaving[x]
  PROVE  \A x \in Entity : x # e => Settled(x)'
<1> SUFFICES ASSUME NEW x \in Entity, x # e PROVE Settled(x)'
  OBVIOUS
<1>1. Registers(n, e)
  BY RegisterEffect
<1>2. \A a \in Node : Owns(x, a)' => Owns(x, a)
  BY <1>1 DEF Registers, Owns
<1>3. Dir(Home[x], x)' = Dir(Home[x], x)
  BY <1>1, HomeType DEF Registers, Announces, SameDir
<1>4. \A a, b \in Node : \A y :
        y.type = "updateHome" /\ y.id = x =>
          (y \in Msgs(a, b)' <=> y \in Msgs(a, b))
  <2>1. ResolveResponse(e, n).id = e /\ UpdateHome(e, n).id = e
    BY DEF ResolveResponse, UpdateHome
  <2>2. \A a, b \in Node : OnWire(net, a, b) = Msgs(a, b)
    BY DEF OnWire, Msgs
  <2>3. \A a, b \in Node : \A y :
          /\ y \in Msgs(a, b) => y \in Msgs(a, b)'
          /\ y \in Msgs(a, b)' => \/ y \in Msgs(a, b)
                                 \/ y = ResolveResponse(e, n)
                                 \/ y = UpdateHome(e, n)
    BY <1>1, <2>2 DEF Registers, Announces, Sends
  <2> QED BY <2>1, <2>3
<1> QED BY <1>2, <1>3, <1>4, SettledFrame

\* PacedHome is inductive relative to Placement and OneHost: a move starts only
\* when the updateHome of the move before it has been handled.
LEMMA PacedHomeStep ==
  ASSUME TypeInv, Placement, OneHost, PacedHome, [Next]_vars
  PROVE  PacedHome'
<1> SUFFICES ASSUME Paced PROVE \A e \in Entity : Settled(e)'
  BY DEF PacedHome, Settled, Names, Dir, DirExists, UpdateInFlight
<1>0. \A e \in Entity : Settled(e)
  BY PacedHomeView
<1>n. NoNode \notin Node
  BY ConstantsAssumption
<1>t. /\ transit \in [Entity -> Node \cup {NoNode}]
      /\ leaving \in [Entity -> Node \cup {NoNode}]
  BY DEF TypeInv, TypeOK
<1>1. ASSUME SameHosts, UNCHANGED <<transit, leaving>>,
             \A x \in Entity : Dir(Home[x], x)' = Dir(Home[x], x),
             \A a, b \in Node : \A y :
               y.type = "updateHome" => (y \in Msgs(a, b)' <=> y \in Msgs(a, b))
      PROVE  \A x \in Entity : Settled(x)'
  <2> SUFFICES ASSUME NEW x \in Entity PROVE Settled(x)'
    OBVIOUS
  <2>1. \A a \in Node : Owns(x, a)' => Owns(x, a)
    BY <1>1 DEF SameHosts, Owns
  <2> QED BY <1>0, <1>1, <2>1, SettledFrame
<1>2. ASSUME NEW n \in Node, NEW e \in Entity, registerEntity(n, e)
      PROVE  \A x \in Entity : Settled(x)'
  <2>1. /\ RegisterHere(n, e) /\ Nowhere(e) /\ ~UpdateInFlight(e)
        /\ UNCHANGED <<transit, leaving>>
    BY <1>2 DEF registerEntity, MayMove
  <2>2. Registers(n, e)
    BY <2>1, RegisterEffect
  <2>3. \A a \in Node : Owns(e, a)' => a = n
    BY <2>1, <2>2 DEF Registers, Owns, Nowhere
  <2>4. transit'[e] = NoNode
    BY <2>1 DEF Nowhere
  <2>5. Settled(e)'
    BY <2>1, <2>3, <2>4, SettledRegister
  <2>6. \A x \in Entity : x # e => Settled(x)'
    BY <1>0, <2>1, RegisterOthers
  <2> QED BY <2>5, <2>6
<1>3. ASSUME NEW n \in Node, NEW e \in Entity, entityImmigrated(n, e)
      PROVE  \A x \in Entity : Settled(x)'
  <2>1. RegisterHere(n, e)
    BY <1>3 DEF entityImmigrated
  <2>2. \A a \in Node, x \in Entity :
          Lives(x, a)' <=> Lives(x, a) \/ (a = n /\ x = e)
    BY <2>1, RegisterEffect DEF Registers
  <2>3. CASE /\ transit[e] = n
             /\ transit' = [transit EXCEPT ![e] = NoNode]
             /\ UNCHANGED <<leaving, moves>>
    <3>1. ~UpdateInFlight(e)
      BY <1>0, <1>n, <2>3 DEF Settled, UpdateInFlight
    <3>2. \A a \in Node : Owns(e, a)' => a = n
      BY <1>n, <2>2, <2>3 DEF OneHost, Owns
    <3>3. /\ transit'[e] = NoNode
          /\ \A x \in Entity : x # e => transit'[x] = transit[x] /\ leaving'[x] = leaving[x]
      BY <1>t, <2>3
    <3>4. Settled(e)'
      BY <2>1, <3>1, <3>2, <3>3, SettledRegister
    <3>5. \A x \in Entity : x # e => Settled(x)'
      BY <1>0, <2>1, <3>3, RegisterOthers
    <3> QED BY <3>4, <3>5
  <2>4. ASSUME NEW from \in Node \ {n}, Lives(e, from), StartMove(e),
               leaving' = [leaving EXCEPT ![e] = from], UNCHANGED transit
        PROVE  \A x \in Entity : Settled(x)'
    <3>1. ~UpdateInFlight(e) /\ leaving[e] = NoNode
      BY <2>4 DEF StartMove, MayMove
    <3>2. \A a \in Node : Lives(e, a) => a = from
      BY <1>n, <2>4, <3>1 DEF OneHost
    <3>3. leaving'[e] = from
      BY <1>t, <2>4
    <3>4. \A a \in Node : Owns(e, a)' => a = n
      BY <2>2, <3>2, <3>3 DEF Owns
    <3>5. /\ transit'[e] = NoNode
          /\ \A x \in Entity : x # e => transit'[x] = transit[x] /\ leaving'[x] = leaving[x]
      BY <1>t, <2>4 DEF OneHost
    <3>6. Settled(e)'
      BY <2>1, <3>1, <3>4, <3>5, SettledRegister
    <3>7. \A x \in Entity : x # e => Settled(x)'
      BY <1>0, <2>1, <3>5, RegisterOthers
    <3> QED BY <3>6, <3>7
  <2> QED BY <1>3, <2>3, <2>4 DEF entityImmigrated
<1>4. ASSUME NEW n \in Node, NEW e \in Entity, NEW new_node \in Node,
             entityEmigrated(n, e, new_node)
      PROVE  \A x \in Entity : Settled(x)'
  <2>1. Emigrates(n, e, new_node)
    BY <1>4, EmigrateEffect
  <2>2. /\ Lives(e, n) /\ new_node # n
        /\ \A x \in Entity : x # e => transit'[x] = transit[x] /\ leaving'[x] = leaving[x]
    BY <1>4, <1>t DEF entityEmigrated
  <2>3. \A x \in Entity : x # e => Settled(x)'
    <3> SUFFICES ASSUME NEW x \in Entity, x # e PROVE Settled(x)'
      OBVIOUS
    <3>1. \A a \in Node : Owns(x, a)' => Owns(x, a)
      BY <2>1, <2>2 DEF Emigrates, Owns
    <3>2. Dir(Home[x], x)' = Dir(Home[x], x)
      BY <2>1, HomeType DEF Emigrates
    <3>3. \A a, b \in Node : \A y :
            y.type = "updateHome" /\ y.id = x =>
              (y \in Msgs(a, b)' <=> y \in Msgs(a, b))
      BY <2>1 DEF Emigrates
    <3> QED BY <1>0, <2>2, <3>1, <3>2, <3>3, SettledFrame
  <2>4. CASE /\ StartMove(e)
             /\ transit' = [transit EXCEPT ![e] = new_node]
             /\ UNCHANGED leaving
    <3>1. ~UpdateInFlight(e) /\ leaving[e] = NoNode
      BY <2>4 DEF StartMove, MayMove
    <3>2. \A a \in Node : ~Owns(e, a)'
      BY <1>n, <2>1, <2>2, <3>1 DEF OneHost, Owns, Emigrates
    <3>3. \A a, b \in Node : \A m :
            ~(m \in Msgs(a, b)' /\ m.type = "updateHome" /\ m.id = e)
      BY <2>1, <3>1 DEF Emigrates, UpdateInFlight
    <3>4. Settled(e)'
      BY <3>2, <3>3 DEF Settled
    <3> QED BY <2>3, <3>4
  <2>5. CASE /\ leaving[e] = n /\ Lives(e, new_node)
             /\ leaving' = [leaving EXCEPT ![e] = NoNode]
             /\ UNCHANGED <<transit, moves>>
    <3>1. \A a \in Node : Owns(e, a)' => a = new_node
      BY <2>1, <2>2, <2>5 DEF OneHost, Owns, Emigrates
    <3>2. Owns(e, new_node)
      BY <2>2, <2>5 DEF Owns
    <3>3. CASE n = Home[e]
      <4>1. Dir(n, e)' = makeRec(n, new_node)
        BY <2>1, <2>2, <3>3, PlacementView DEF Emigrates
      <4>2. Names(e, new_node)'
        BY <3>3, <4>1, AbsentRecord DEF Names
      <4>3. \A a \in Node :
              Owns(e, a)' => Names(e, a)' \/ UpdateHome(e, a) \in Msgs(a, Home[e])'
        BY <3>1, <4>2
      <4>4. \A a \in Node : Owns(e, a)' =>
              \A s, d \in Node : \A m :
                m \in Msgs(s, d)' /\ m.type = "updateHome" /\ m.id = e
                  => m.node = a
        BY <1>0, <2>1, <3>1, <3>2 DEF Settled, Emigrates
      <4>5. transit'[e] # NoNode =>
              \A s, d \in Node : \A m :
                ~(m \in Msgs(s, d)' /\ m.type = "updateHome" /\ m.id = e)
        BY <1>0, <2>1, <2>5 DEF Settled, Emigrates
      <4>6. Settled(e)'
        BY <4>3, <4>4, <4>5 DEF Settled
      <4> QED BY <2>3, <4>6
    <3>4. CASE n # Home[e]
      <4>1. Dir(Home[e], e)' = Dir(Home[e], e)
        BY <2>1, <3>4, HomeType DEF Emigrates
      <4>2. \A a \in Node : Owns(e, a)' => Owns(e, a)
        BY <3>1, <3>2
      <4>3. \A a, b \in Node : \A y :
              y.type = "updateHome" /\ y.id = e =>
                (y \in Msgs(a, b)' <=> y \in Msgs(a, b))
        BY <2>1 DEF Emigrates
      <4>4. Settled(e)'
        BY <1>0, <2>5, <4>1, <4>2, <4>3, SettledFrame
      <4> QED BY <2>3, <4>4
    <3> QED BY <3>3, <3>4
  <2> QED BY <1>4, <2>4, <2>5 DEF entityEmigrated
<1>5. ASSUME NEW n \in Node, NEW e \in Entity, unregisterEntity(n, e)
      PROVE  \A x \in Entity : Settled(x)'
  <2>1. Unregisters(n, e)
    BY <1>5, UnregisterEffect
  <2>2. Lives(e, n) /\ leaving[e] = NoNode /\ UNCHANGED <<transit, leaving>>
    BY <1>5 DEF unregisterEntity, callVars
  <2>3. /\ \A a \in Node : ~Owns(e, a)'
        /\ transit[e] = NoNode
    BY <1>n, <2>1, <2>2 DEF OneHost, Owns, Unregisters
  <2>4. Settled(e)'
    BY <2>2, <2>3 DEF Settled
  <2>5. \A x \in Entity : x # e => Settled(x)'
    <3> SUFFICES ASSUME NEW x \in Entity, x # e PROVE Settled(x)'
      OBVIOUS
    <3>1. \A a \in Node : Owns(x, a)' => Owns(x, a)
      BY <2>1, <2>2 DEF Unregisters, Owns
    <3>2. Dir(Home[x], x)' = Dir(Home[x], x)
      BY <2>1, HomeType DEF Unregisters
    <3>3. \A a, b \in Node : \A y :
            y.type = "updateHome" /\ y.id = x =>
              (y \in Msgs(a, b)' <=> y \in Msgs(a, b))
      BY <2>1 DEF Unregisters
    <3> QED BY <1>0, <2>2, <3>1, <3>2, <3>3, SettledFrame
  <2> QED BY <2>4, <2>5
<1>6. ASSUME NEW n \in Node, NEW e \in Entity, getLocation(n, e)
      PROVE  \A x \in Entity : Settled(x)'
  <2>1. AsksLocation(n, e)
    BY <1>6, GetLocationEffect
  <2>2. LocationRequest(e, n).type # "updateHome"
    BY DEF LocationRequest
  <2>3. \A a, b \in Node : \A y :
          y.type = "updateHome" => (y \in Msgs(a, b)' <=> y \in Msgs(a, b))
    BY <2>1, <2>2 DEF AsksLocation, Sends
  <2>4. /\ SameHosts /\ UNCHANGED <<transit, leaving>>
        /\ \A x \in Entity : Dir(Home[x], x)' = Dir(Home[x], x)
    BY <1>6, <2>1, HomeType DEF AsksLocation, SameDir, getLocation
  <2> QED BY <1>1, <2>3, <2>4
<1>7. ASSUME NEW n \in Node, NEW e \in Entity, entityExists(n, e)
      PROVE  \A x \in Entity : Settled(x)'
  <2>1. AsksExistence(n, e)
    BY <1>7, EntityExistsEffect
  <2>2. ExistsRequest(e, n).type # "updateHome"
    BY DEF ExistsRequest
  <2>3. \A a, b \in Node : \A y :
          y.type = "updateHome" => (y \in Msgs(a, b)' <=> y \in Msgs(a, b))
    BY <2>1, <2>2 DEF AsksExistence, Sends
  <2>4. /\ SameHosts /\ UNCHANGED <<transit, leaving>>
        /\ \A x \in Entity : Dir(Home[x], x)' = Dir(Home[x], x)
    BY <1>7, <2>1, HomeType DEF AsksExistence, SameDir, entityExists
  <2> QED BY <1>1, <2>3, <2>4
<1>8. ASSUME NEW n \in Node, clearCache(n)
      PROVE  \A x \in Entity : Settled(x)'
  <2>1. ClearsCache
    BY <1>8, ClearCacheEffect
  <2>2. /\ SameHosts /\ UNCHANGED <<transit, leaving>>
        /\ \A x \in Entity : Dir(Home[x], x)' = Dir(Home[x], x)
        /\ \A a, b \in Node : \A y :
             y.type = "updateHome" => (y \in Msgs(a, b)' <=> y \in Msgs(a, b))
    BY <1>8, <2>1, HomeType DEF ClearsCache, SameDir, clearCache
  <2> QED BY <1>1, <2>2
<1>9. ASSUME NEW s \in Node, NEW n \in Node, Poll(s, n)
      PROVE  \A x \in Entity : Settled(x)'
  <2>1. PICK m : /\ m \in Msgs(s, n) /\ RoutedMsg(s, n, m) /\ m.id \in Entity
                 /\ \/ HandlesUpdateHome(s, n, m)
                    \/ HandlesLocationRequest(s, n, m)
                    \/ HandlesResolveResponse(s, n, m)
                    \/ HandlesExistsRequest(s, n, m)
                    \/ HandlesExistsResponse(s, n, m)
    BY <1>9, PollEffect
  <2>2. UNCHANGED <<transit, leaving>> /\ SameHosts
    BY <1>9, <2>1, PollEffect
       DEF callVars, HandlesUpdateHome, HandlesLocationRequest,
           HandlesResolveResponse, HandlesExistsRequest, HandlesExistsResponse
  <2>3. CASE HandlesUpdateHome(s, n, m)
    <3>1. PICK q \in Channels :
            /\ Announces(n, m.id, m.node, q)
            /\ \A a, b \in Node : \A x :
                 x \in Msgs(a, b) <=>
                   x \in OnWire(q, a, b) \/ (a = s /\ b = n /\ x = m)
      BY <2>3 DEF HandlesUpdateHome
    <3>2. /\ m.type = "updateHome" /\ m.node \in Node /\ n = Home[m.id]
      BY <2>1, <2>3 DEF HandlesUpdateHome, RoutedMsg
    <3>3. \A a \in Node, x \in Entity :
            Dir(a, x)' = IF a = n /\ x = m.id THEN makeRec(n, m.node)
                                              ELSE Dir(a, x)
      BY <3>1 DEF Announces
    <3>4. makeRec(n, m.node) # Absent /\ makeRec(n, m.node).cur_node = m.node
      BY <3>2, AbsentRecord
    <3>5. ResolveResponse(m.id, m.node).type # "updateHome"
      BY DEF ResolveResponse
    <3>6. \A a, b \in Node : \A y :
            /\ y.type = "updateHome" /\ y \in Msgs(a, b)' => y \in Msgs(a, b)
            /\ y \in Msgs(a, b) => y \in Msgs(a, b)' \/ y = m
      BY <3>1, <3>5 DEF Announces
    <3>7. Settled(m.id)'
      <4>1. \A a \in Node : Owns(m.id, a)' => Owns(m.id, a)
        BY <2>1, <2>2 DEF SameHosts, Owns
      <4>2. \A a \in Node : Owns(m.id, a) => m.node = a
        BY <1>0, <2>1, <3>2 DEF Settled
      <4>3. Names(m.id, m.node)'
        BY <2>1, <3>2, <3>3, <3>4 DEF Names
      <4>4. \A a \in Node : Owns(m.id, a)' => Names(m.id, a)'
        BY <4>1, <4>2, <4>3
      <4>5. \A a \in Node : Owns(m.id, a)' =>
              \A c, d \in Node : \A y :
                y \in Msgs(c, d)' /\ y.type = "updateHome" /\ y.id = m.id
                  => y.node = a
        BY <1>0, <2>1, <3>6, <4>1 DEF Settled
      <4>6. transit'[m.id] # NoNode =>
              \A c, d \in Node : \A y :
                ~(y \in Msgs(c, d)' /\ y.type = "updateHome" /\ y.id = m.id)
        BY <1>0, <2>1, <2>2, <3>6 DEF Settled
      <4> QED BY <4>4, <4>5, <4>6 DEF Settled
    <3>8. \A x \in Entity : x # m.id => Settled(x)'
      <4> SUFFICES ASSUME NEW x \in Entity, x # m.id PROVE Settled(x)'
        OBVIOUS
      <4>1. \A a \in Node : Owns(x, a)' => Owns(x, a)
        BY <2>2 DEF SameHosts, Owns
      <4>2. Dir(Home[x], x)' = Dir(Home[x], x)
        BY <3>3, HomeType
      <4>3. \A a, b \in Node : \A y :
              y.type = "updateHome" /\ y.id = x =>
                (y \in Msgs(a, b)' <=> y \in Msgs(a, b))
        BY <3>6
      <4> QED BY <1>0, <2>2, <4>1, <4>2, <4>3, SettledFrame
    <3> QED BY <3>7, <3>8
  <2>4. CASE HandlesLocationRequest(s, n, m)
    <3>1. \A c : ResolveResponse(m.id, c).type # "updateHome"
      BY DEF ResolveResponse
    <3>2. \A a, b \in Node : \A y :
            y.type = "updateHome" => (y \in Msgs(a, b)' <=> y \in Msgs(a, b))
      BY <2>4, <3>1 DEF HandlesLocationRequest, Replies, Receives
    <3>3. \A x \in Entity : Dir(Home[x], x)' = Dir(Home[x], x)
      BY <2>4, HomeType DEF HandlesLocationRequest, SameDir
    <3> QED BY <1>1, <2>2, <3>2, <3>3
  <2>5. CASE HandlesResolveResponse(s, n, m)
    <3>1. n # Home[m.id]
      BY <2>1, <2>5 DEF HandlesResolveResponse, RoutedMsg
    <3>2. \A a, b \in Node : \A y :
            y.type = "updateHome" => (y \in Msgs(a, b)' <=> y \in Msgs(a, b))
      BY <2>5 DEF HandlesResolveResponse, Receives
    <3>3. \A x \in Entity : Dir(Home[x], x)' = Dir(Home[x], x)
      BY <2>5, <3>1, HomeType DEF HandlesResolveResponse
    <3> QED BY <1>1, <2>2, <3>2, <3>3
  <2>6. CASE HandlesExistsRequest(s, n, m)
    <3>1. \A a, b \in Node : \A y :
            y.type = "updateHome" => (y \in Msgs(a, b)' <=> y \in Msgs(a, b))
      BY <2>6 DEF HandlesExistsRequest, Replies
    <3>2. \A x \in Entity : Dir(Home[x], x)' = Dir(Home[x], x)
      BY <2>6, HomeType DEF HandlesExistsRequest, SameDir
    <3> QED BY <1>1, <2>2, <3>1, <3>2
  <2>7. CASE HandlesExistsResponse(s, n, m)
    <3>1. n # Home[m.id]
      BY <2>1, <2>7 DEF HandlesExistsResponse, RoutedMsg
    <3>2. \A a, b \in Node : \A y :
            y.type = "updateHome" => (y \in Msgs(a, b)' <=> y \in Msgs(a, b))
      BY <2>7 DEF HandlesExistsResponse, Receives
    <3>3. \A x \in Entity : Dir(Home[x], x)' = Dir(Home[x], x)
      BY <2>7, <3>1, HomeType DEF HandlesExistsResponse
    <3> QED BY <1>1, <2>2, <3>2, <3>3
  <2> QED BY <2>1, <2>3, <2>4, <2>5, <2>6, <2>7
<1>10. CASE UNCHANGED vars
  <2>1. /\ SameHosts /\ UNCHANGED <<transit, leaving>>
        /\ \A x \in Entity : Dir(Home[x], x)' = Dir(Home[x], x)
        /\ \A a, b \in Node : \A y :
             y.type = "updateHome" => (y \in Msgs(a, b)' <=> y \in Msgs(a, b))
    BY <1>10 DEF vars, coordVars, callVars, SameHosts, Lives, Dir, Msgs
  <2> QED BY <1>1, <2>1
<1> QED BY <1>2, <1>3, <1>4, <1>5, <1>6, <1>7, <1>8, <1>9, <1>10 DEF Next, Call

\* The invariants about hosts and what their homes know.
Hosting == OneHost /\ HomeLearns /\ PacedHome

\* Hosting holds of freshly constructed coordinators.
LEMMA HostingInit == Init => Hosting
<1> SUFFICES ASSUME Init PROVE Hosting
  OBVIOUS
<1>1. \A n \in Node, e \in Entity : ~Lives(e, n)
  BY DEF Init, Lives
<1>2. \A e \in Entity : transit[e] = NoNode
  BY DEF Init
<1> QED BY <1>1, <1>2 DEF Hosting, OneHost, HomeLearns, PacedHome, Owns

\* Placement and Hosting hold in every reachable state.
THEOREM HostingCorrect == Spec => [](Placement /\ Hosting)
<1>1. Init => Placement /\ Hosting
  BY PlacementInit, HostingInit
<1>2. TypeInv /\ Placement /\ Hosting /\ [Next]_vars => Placement' /\ Hosting'
  BY PlacementStep, OneHostStep, HomeLearnsStep, PacedHomeStep DEF Hosting
<1>3. Spec => []TypeInv
  BY TypeCorrect DEF TypeInv
<1> QED BY <1>1, <1>2, <1>3, PTL DEF Spec

\* Once no updateHome for a living entity is in flight its home knows it, so
\* "unknown here means it does not exist" (entityExists) is a sound answer.
THEOREM HomesKnow == Spec => []HomeKnows
<1>1. HomeLearns => HomeKnows
  <2> SUFFICES ASSUME HomeLearns, NEW n \in Node, NEW e \in Entity, Lives(e, n),
                      ~UpdateInFlight(e)
               PROVE  isCached(Home[e], e)
    BY DEF HomeKnows
  <2>1. UpdateHome(e, n).type = "updateHome" /\ UpdateHome(e, n).id = e
    BY DEF UpdateHome
  <2>2. UpdateHome(e, n) \notin Msgs(n, Home[e])
    BY <2>1, HomeType DEF UpdateInFlight
  <2>3. DirExists(recs_[Home[e]].directory, e)
    BY <2>2 DEF HomeLearns
  <2> QED BY <2>3 DEF isCached, LookupExists
<1>2. Hosting => HomeKnows
  BY <1>1 DEF Hosting
<1> QED BY <1>2, HostingCorrect, PTL

\* With paced moves, once no updateHome is in flight the home's directory names
\* the owner of every living entity (announceLocation, entityEmigrated).
THEOREM HomesAuthoritative == Spec => []HomeAuthoritative
<1>1. PacedHome => HomeAuthoritative
  <2> SUFFICES ASSUME PacedHome, Paced, NEW n \in Node, NEW e \in Entity,
                      Owns(e, n), ~UpdateInFlight(e)
               PROVE  /\ DirExists(recs_[Home[e]].directory, e)
                      /\ recs_[Home[e]].directory[e].cur_node = n
    BY DEF HomeAuthoritative, HomeReflectsOwner
  <2>1. UpdateHome(e, n).type = "updateHome" /\ UpdateHome(e, n).id = e
    BY DEF UpdateHome
  <2>2. UpdateHome(e, n) \notin Msgs(n, Home[e])
    BY <2>1, HomeType DEF UpdateInFlight
  <2> QED BY <2>2 DEF PacedHome
<1>2. Hosting => HomeAuthoritative
  BY <1>1 DEF Hosting
<1> QED BY <1>2, HostingCorrect, PTL

\* No step but unregisterEntity on the home removes a directory entry, and then
\* the entity is gone from the system.
THEOREM DirectoryIsPermanent == Spec => DirectoryPermanent
<1> DEFINE P == \A n \in Node, e \in Entity :
                  DirExists(recs_[n].directory, e)
                  /\ ~DirExists(recs_[n].directory, e)'
                    => Lives(e, n) /\ Nowhere(e)'
<1>1. ASSUME TypeInv, Placement, Hosting, [Next]_vars
      PROVE  P \/ UNCHANGED vars
  <2> SUFFICES ASSUME Next, NEW a \in Node, NEW x \in Entity,
                      Dir(a, x) # Absent, Dir(a, x)' = Absent
               PROVE  Lives(x, a) /\ Nowhere(x)'
    BY <1>1 DEF Dir, DirExists
  <2>0. \A n, node \in Node : makeRec(n, node) # Absent
    BY AbsentRecord
  <2>1. ASSUME NEW n \in Node, NEW e \in Entity, unregisterEntity(n, e)
        PROVE  Lives(x, a) /\ Nowhere(x)'
    <3>1. Unregisters(n, e)
      BY <1>1, <2>1, UnregisterEffect
    <3>2. a = n /\ x = e
      BY <3>1 DEF Unregisters
    <3>3. Lives(e, n) /\ leaving[e] = NoNode /\ transit' = transit
      BY <2>1 DEF unregisterEntity, callVars
    <3>4. \A b \in Node : ~Lives(e, b)'
      BY <1>1, <3>1, <3>3, ConstantsAssumption DEF Hosting, OneHost, Unregisters
    <3>5. transit'[e] = NoNode
      BY <1>1, <3>3 DEF Hosting, OneHost
    <3> QED BY <3>2, <3>3, <3>4, <3>5 DEF Nowhere
  <2>2. ASSUME NEW n \in Node, NEW e \in Entity, RegisterHere(n, e)
        PROVE  FALSE
    <3>1. Registers(n, e)
      BY <1>1, <2>2, RegisterEffect
    <3> QED BY <2>0, <3>1 DEF Registers, Announces, SameDir
  <2>3. ASSUME NEW n \in Node, NEW e \in Entity, NEW new_node \in Node,
               entityEmigrated(n, e, new_node)
        PROVE  FALSE
    <3>1. Emigrates(n, e, new_node)
      BY <1>1, <2>3, EmigrateEffect
    <3> QED BY <2>0, <3>1 DEF Emigrates
  <2>4. ASSUME NEW n \in Node, NEW e \in Entity,
               getLocation(n, e) \/ entityExists(n, e)
        PROVE  FALSE
    <3>1. SameDir
      BY <1>1, <2>4, GetLocationEffect, EntityExistsEffect
         DEF AsksLocation, AsksExistence
    <3> QED BY <3>1 DEF SameDir
  <2>5. ASSUME NEW n \in Node, clearCache(n)
        PROVE  FALSE
    BY <1>1, <2>5, ClearCacheEffect DEF ClearsCache, SameDir
  <2>6. ASSUME NEW s \in Node, NEW n \in Node, Poll(s, n)
        PROVE  FALSE
    <3>1. PICK m : /\ m \in Msgs(s, n) /\ RoutedMsg(s, n, m) /\ m.id \in Entity
                   /\ \/ HandlesUpdateHome(s, n, m)
                      \/ HandlesLocationRequest(s, n, m)
                      \/ HandlesResolveResponse(s, n, m)
                      \/ HandlesExistsRequest(s, n, m)
                      \/ HandlesExistsResponse(s, n, m)
      BY <1>1, <2>6, PollEffect
    <3>2. CASE HandlesUpdateHome(s, n, m)
      BY <2>0, <3>2 DEF HandlesUpdateHome, Announces
    <3>3. CASE HandlesResolveResponse(s, n, m)
      BY <2>0, <3>3 DEF HandlesResolveResponse
    <3>4. CASE HandlesExistsResponse(s, n, m)
      BY <3>4 DEF HandlesExistsResponse
    <3>5. CASE HandlesLocationRequest(s, n, m) \/ HandlesExistsRequest(s, n, m)
      BY <3>5 DEF HandlesLocationRequest, HandlesExistsRequest, SameDir
    <3> QED BY <3>1, <3>2, <3>3, <3>4, <3>5
  <2> QED BY <2>1, <2>2, <2>3, <2>4, <2>5, <2>6
          DEF Next, Call, registerEntity, entityImmigrated
<1>2. TypeInv /\ Placement /\ Hosting /\ [Next]_vars => [P]_vars
  BY <1>1
<1>3. Spec => []TypeInv
  BY TypeCorrect DEF TypeInv
<1> QED BY <1>2, <1>3, HostingCorrect, PTL DEF Spec, DirectoryPermanent

=============================================================================
