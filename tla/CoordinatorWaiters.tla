------------------------ MODULE CoordinatorWaiters -------------------------
(***************************************************************************)
(* No callback is forgotten, for every instance: a waiting getLocation or  *)
(* entityExists is always represented by a request, a buffered request or  *)
(* an answer, whatever the ranks do in between.  With CoordinatorSafety    *)
(* this completes the proof that IndInv is an invariant.                   *)
(***************************************************************************)
EXTENDS CoordinatorSafety

\* The home of e has a record of it.
HomeHas(e) == Dir(Home[e], e) # Absent

\* On the home of an entity, isCached depends on the directory alone.
LEMMA HomeHasIsCached ==
  ASSUME Placement
  PROVE  \A e \in Entity : isCached(Home[e], e) <=> HomeHas(e)
<1>1. \A e \in Entity : ~Cached(Home[e], e)
  BY HomeType, PlacementView
<1>2. \A e \in Entity : Lives(e, Home[e]) => HomeHas(e)
  BY PlacementView DEF HomeHas
<1>3. \A e \in Entity : isCached(Home[e], e) <=>
        Lives(e, Home[e]) \/ HomeHas(e) \/ Cached(Home[e], e)
  BY DEF isCached, LookupExists, DirExists, HomeHas, Dir, Cached
<1> QED BY <1>1, <1>2, <1>3

\* What represents the waiting getLocation callbacks of rank n for e.
Tracked(n, e) ==
  \/ n = Home[e] /\ ~HomeHas(e)
  \/ LocationRequest(e, n) \in Msgs(n, Home[e])
  \/ Buffered(Home[e], e, n) /\ ~HomeHas(e)
  \/ \E m : m \in Msgs(Home[e], n) /\ m.type = "resolveResponse" /\ m.id = e

\* NoForgottenWaiter in terms of Tracked.
LEMMA WaiterView ==
  ASSUME Placement
  PROVE  NoForgottenWaiter <=>
           \A n \in Node, e \in Entity : Waits(n, e) => Tracked(n, e)
<1>1. \A e \in Entity : isCached(Home[e], e) <=> HomeHas(e)
  BY HomeHasIsCached
<1> QED BY <1>1 DEF NoForgottenWaiter, Tracked, Waits, Buffered

\* A waiter stays tracked over a step that gives its home no new record, keeps
\* the buffered requests and drops neither requests nor responses.
LEMMA TrackedFrame ==
  ASSUME NEW n \in Node, NEW e \in Entity, Tracked(n, e),
         HomeHas(e)' => HomeHas(e),
         Buffered(Home[e], e, n) => Buffered(Home[e], e, n)',
         \A a, b \in Node : \A y :
           /\ y \in Msgs(a, b)
           /\ y.type \in {"locationRequest", "resolveResponse"}
           => y \in Msgs(a, b)'
  PROVE  Tracked(n, e)'
<1>1. LocationRequest(e, n).type = "locationRequest"
  BY DEF LocationRequest
<1> QED BY <1>1, HomeType DEF Tracked

\* announceLocation answers every buffered request for e, so its waiters stay
\* tracked although the buffer is emptied.
LEMMA TrackedAnnounce ==
  ASSUME NEW n \in Node, NEW e \in Entity, Home[e] = n, NEW node \in Node, NEW q,
         Announces(n, e, node, q),
         \A a, b \in Node : \A y :
           /\ y \in Msgs(a, b)
           /\ y.type \in {"locationRequest", "resolveResponse"}
           => y \in OnWire(q, a, b),
         \A a \in Node, x \in Entity : Waits(a, x) => Tracked(a, x)
  PROVE  \A a \in Node, x \in Entity : Waits(a, x)' => Tracked(a, x)'
<1> SUFFICES ASSUME NEW a \in Node, NEW x \in Entity, Waits(a, x)'
             PROVE  Tracked(a, x)'
  OBVIOUS
<1>1. Waits(a, x) /\ ~(a = n /\ x = e)
  BY DEF Announces
<1>2. Tracked(a, x)
  BY <1>1
<1>3. \A c, b \in Node : \A y :
        /\ y \in Msgs(c, b)
        /\ y.type \in {"locationRequest", "resolveResponse"}
        => y \in Msgs(c, b)'
  BY DEF Announces
<1>4. CASE x # e
  <2>1. HomeHas(x)' => HomeHas(x)
    BY <1>4, HomeType DEF Announces, HomeHas
  <2>2. Buffered(Home[x], x, a) => Buffered(Home[x], x, a)'
    BY <1>4, HomeType DEF Announces
  <2> QED BY <1>2, <1>3, <2>1, <2>2, TrackedFrame
<1>5. CASE x = e
  <2>1. LocationRequest(e, a).type = "locationRequest"
    BY DEF LocationRequest
  <2>2. LocationRequest(e, a) \in Msgs(a, n) => LocationRequest(e, a) \in Msgs(a, n)'
    BY <1>3, <2>1
  <2>3. CASE Buffered(n, e, a)
    <3>1. ResolveResponse(e, node) \in Msgs(n, a)'
      BY <2>3 DEF Announces
    <3>2. /\ ResolveResponse(e, node).type = "resolveResponse"
          /\ ResolveResponse(e, node).id = e
      BY DEF ResolveResponse
    <3> QED BY <1>5, <3>1, <3>2 DEF Tracked
  <2> QED BY <1>1, <1>2, <1>3, <1>5, <2>2, <2>3 DEF Tracked
<1> QED BY <1>4, <1>5

\* NoForgottenWaiter is inductive relative to Placement.
LEMMA WaiterStep ==
  ASSUME TypeInv, Placement, Placement', NoForgottenWaiter, [Next]_vars
  PROVE  NoForgottenWaiter'
<1>0. \A a \in Node, x \in Entity : Waits(a, x) => Tracked(a, x)
  BY WaiterView
<1>v. (\A a \in Node, x \in Entity : Waits(a, x)' => Tracked(a, x)')
        => NoForgottenWaiter'
  <2>1. \A e \in Entity : isCached(Home[e], e)' <=> HomeHas(e)'
    <3>1. \A e \in Entity : ~Cached(Home[e], e)'
      BY HomeType DEF Placement, HomeInDirectory, Cached
    <3>2. \A e \in Entity : Lives(e, Home[e])' => HomeHas(e)'
      BY DEF Placement, LocalInDirectory, HomeHas, Dir, DirExists
    <3>3. \A e \in Entity : isCached(Home[e], e)' <=>
            Lives(e, Home[e])' \/ HomeHas(e)' \/ Cached(Home[e], e)'
      BY DEF isCached, LookupExists, DirExists, HomeHas, Dir, Cached
    <3> QED BY <3>1, <3>2, <3>3
  <2> QED BY <2>1 DEF NoForgottenWaiter, Tracked, Waits, Buffered
<1> SUFFICES \A a \in Node, x \in Entity : Waits(a, x)' => Tracked(a, x)'
  BY <1>v
<1>1. ASSUME \A a \in Node, x \in Entity : Waits(a, x)' => Waits(a, x),
             \A a \in Node, x \in Entity : Dir(a, x)' # Absent => Dir(a, x) # Absent,
             SameAskers,
             \A a, b \in Node : \A y :
               /\ y \in Msgs(a, b)
               /\ y.type \in {"locationRequest", "resolveResponse"}
               => y \in Msgs(a, b)'
      PROVE  \A a \in Node, x \in Entity : Waits(a, x)' => Tracked(a, x)'
  <2> SUFFICES ASSUME NEW a \in Node, NEW x \in Entity, Waits(a, x)'
               PROVE  Tracked(a, x)'
    OBVIOUS
  <2>1. HomeHas(x)' => HomeHas(x)
    BY <1>1, HomeType DEF HomeHas
  <2>2. Buffered(Home[x], x, a) => Buffered(Home[x], x, a)'
    BY <1>1, HomeType DEF SameAskers
  <2> QED BY <1>0, <1>1, <2>1, <2>2, TrackedFrame
<1>2. ASSUME NEW n \in Node, NEW e \in Entity, RegisterHere(n, e)
      PROVE  \A a \in Node, x \in Entity : Waits(a, x)' => Tracked(a, x)'
  <2>1. Registers(n, e)
    BY <1>2, RegisterEffect
  <2>2. CASE Home[e] = n
    <3>1. Announces(n, e, n, net)
      BY <2>1, <2>2 DEF Registers
    <3>2. \A a, b \in Node : \A y :
            /\ y \in Msgs(a, b)
            /\ y.type \in {"locationRequest", "resolveResponse"}
            => y \in OnWire(net, a, b)
      BY DEF Msgs, OnWire
    <3> QED BY <1>0, <2>2, <3>1, <3>2, TrackedAnnounce
  <2>3. CASE Home[e] # n
    BY <1>1, <2>1, <2>3 DEF Registers, SameDir, SameWaits, Sends
  <2> QED BY <2>2, <2>3
<1>3. ASSUME NEW n \in Node, NEW e \in Entity, NEW new_node \in Node,
             entityEmigrated(n, e, new_node)
      PROVE  \A a \in Node, x \in Entity : Waits(a, x)' => Tracked(a, x)'
  <2>1. Emigrates(n, e, new_node)
    BY <1>3, EmigrateEffect
  <2> QED BY <1>1, <2>1 DEF Emigrates, SameWaits
<1>4. ASSUME NEW n \in Node, NEW e \in Entity, unregisterEntity(n, e)
      PROVE  \A a \in Node, x \in Entity : Waits(a, x)' => Tracked(a, x)'
  <2>1. Unregisters(n, e)
    BY <1>4, UnregisterEffect
  <2> QED BY <1>1, <2>1 DEF Unregisters, SameWaits
<1>5. ASSUME NEW n \in Node, NEW e \in Entity, getLocation(n, e)
      PROVE  \A a \in Node, x \in Entity : Waits(a, x)' => Tracked(a, x)'
  <2>1. AsksLocation(n, e)
    BY <1>5, GetLocationEffect
  <2>2. \A a, b \in Node : \A y : y \in Msgs(a, b) => y \in Msgs(a, b)'
    BY <2>1 DEF AsksLocation, Sends
  <2>3. \A a \in Node, x \in Entity : Tracked(a, x) => Tracked(a, x)'
    <3> SUFFICES ASSUME NEW a \in Node, NEW x \in Entity, Tracked(a, x)
                 PROVE  Tracked(a, x)'
      OBVIOUS
    <3>1. HomeHas(x)' => HomeHas(x)
      BY <2>1, HomeType DEF HomeHas, AsksLocation, SameDir
    <3>2. Buffered(Home[x], x, a) => Buffered(Home[x], x, a)'
      BY <2>1, HomeType DEF AsksLocation, SameAskers
    <3> QED BY <2>2, <3>1, <3>2, TrackedFrame
  <2>4. ASSUME ~isCached(n, e), ~Waits(n, e)
        PROVE  Tracked(n, e)'
    <3>1. CASE Home[e] = n
      <4>1. ~HomeHas(e)
        BY <2>4, <3>1, HomeHasIsCached
      <4>2. ~HomeHas(e)'
        BY <2>1, <4>1, HomeType DEF HomeHas, AsksLocation, SameDir
      <4> QED BY <3>1, <4>2 DEF Tracked
    <3>2. CASE Home[e] # n
      <4>1. LocationRequest(e, n) \in Msgs(n, Home[e])'
        BY <2>1, <2>4, <3>2, HomeType DEF AsksLocation, Sends
      <4> QED BY <4>1 DEF Tracked
    <3> QED BY <3>1, <3>2
  <2> QED BY <1>0, <2>1, <2>3, <2>4 DEF AsksLocation
<1>6. ASSUME NEW n \in Node, NEW e \in Entity, entityExists(n, e)
      PROVE  \A a \in Node, x \in Entity : Waits(a, x)' => Tracked(a, x)'
  <2>1. AsksExistence(n, e)
    BY <1>6, EntityExistsEffect
  <2> QED BY <1>1, <2>1 DEF AsksExistence, SameDir, SameWaits, Sends
<1>7. ASSUME NEW n \in Node, clearCache(n)
      PROVE  \A a \in Node, x \in Entity : Waits(a, x)' => Tracked(a, x)'
  BY <1>1, <1>7, ClearCacheEffect DEF ClearsCache, SameDir, SameWaits
<1>8. ASSUME NEW s \in Node, NEW n \in Node, Poll(s, n)
      PROVE  \A a \in Node, x \in Entity : Waits(a, x)' => Tracked(a, x)'
  <2>1. PICK m : /\ m \in Msgs(s, n) /\ RoutedMsg(s, n, m) /\ m.id \in Entity
                 /\ \/ HandlesUpdateHome(s, n, m)
                    \/ HandlesLocationRequest(s, n, m)
                    \/ HandlesResolveResponse(s, n, m)
                    \/ HandlesExistsRequest(s, n, m)
                    \/ HandlesExistsResponse(s, n, m)
    BY <1>8, PollEffect
  <2>2. CASE HandlesUpdateHome(s, n, m)
    <3>1. PICK q \in Channels :
            /\ Announces(n, m.id, m.node, q)
            /\ \A a, b \in Node : \A x :
                 x \in Msgs(a, b) <=>
                   x \in OnWire(q, a, b) \/ (a = s /\ b = n /\ x = m)
      BY <2>2 DEF HandlesUpdateHome
    <3>2. /\ m.type = "updateHome" /\ m.node \in Node /\ n = Home[m.id]
      BY <2>1, <2>2 DEF HandlesUpdateHome, RoutedMsg
    <3>3. \A a, b \in Node : \A y :
            /\ y \in Msgs(a, b)
            /\ y.type \in {"locationRequest", "resolveResponse"}
            => y \in OnWire(q, a, b)
      BY <3>1, <3>2
    <3> QED BY <1>0, <2>1, <3>1, <3>2, <3>3, TrackedAnnounce
  <2>3. CASE HandlesLocationRequest(s, n, m)
    <3> SUFFICES ASSUME NEW a \in Node, NEW x \in Entity, Waits(a, x)'
                 PROVE  Tracked(a, x)'
      OBVIOUS
    <3>1. /\ n = Home[m.id] /\ m.node = s
          /\ m.type = "locationRequest" /\ SameDir /\ SameWaits
      BY <2>1, <2>3 DEF HandlesLocationRequest, RoutedMsg
    <3>2. Tracked(a, x)
      BY <1>0, <3>1 DEF SameWaits
    <3>3. HomeHas(x)' <=> HomeHas(x)
      BY <3>1, HomeType DEF HomeHas, SameDir
    <3>4. \A c, b \in Node : \A y :
            y \in Msgs(c, b) => y \in Msgs(c, b)' \/ (c = s /\ b = n /\ y = m)
      BY <2>3 DEF HandlesLocationRequest, Replies, Receives
    <3>5. Buffered(Home[x], x, a) => Buffered(Home[x], x, a)'
      BY <2>3, HomeType DEF HandlesLocationRequest
    <3>6. CASE a = s /\ x = m.id
      <4>1. CASE isCached(n, m.id)
        <5>1. PICK node \in Node :
                Replies(s, n, m, m.node, ResolveResponse(m.id, node))
          BY <2>3, <4>1 DEF HandlesLocationRequest
        <5>2. ResolveResponse(m.id, node) \in Msgs(Home[x], a)'
          BY <3>1, <3>6, <5>1 DEF Replies
        <5>3. /\ ResolveResponse(m.id, node).type = "resolveResponse"
              /\ ResolveResponse(m.id, node).id = x
          BY <3>6 DEF ResolveResponse
        <5> QED BY <5>2, <5>3 DEF Tracked
      <4>2. CASE ~isCached(n, m.id)
        <5>1. Buffered(Home[x], x, a)'
          BY <2>1, <2>3, <3>1, <3>6, <4>2 DEF HandlesLocationRequest
        <5>2. ~HomeHas(x)
          BY <3>1, <3>6, <4>2, HomeHasIsCached
        <5> QED BY <3>3, <5>1, <5>2 DEF Tracked
      <4> QED BY <4>1, <4>2
    <3>7. CASE ~(a = s /\ x = m.id)
      <4>1. /\ LocationRequest(x, a).type = "locationRequest"
            /\ LocationRequest(x, a).id = x
        BY DEF LocationRequest
      <4>2. LocationRequest(x, a) \in Msgs(a, Home[x])
              => LocationRequest(x, a) \in Msgs(a, Home[x])'
        BY <3>4, <3>7, <4>1, HomeType
      <4>3. \A y : y \in Msgs(Home[x], a) /\ y.type = "resolveResponse" /\ y.id = x
                     => y \in Msgs(Home[x], a)'
        BY <3>1, <3>4, HomeType
      <4> QED BY <3>2, <3>3, <3>5, <4>2, <4>3 DEF Tracked
    <3> QED BY <3>6, <3>7
  <2>4. CASE HandlesResolveResponse(s, n, m)
    <3> SUFFICES ASSUME NEW a \in Node, NEW x \in Entity, Waits(a, x)'
                 PROVE  Tracked(a, x)'
      OBVIOUS
    <3>1. /\ n # Home[m.id] /\ m.type = "resolveResponse" /\ SameAskers
      BY <2>1, <2>4 DEF HandlesResolveResponse, RoutedMsg
    <3>2. Waits(a, x) /\ ~(a = n /\ x = m.id)
      BY <2>4 DEF HandlesResolveResponse
    <3>3. Tracked(a, x)
      BY <1>0, <3>2
    <3>4. HomeHas(x)' <=> HomeHas(x)
      BY <2>4, <3>1, HomeType DEF HomeHas, HandlesResolveResponse
    <3>5. Buffered(Home[x], x, a) => Buffered(Home[x], x, a)'
      BY <3>1, HomeType DEF SameAskers
    <3>6. \A c, b \in Node : \A y :
            y \in Msgs(c, b) => y \in Msgs(c, b)' \/ (c = s /\ b = n /\ y = m)
      BY <2>4 DEF HandlesResolveResponse, Receives
    <3>7. LocationRequest(x, a).type = "locationRequest"
      BY DEF LocationRequest
    <3>8. LocationRequest(x, a) \in Msgs(a, Home[x])
            => LocationRequest(x, a) \in Msgs(a, Home[x])'
      BY <3>1, <3>6, <3>7, HomeType
    <3>9. \A y : y \in Msgs(Home[x], a) /\ y.type = "resolveResponse" /\ y.id = x
                   => y \in Msgs(Home[x], a)'
      BY <3>2, <3>6, HomeType
    <3> QED BY <3>3, <3>4, <3>5, <3>8, <3>9 DEF Tracked
  <2>5. CASE HandlesExistsRequest(s, n, m)
    <3>1. \A a, b \in Node : \A y :
            /\ y \in Msgs(a, b)
            /\ y.type \in {"locationRequest", "resolveResponse"}
            => y \in Msgs(a, b)'
      BY <2>5 DEF HandlesExistsRequest, Replies
    <3>2. /\ \A a \in Node, x \in Entity : Waits(a, x)' => Waits(a, x)
          /\ \A a \in Node, x \in Entity :
               Dir(a, x)' # Absent => Dir(a, x) # Absent
          /\ SameAskers
      BY <2>5 DEF HandlesExistsRequest, SameDir, SameWaits
    <3> QED BY <1>1, <3>1, <3>2
  <2>6. CASE HandlesExistsResponse(s, n, m)
    <3>1. \A a, b \in Node : \A y :
            /\ y \in Msgs(a, b)
            /\ y.type \in {"locationRequest", "resolveResponse"}
            => y \in Msgs(a, b)'
      BY <2>6 DEF HandlesExistsResponse, Receives
    <3>2. /\ \A a \in Node, x \in Entity : Waits(a, x)' => Waits(a, x)
          /\ \A a \in Node, x \in Entity :
               Dir(a, x)' # Absent => Dir(a, x) # Absent
          /\ SameAskers
      BY <2>6 DEF HandlesExistsResponse, SameWaits
    <3> QED BY <1>1, <3>1, <3>2
  <2> QED BY <2>1, <2>2, <2>3, <2>4, <2>5, <2>6
<1>9. CASE UNCHANGED vars
  <2>1. /\ SameWaits /\ SameDir /\ SameAskers
        /\ \A a, b \in Node : Msgs(a, b)' = Msgs(a, b)
    BY <1>9 DEF vars, coordVars, SameWaits, SameDir, SameAskers, Waits, Dir,
                Asked, Buffered, Msgs
  <2> QED BY <1>1, <2>1 DEF SameWaits, SameDir
<1> QED BY <1>2, <1>3, <1>4, <1>5, <1>6, <1>7, <1>8, <1>9
        DEF Next, Call, registerEntity, entityImmigrated

\* What represents the waiting entityExists callbacks of rank n for e.
ExistsTracked(n, e) ==
  \/ ExistsRequest(e, n) \in Msgs(n, Home[e])
  \/ \E m : m \in Msgs(Home[e], n) /\ m.type = "existsResponse" /\ m.id = e

\* NoForgottenExists is inductive relative to Placement.
LEMMA ExistsStep ==
  ASSUME TypeInv, Placement, NoForgottenExists, [Next]_vars
  PROVE  NoForgottenExists'
<1>0. \A a \in Node, x \in Entity : WaitsExists(a, x) => ExistsTracked(a, x)
  BY DEF NoForgottenExists, WaitsExists, ExistsTracked
<1> SUFFICES \A a \in Node, x \in Entity :
               WaitsExists(a, x)' => ExistsTracked(a, x)'
  BY DEF NoForgottenExists, WaitsExists, ExistsTracked
<1>r. \A x, a : /\ ExistsRequest(x, a).type = "existsRequest"
                /\ ExistsRequest(x, a).id = x
  BY DEF ExistsRequest
<1>1. ASSUME SameExists,
             \A a, b \in Node : \A y :
               /\ y \in Msgs(a, b)
               /\ y.type \in {"existsRequest", "existsResponse"}
               => y \in Msgs(a, b)'
      PROVE  \A a \in Node, x \in Entity :
               WaitsExists(a, x)' => ExistsTracked(a, x)'
  <2>1. \A a \in Node, x \in Entity : ExistsTracked(a, x) => ExistsTracked(a, x)'
    BY <1>1, <1>r, HomeType DEF ExistsTracked
  <2> QED BY <1>0, <1>1, <2>1 DEF SameExists
<1>2. ASSUME NEW n \in Node, NEW e \in Entity, RegisterHere(n, e)
      PROVE  \A a \in Node, x \in Entity :
               WaitsExists(a, x)' => ExistsTracked(a, x)'
  <2>1. Registers(n, e)
    BY <1>2, RegisterEffect
  <2>2. \A a, b \in Node : OnWire(net, a, b) = Msgs(a, b)
    BY DEF OnWire, Msgs
  <2>3. \A a, b \in Node : \A y : y \in Msgs(a, b) => y \in Msgs(a, b)'
    BY <2>1, <2>2 DEF Registers, Announces, Sends
  <2> QED BY <1>1, <2>1, <2>3 DEF Registers
<1>3. ASSUME NEW n \in Node, NEW e \in Entity, NEW new_node \in Node,
             entityEmigrated(n, e, new_node)
      PROVE  \A a \in Node, x \in Entity :
               WaitsExists(a, x)' => ExistsTracked(a, x)'
  BY <1>1, <1>3, EmigrateEffect DEF Emigrates
<1>4. ASSUME NEW n \in Node, NEW e \in Entity, unregisterEntity(n, e)
      PROVE  \A a \in Node, x \in Entity :
               WaitsExists(a, x)' => ExistsTracked(a, x)'
  BY <1>1, <1>4, UnregisterEffect DEF Unregisters
<1>5. ASSUME NEW n \in Node, NEW e \in Entity, getLocation(n, e)
      PROVE  \A a \in Node, x \in Entity :
               WaitsExists(a, x)' => ExistsTracked(a, x)'
  BY <1>1, <1>5, GetLocationEffect DEF AsksLocation, Sends
<1>6. ASSUME NEW n \in Node, NEW e \in Entity, entityExists(n, e)
      PROVE  \A a \in Node, x \in Entity :
               WaitsExists(a, x)' => ExistsTracked(a, x)'
  <2>1. AsksExistence(n, e)
    BY <1>6, EntityExistsEffect
  <2>2. \A a, b \in Node : \A y : y \in Msgs(a, b) => y \in Msgs(a, b)'
    BY <2>1 DEF AsksExistence, Sends
  <2>3. \A a \in Node, x \in Entity : ExistsTracked(a, x) => ExistsTracked(a, x)'
    BY <2>2, HomeType DEF ExistsTracked
  <2>4. ASSUME ~isCached(n, e), Home[e] # n, ~WaitsExists(n, e)
        PROVE  ExistsTracked(n, e)'
    BY <2>1, <2>4, HomeType DEF AsksExistence, Sends, ExistsTracked
  <2> QED BY <1>0, <2>1, <2>3, <2>4 DEF AsksExistence
<1>7. ASSUME NEW n \in Node, clearCache(n)
      PROVE  \A a \in Node, x \in Entity :
               WaitsExists(a, x)' => ExistsTracked(a, x)'
  BY <1>1, <1>7, ClearCacheEffect DEF ClearsCache
<1>8. ASSUME NEW s \in Node, NEW n \in Node, Poll(s, n)
      PROVE  \A a \in Node, x \in Entity :
               WaitsExists(a, x)' => ExistsTracked(a, x)'
  <2>1. PICK m : /\ m \in Msgs(s, n) /\ RoutedMsg(s, n, m) /\ m.id \in Entity
                 /\ \/ HandlesUpdateHome(s, n, m)
                    \/ HandlesLocationRequest(s, n, m)
                    \/ HandlesResolveResponse(s, n, m)
                    \/ HandlesExistsRequest(s, n, m)
                    \/ HandlesExistsResponse(s, n, m)
    BY <1>8, PollEffect
  <2>2. CASE HandlesUpdateHome(s, n, m)
    <3>1. \A a, b \in Node : \A y :
            /\ y \in Msgs(a, b)
            /\ y.type \in {"existsRequest", "existsResponse"}
            => y \in Msgs(a, b)'
      BY <2>2 DEF HandlesUpdateHome, Announces
    <3> QED BY <1>1, <2>2, <3>1 DEF HandlesUpdateHome
  <2>3. CASE HandlesLocationRequest(s, n, m)
    <3>1. \A a, b \in Node : \A y :
            /\ y \in Msgs(a, b)
            /\ y.type \in {"existsRequest", "existsResponse"}
            => y \in Msgs(a, b)'
      BY <2>3 DEF HandlesLocationRequest, Replies, Receives
    <3> QED BY <1>1, <2>3, <3>1 DEF HandlesLocationRequest
  <2>4. CASE HandlesResolveResponse(s, n, m)
    <3>1. \A a, b \in Node : \A y :
            /\ y \in Msgs(a, b)
            /\ y.type \in {"existsRequest", "existsResponse"}
            => y \in Msgs(a, b)'
      BY <2>4 DEF HandlesResolveResponse, Receives
    <3> QED BY <1>1, <2>4, <3>1 DEF HandlesResolveResponse
  <2>5. CASE HandlesExistsRequest(s, n, m)
    <3> SUFFICES ASSUME NEW a \in Node, NEW x \in Entity, WaitsExists(a, x)'
                 PROVE  ExistsTracked(a, x)'
      OBVIOUS
    <3>1. /\ n = Home[m.id] /\ m.node = s
          /\ m.type = "existsRequest" /\ SameExists
      BY <2>1, <2>5 DEF HandlesExistsRequest, RoutedMsg
    <3>2. PICK r \in Message : /\ r.type = "existsResponse" /\ r.id = m.id
                               /\ Replies(s, n, m, m.node, r)
      BY <2>5 DEF HandlesExistsRequest
    <3>3. ExistsTracked(a, x)
      BY <1>0, <3>1 DEF SameExists
    <3>4. CASE a = s /\ x = m.id
      BY <3>1, <3>2, <3>4 DEF ExistsTracked, Replies
    <3>5. CASE ~(a = s /\ x = m.id)
      <4>1. \A c, b \in Node : \A y :
              y \in Msgs(c, b) => y \in Msgs(c, b)' \/ (c = s /\ b = n /\ y = m)
        BY <3>2 DEF Replies
      <4>2. ExistsRequest(x, a) \in Msgs(a, Home[x])
              => ExistsRequest(x, a) \in Msgs(a, Home[x])'
        BY <1>r, <3>5, <4>1, HomeType
      <4>3. \A y : y \in Msgs(Home[x], a) /\ y.type = "existsResponse" /\ y.id = x
                     => y \in Msgs(Home[x], a)'
        BY <3>1, <4>1, HomeType
      <4> QED BY <3>3, <4>2, <4>3 DEF ExistsTracked
    <3> QED BY <3>4, <3>5
  <2>6. CASE HandlesExistsResponse(s, n, m)
    <3> SUFFICES ASSUME NEW a \in Node, NEW x \in Entity, WaitsExists(a, x)'
                 PROVE  ExistsTracked(a, x)'
      OBVIOUS
    <3>1. /\ WaitsExists(a, x) /\ ~(a = n /\ x = m.id)
          /\ m.type = "existsResponse"
      BY <2>6 DEF HandlesExistsResponse
    <3>2. \A c, b \in Node : \A y :
            y \in Msgs(c, b) => y \in Msgs(c, b)' \/ (c = s /\ b = n /\ y = m)
      BY <2>6 DEF HandlesExistsResponse, Receives
    <3>3. ExistsRequest(x, a) \in Msgs(a, Home[x])
            => ExistsRequest(x, a) \in Msgs(a, Home[x])'
      BY <1>r, <3>1, <3>2, HomeType
    <3>4. \A y : y \in Msgs(Home[x], a) /\ y.type = "existsResponse" /\ y.id = x
                   => y \in Msgs(Home[x], a)'
      BY <3>1, <3>2, HomeType
    <3> QED BY <1>0, <3>1, <3>3, <3>4 DEF ExistsTracked
  <2> QED BY <2>1, <2>2, <2>3, <2>4, <2>5, <2>6
<1>9. CASE UNCHANGED vars
  <2>1. SameExists /\ \A a, b \in Node : Msgs(a, b)' = Msgs(a, b)
    BY <1>9 DEF vars, coordVars, SameExists, WaitsExists, Msgs
  <2> QED BY <1>1, <2>1
<1> QED BY <1>2, <1>3, <1>4, <1>5, <1>6, <1>7, <1>8, <1>9
        DEF Next, Call, registerEntity, entityImmigrated

\* AnsweredRemembered is inductive: loc_asks_ only grows, and every
\* resolveResponse is sent to a rank that is in it after the step.
LEMMA RememberedStep ==
  ASSUME TypeInv, Placement, AnsweredRemembered, [Next]_vars
  PROVE  AnsweredRemembered'
<1>0. \A h, r \in Node : \A m :
        m \in Msgs(h, r) /\ m.type = "resolveResponse" => Asked(h, m.id, r)
  BY DEF AnsweredRemembered, Asked
<1>t. \A h, r \in Node : \A m : m \in Msgs(h, r) => m.id \in Entity
  <2>1. net \in Channels
    BY DEF TypeInv, TypeOK, Channels
  <2>2. \A h, r \in Node : net[h][r] \in Seq(Message)
    BY <2>1 DEF Channels
  <2>3. \A h, r \in Node : \A m : m \in Msgs(h, r) => m \in Message
    BY <2>2 DEF Msgs, ToSet
  <2> QED BY <2>3, MessageFields
<1> SUFFICES \A h, r \in Node : \A m :
               m \in Msgs(h, r)' /\ m.type = "resolveResponse"
                 => Asked(h, m.id, r)'
  BY DEF AnsweredRemembered, Asked
<1>1. ASSUME SameAskers,
             \A a, b \in Node : \A y :
               y \in Msgs(a, b)' /\ y.type = "resolveResponse" => y \in Msgs(a, b)
      PROVE  \A h, r \in Node : \A m :
               m \in Msgs(h, r)' /\ m.type = "resolveResponse"
                 => Asked(h, m.id, r)'
  BY <1>0, <1>1, <1>t DEF SameAskers
<1>2. ASSUME NEW n \in Node, NEW e \in Entity, NEW node \in Node, NEW q,
             Announces(n, e, node, q),
             \A a, b \in Node : \A y : y \in OnWire(q, a, b) => y \in Msgs(a, b)
      PROVE  \A h, r \in Node : \A m :
               m \in Msgs(h, r)' /\ m.type = "resolveResponse"
                 => Asked(h, m.id, r)'
  <2> SUFFICES ASSUME NEW h \in Node, NEW r \in Node, NEW m,
                      m \in Msgs(h, r)', m.type = "resolveResponse"
               PROVE  Asked(h, m.id, r)'
    OBVIOUS
  <2>1. CASE m \in Msgs(h, r)
    BY <1>0, <1>2, <1>t, <2>1 DEF Announces
  <2>2. CASE m \notin Msgs(h, r)
    <3>1. h = n /\ m = ResolveResponse(e, node)
          /\ (Asked(n, e, r) \/ Buffered(n, e, r))
      BY <1>2, <2>2 DEF Announces
    <3>2. m.id = e
      BY <3>1 DEF ResolveResponse
    <3> QED BY <1>2, <3>1, <3>2 DEF Announces
  <2> QED BY <2>1, <2>2
<1>3. ASSUME NEW n \in Node, NEW e \in Entity, RegisterHere(n, e)
      PROVE  \A h, r \in Node : \A m :
               m \in Msgs(h, r)' /\ m.type = "resolveResponse"
                 => Asked(h, m.id, r)'
  <2>1. Registers(n, e)
    BY <1>3, RegisterEffect
  <2>2. CASE Home[e] = n
    <3>1. \A a, b \in Node : \A y : y \in OnWire(net, a, b) => y \in Msgs(a, b)
      BY DEF OnWire, Msgs
    <3>2. Announces(n, e, n, net)
      BY <2>1, <2>2 DEF Registers
    <3> QED BY <1>2, <3>1, <3>2
  <2>3. CASE Home[e] # n
    <3>1. UpdateHome(e, n).type # "resolveResponse"
      BY DEF UpdateHome
    <3>2. \A a, b \in Node : \A y :
            y \in Msgs(a, b)' /\ y.type = "resolveResponse" => y \in Msgs(a, b)
      BY <2>1, <2>3, <3>1 DEF Registers, Sends
    <3> QED BY <1>1, <2>1, <2>3, <3>2 DEF Registers
  <2> QED BY <2>2, <2>3
<1>4. ASSUME NEW n \in Node, NEW e \in Entity,
             \/ \E new_node \in Node : entityEmigrated(n, e, new_node)
             \/ unregisterEntity(n, e)
             \/ getLocation(n, e)
             \/ entityExists(n, e)
      PROVE  \A h, r \in Node : \A m :
               m \in Msgs(h, r)' /\ m.type = "resolveResponse"
                 => Asked(h, m.id, r)'
  <2>1. /\ LocationRequest(e, n).type # "resolveResponse"
        /\ ExistsRequest(e, n).type # "resolveResponse"
    BY DEF LocationRequest, ExistsRequest
  <2>2. CASE \E new_node \in Node : entityEmigrated(n, e, new_node)
    BY <1>1, <2>2, EmigrateEffect DEF Emigrates
  <2>3. CASE unregisterEntity(n, e)
    BY <1>1, <2>3, UnregisterEffect DEF Unregisters
  <2>4. CASE getLocation(n, e)
    <3>1. AsksLocation(n, e)
      BY <2>4, GetLocationEffect
    <3>2. \A a, b \in Node : \A y :
            y \in Msgs(a, b)' /\ y.type = "resolveResponse" => y \in Msgs(a, b)
      BY <2>1, <3>1 DEF AsksLocation, Sends
    <3> QED BY <1>1, <3>1, <3>2 DEF AsksLocation
  <2>5. CASE entityExists(n, e)
    <3>1. AsksExistence(n, e)
      BY <2>5, EntityExistsEffect
    <3>2. \A a, b \in Node : \A y :
            y \in Msgs(a, b)' /\ y.type = "resolveResponse" => y \in Msgs(a, b)
      BY <2>1, <3>1 DEF AsksExistence, Sends
    <3> QED BY <1>1, <3>1, <3>2 DEF AsksExistence
  <2> QED BY <1>4, <2>2, <2>3, <2>4, <2>5
<1>5. ASSUME NEW n \in Node, clearCache(n)
      PROVE  \A h, r \in Node : \A m :
               m \in Msgs(h, r)' /\ m.type = "resolveResponse"
                 => Asked(h, m.id, r)'
  BY <1>1, <1>5, ClearCacheEffect DEF ClearsCache
<1>6. ASSUME NEW s \in Node, NEW n \in Node, Poll(s, n)
      PROVE  \A h, r \in Node : \A m :
               m \in Msgs(h, r)' /\ m.type = "resolveResponse"
                 => Asked(h, m.id, r)'
  <2>1. PICK c : /\ c \in Msgs(s, n) /\ RoutedMsg(s, n, c) /\ c.id \in Entity
                 /\ \/ HandlesUpdateHome(s, n, c)
                    \/ HandlesLocationRequest(s, n, c)
                    \/ HandlesResolveResponse(s, n, c)
                    \/ HandlesExistsRequest(s, n, c)
                    \/ HandlesExistsResponse(s, n, c)
    BY <1>6, PollEffect
  <2>2. CASE HandlesUpdateHome(s, n, c)
    <3>1. PICK q \in Channels :
            /\ Announces(n, c.id, c.node, q)
            /\ \A a, b \in Node : \A x :
                 x \in Msgs(a, b) <=>
                   x \in OnWire(q, a, b) \/ (a = s /\ b = n /\ x = c)
      BY <2>2 DEF HandlesUpdateHome
    <3>2. c.node \in Node
      BY <2>2 DEF HandlesUpdateHome
    <3> QED BY <1>2, <2>1, <3>1, <3>2
  <2>3. CASE HandlesLocationRequest(s, n, c)
    <3> SUFFICES ASSUME NEW h \in Node, NEW r \in Node, NEW m,
                        m \in Msgs(h, r)', m.type = "resolveResponse"
                 PROVE  Asked(h, m.id, r)'
      OBVIOUS
    <3>1. \A node : ResolveResponse(c.id, node).id = c.id
      BY DEF ResolveResponse
    <3>2. CASE m \in Msgs(h, r)
      BY <1>0, <1>t, <2>3, <3>2 DEF HandlesLocationRequest
    <3>3. CASE m \notin Msgs(h, r)
      <4>1. isCached(n, c.id) /\ h = n /\ r = c.node /\ m.id = c.id
        BY <2>3, <3>1, <3>3 DEF HandlesLocationRequest, Replies, Receives
      <4> QED BY <2>1, <2>3, <4>1 DEF HandlesLocationRequest
    <3> QED BY <3>2, <3>3
  <2>4. CASE HandlesResolveResponse(s, n, c)
    BY <1>1, <2>4 DEF HandlesResolveResponse, Receives
  <2>5. CASE HandlesExistsRequest(s, n, c)
    <3>1. \A a, b \in Node : \A y :
            y \in Msgs(a, b)' /\ y.type = "resolveResponse" => y \in Msgs(a, b)
      BY <2>5 DEF HandlesExistsRequest, Replies
    <3> QED BY <1>1, <2>5, <3>1 DEF HandlesExistsRequest
  <2>6. CASE HandlesExistsResponse(s, n, c)
    BY <1>1, <2>6 DEF HandlesExistsResponse, Receives
  <2> QED BY <2>1, <2>2, <2>3, <2>4, <2>5, <2>6
<1>7. CASE UNCHANGED vars
  <2>1. SameAskers /\ \A a, b \in Node : Msgs(a, b)' = Msgs(a, b)
    BY <1>7 DEF vars, coordVars, SameAskers, Asked, Buffered, Msgs
  <2> QED BY <1>1, <2>1
<1> QED BY <1>3, <1>4, <1>5, <1>6, <1>7
        DEF Next, Call, registerEntity, entityImmigrated

\* The invariants about callbacks and answers.
Waiting == NoForgottenWaiter /\ NoForgottenExists /\ AnsweredRemembered

\* Waiting holds of freshly constructed coordinators.
LEMMA WaitingInit == Init => Waiting
<1> SUFFICES ASSUME Init PROVE Waiting
  OBVIOUS
<1>1. \A a, b \in Node : \A x : x \notin Msgs(a, b)
  <2>1. \A a, b \in Node : net[a][b] = <<>>
    BY DEF Init
  <2>2. \A x : x \notin ToSet(<<>>)
    BY DEF ToSet
  <2> QED BY <2>1, <2>2 DEF Msgs
<1>2. \A n \in Node, e \in Entity : pending_[n][e] = 0 /\ pending_exists_[n][e] = 0
  BY DEF Init
<1> QED BY <1>1, <1>2 DEF Waiting, NoForgottenWaiter, NoForgottenExists,
           AnsweredRemembered

\* The inductive invariant of CoordinatorInv holds in every reachable state.
THEOREM IndInvCorrect == Spec => []IndInv
<1>1. Init => Waiting
  BY WaitingInit
<1>2. TypeInv /\ Placement /\ Placement' /\ Waiting /\ [Next]_vars => Waiting'
  BY WaiterStep, ExistsStep, RememberedStep DEF Waiting
<1>3. TypeInv /\ Placement /\ Hosting /\ Waiting => IndInv
  BY DEF TypeInv, Hosting, Waiting, IndInv
<1>4. Spec => []TypeInv
  BY TypeCorrect DEF TypeInv
<1> QED BY <1>1, <1>2, <1>3, <1>4, HostingCorrect, PTL DEF Spec

\* A waiting getLocation callback always has its request in flight, buffered at
\* a home that does not know the entity, or answered: deduplicating requests by
\* pending_.size() == 1 (getLocation) loses no callback, although eager
\* refreshes flush the list at any time.
THEOREM WaitersTracked == Spec => []NoForgottenWaiter
<1>1. IndInv => NoForgottenWaiter
  BY DEF IndInv
<1> QED BY <1>1, IndInvCorrect, PTL

\* A waiting entityExists callback always has its request or its answer in
\* flight (entityExists, existsRequest, existsResponse).
THEOREM ExistsWaitersTracked == Spec => []NoForgottenExists
<1>1. IndInv => NoForgottenExists
  BY DEF IndInv
<1> QED BY <1>1, IndInvCorrect, PTL

\* A rank to which the home is sending a location is in loc_asks_, so later
\* moves refresh it (locationRequest, announceLocation).
THEOREM AnsweredAreRemembered == Spec => []AnsweredRemembered
<1>1. IndInv => AnsweredRemembered
  BY DEF IndInv
<1> QED BY <1>1, IndInvCorrect, PTL

=============================================================================
