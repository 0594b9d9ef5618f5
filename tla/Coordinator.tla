----------------------------- MODULE Coordinator -----------------------------
(***************************************************************************)
(* The resolver protocol of loc::Coordinator: every rank runs one          *)
(* coordinator, and the coordinators exchange control messages through the *)
(* injected communicator.                                                  *)
(*                                                                         *)
(* A step is one call of the public API on one rank, or one control        *)
(* message handled by one rank (the communicator dispatches a message from *)
(* poll, and a coordinator is only ever used by the thread that polls).    *)
(* A callback is not a step: a vector of callbacks is only pushed to and   *)
(* flushed whole, so the model keeps its length.                           *)
(***************************************************************************)
EXTENDS LocData

CONSTANTS
  Node,        \* the ranks of the communicator
  Entity,      \* the entity ids
  Home,        \* Home[e]: the home rank the embedder passes with e
  Ordered,     \* TRUE: messages between two ranks do not overtake each other
  Paced,       \* TRUE: the embedder moves an entity only once its home has
               \* handled every earlier updateHome for it
  MaxMoves,    \* bound: calls that change where an entity lives
  MaxQueries,  \* bound: getLocation and entityExists calls
  MaxClears    \* bound: clearCache calls

ASSUME ConstantsAssumption ==
  /\ NoNode \notin Node
  /\ Home \in [Entity -> Node]
  /\ Ordered \in BOOLEAN
  /\ Paced \in BOOLEAN
  /\ MaxMoves \in Nat
  /\ MaxQueries \in Nat
  /\ MaxClears \in Nat

ASSUME AbsentAssumption == Absent \notin LocRecord(Node)

VARIABLES
  local_registered_,  \* [rank] entities physically registered there
  recs_,              \* [rank] home directory and cache of locations
  pending_,           \* [rank][id] getLocation callbacks awaiting a response
  pending_exists_,    \* [rank][id] entityExists callbacks awaiting a response
  pending_home_,      \* [rank][id][requester] requests buffered at the home
  loc_asks_,          \* [rank][id] ranks the home has answered
  net,                \* [from][to] control messages sent and not yet handled
  transit,            \* [id] where an entity that has left a rank is going and
                      \* has not yet arrived, or NoNode (embedder)
  leaving,            \* [id] the rank an entity has moved away from that has
                      \* not yet called entityEmigrated, or NoNode (embedder)
  moves, queries, clears    \* calls made so far

coordVars == <<local_registered_, recs_, pending_, pending_exists_,
               pending_home_, loc_asks_>>
callVars  == <<transit, leaving, moves, queries, clears>>
vars      == <<coordVars, net, callVars>>

-----------------------------------------------------------------------------
(* Control messages                                                        *)

UpdateHome(e, n)      == [type |-> "updateHome",      id |-> e, node |-> n]
LocationRequest(e, n) == [type |-> "locationRequest", id |-> e, node |-> n]
ResolveResponse(e, n) == [type |-> "resolveResponse", id |-> e, node |-> n]
ExistsRequest(e, n)   == [type |-> "existsRequest",   id |-> e, node |-> n]
ExistsResponse(e, exists, n) ==
  [type |-> "existsResponse", id |-> e, exists |-> exists, node |-> n]

Message ==
  [type : {"updateHome", "locationRequest", "resolveResponse", "existsRequest"},
   id : Entity, node : Node]
  \cup
  [type : {"existsResponse"}, id : Entity, exists : {TRUE}, node : Node]
  \cup
  [type : {"existsResponse"}, id : Entity, exists : {FALSE}, node : {NoNode}]

\* Comm::send, on the channels q.
Send(q, from, to, m) == [q EXCEPT ![from][to] = Append(@, m)]

\* The positions of a channel whose message the communicator may dispatch
\* next, and the channels q once message i has been taken off.
Receivable(from, to) ==
  {i \in DOMAIN net[from][to] : Ordered => i = 1}

Take(q, from, to, i) == [q EXCEPT ![from][to] = RemoveAt(@, i)]

\* The messages in flight on a channel.
Msgs(from, to) == ToSet(net[from][to])

UpdateInFlight(e) ==
  \E s, d \in Node : \E m \in Msgs(s, d) : m.type = "updateHome" /\ m.id = e

-----------------------------------------------------------------------------
(* The embedder.  A move is one entityEmigrated and one entityImmigrated,   *)
(* on two ranks and so in either order; the next move waits for both.      *)

Lives(e, n) == e \in local_registered_[n]

\* The rank e is on, once it has moved there.
Owns(e, n) == Lives(e, n) /\ leaving[e] # n

Nowhere(e) == transit[e] = NoNode /\ \A n \in Node : ~Lives(e, n)

MayMove(e) == /\ moves < MaxMoves
              /\ Paced => ~UpdateInFlight(e)

StartMove(e) == /\ leaving[e] = NoNode
                /\ MayMove(e)
                /\ moves' = moves + 1

-----------------------------------------------------------------------------
Init ==
  /\ local_registered_ = [n \in Node |-> {}]
  /\ recs_ = [n \in Node |-> EmptyLookup(Entity)]
  /\ pending_ = [n \in Node |-> [e \in Entity |-> 0]]
  /\ pending_exists_ = [n \in Node |-> [e \in Entity |-> 0]]
  /\ pending_home_ = [n \in Node |-> [e \in Entity |-> [r \in Node |-> 0]]]
  /\ loc_asks_ = [n \in Node |-> [e \in Entity |-> {}]]
  /\ net = [s \in Node |-> [d \in Node |-> <<>>]]
  /\ transit = [e \in Entity |-> NoNode]
  /\ leaving = [e \in Entity |-> NoNode]
  /\ moves = 0
  /\ queries = 0
  /\ clears = 0

-----------------------------------------------------------------------------
(* announceLocation and the registration calls                             *)

Repeat(m, k) == [i \in 1..k |-> m]

\* Buffered requests are dropped unanswered.
Announced_NoBuffered(n, e, r) == IF r \in loc_asks_[n][e] THEN 1 ELSE 0

\* Ranks that were answered before are not refreshed.
Announced_NoRefresh(n, e, r) == pending_home_[n][e][r]

\* The resolveResponses announceLocation sends to rank r: one eager refresh
\* if r was answered before, and one for each of its buffered requests.
Announced(n, e, r) ==
  (IF r \in loc_asks_[n][e] THEN 1 ELSE 0) + pending_home_[n][e][r]

\* The ranks whose buffered requests are answered are not remembered.
AskersAfter_Forget(n, e) == loc_asks_[n][e]

\* The ranks remembered for eager refreshes once they have been sent.
AskersAfter(n, e) ==
  loc_asks_[n][e] \cup {r \in Node : pending_home_[n][e][r] > 0}

\* Rank n, the home, learns that e lives on node; q are the channels before
\* it sends anything.
announceLocation(n, e, node, q) ==
  /\ recs_' = [recs_ EXCEPT ![n] = LookupInsert(@, n, e, n, makeRec(n, node))]
  /\ net' = [q EXCEPT ![n] =
       [r \in Node |-> q[n][r] \o Repeat(ResolveResponse(e, node),
                                         Announced(n, e, r))]]
  /\ loc_asks_' = [loc_asks_ EXCEPT ![n][e] = AskersAfter(n, e)]
  /\ pending_home_' = [pending_home_ EXCEPT ![n][e] = [r \in Node |-> 0]]
  /\ pending_' = [pending_ EXCEPT ![n][e] = 0]

\* The body of registerEntity, which entityImmigrated shares.
RegisterHere(n, e) ==
  /\ local_registered_' = [local_registered_ EXCEPT ![n] = @ \cup {e}]
  /\ IF Home[e] = n
     THEN announceLocation(n, e, n, net)
     ELSE /\ net' = Send(net, n, Home[e], UpdateHome(e, n))
          /\ UNCHANGED <<recs_, loc_asks_, pending_home_, pending_>>
  /\ UNCHANGED <<pending_exists_, queries, clears>>

registerEntity(n, e) ==
  /\ Nowhere(e)
  /\ MayMove(e)
  /\ RegisterHere(n, e)
  /\ moves' = moves + 1
  /\ UNCHANGED <<transit, leaving>>

entityEmigrated(n, e, new_node) ==
  /\ Lives(e, n)
  /\ new_node # n
  /\ \/ /\ StartMove(e)
        /\ transit' = [transit EXCEPT ![e] = new_node]
        /\ UNCHANGED leaving
     \/ /\ leaving[e] = n           \* e has already arrived on new_node
        /\ Lives(e, new_node)
        /\ leaving' = [leaving EXCEPT ![e] = NoNode]
        /\ UNCHANGED <<transit, moves>>
  /\ local_registered_' = [local_registered_ EXCEPT ![n] = @ \ {e}]
  /\ recs_' = [recs_ EXCEPT ![n] = LookupUpdate(@, e, makeRec(n, new_node))]
  /\ UNCHANGED <<pending_, pending_exists_, pending_home_, loc_asks_, net,
                 queries, clears>>

entityImmigrated(n, e) ==
  /\ \/ /\ transit[e] = n           \* e has already left
        /\ transit' = [transit EXCEPT ![e] = NoNode]
        /\ UNCHANGED <<leaving, moves>>
     \/ \E from \in Node \ {n} :
        /\ Lives(e, from)
        /\ StartMove(e)
        /\ leaving' = [leaving EXCEPT ![e] = from]
        /\ UNCHANGED transit
  /\ RegisterHere(n, e)

\* The local record stays.
unregisterEntity_KeepRecord(n, e) ==
  /\ Lives(e, n)
  /\ leaving[e] = NoNode
  /\ local_registered_' = [local_registered_ EXCEPT ![n] = @ \ {e}]
  /\ UNCHANGED <<recs_, pending_, pending_exists_, pending_home_, loc_asks_,
                 net, callVars>>

unregisterEntity(n, e) ==
  /\ Lives(e, n)
  /\ leaving[e] = NoNode
  /\ local_registered_' = [local_registered_ EXCEPT ![n] = @ \ {e}]
  /\ recs_' = [recs_ EXCEPT ![n] = LookupRemove(@, e)]
  /\ UNCHANGED <<pending_, pending_exists_, pending_home_, loc_asks_, net,
                 callVars>>

-----------------------------------------------------------------------------
(* Queries                                                                 *)

isCached(n, e) == Lives(e, n) \/ LookupExists(recs_[n], e)

\* The location rank n hands out for an entity it knows.
Located(n, e) ==
  IF Lives(e, n) THEN n ELSE LookupValue(recs_[n], e).cur_node

\* The lookup after rank n has answered a query on its own: a locally
\* registered entity is answered without consulting the records.
AfterHit(n, e) == IF Lives(e, n) THEN recs_[n] ELSE LookupGet(recs_[n], e)

getLocation(n, e) ==
  /\ queries < MaxQueries
  /\ queries' = queries + 1
  /\ \/ /\ isCached(n, e)
        /\ recs_' = [recs_ EXCEPT ![n] = AfterHit(n, e)]
        /\ UNCHANGED <<pending_, net>>
     \/ /\ ~isCached(n, e)
        /\ pending_' = [pending_ EXCEPT ![n][e] = @ + 1]
        /\ net' = IF pending_'[n][e] = 1 /\ Home[e] # n
                  THEN Send(net, n, Home[e], LocationRequest(e, n))
                  ELSE net
        /\ UNCHANGED recs_
  /\ UNCHANGED <<local_registered_, pending_exists_, pending_home_, loc_asks_,
                 transit, leaving, moves, clears>>

entityExists(n, e) ==
  /\ queries < MaxQueries
  /\ queries' = queries + 1
  /\ \/ /\ isCached(n, e)
        /\ recs_' = [recs_ EXCEPT ![n] = AfterHit(n, e)]
        /\ UNCHANGED <<pending_exists_, net>>
     \/ /\ ~isCached(n, e)
        /\ Home[e] = n       \* answered (false, no_node) on the spot
        /\ UNCHANGED <<recs_, pending_exists_, net>>
     \/ /\ ~isCached(n, e)
        /\ Home[e] # n
        /\ pending_exists_' = [pending_exists_ EXCEPT ![n][e] = @ + 1]
        /\ net' = IF pending_exists_'[n][e] = 1
                  THEN Send(net, n, Home[e], ExistsRequest(e, n))
                  ELSE net
        /\ UNCHANGED recs_
  /\ UNCHANGED <<local_registered_, pending_, pending_home_, loc_asks_,
                 transit, leaving, moves, clears>>

clearCache(n) ==
  /\ clears < MaxClears
  /\ clears' = clears + 1
  /\ recs_' = [recs_ EXCEPT ![n] = LookupClearCache(@)]
  /\ UNCHANGED <<local_registered_, pending_, pending_exists_, pending_home_,
                 loc_asks_, net, transit, leaving, moves, queries>>

-----------------------------------------------------------------------------
(* Message handlers.  Handler h(s, n, i) is rank n handling message i of    *)
(* its channel from rank s.                                                *)

Handles(s, n, i, type) ==
  /\ i \in Receivable(s, n)
  /\ net[s][n][i].type = type

updateHome(s, n, i) ==
  /\ Handles(s, n, i, "updateHome")
  /\ LET m == net[s][n][i]
     IN  announceLocation(n, m.id, m.node, Take(net, s, n, i))
  /\ UNCHANGED <<local_registered_, pending_exists_, callVars>>

\* The local registration comes first, as in getLocation.
HomeAnswer_LocalFirst(n, e) == Located(n, e)

\* What the home answers about an entity it knows: the record comes before
\* the local registration, the other way round than in getLocation.
HomeAnswer(n, e) ==
  IF LookupExists(recs_[n], e) THEN LookupValue(recs_[n], e).cur_node ELSE n

AfterAnswer(n, e) ==
  IF LookupExists(recs_[n], e) THEN LookupGet(recs_[n], e) ELSE recs_[n]

locationRequest(s, n, i) ==
  /\ Handles(s, n, i, "locationRequest")
  /\ LET e == net[s][n][i].id
         r == net[s][n][i].node
     IN  \/ /\ isCached(n, e)
            /\ loc_asks_' = [loc_asks_ EXCEPT ![n][e] = @ \cup {r}]
            /\ net' = Send(Take(net, s, n, i), n, r,
                           ResolveResponse(e, HomeAnswer(n, e)))
            /\ recs_' = [recs_ EXCEPT ![n] = AfterAnswer(n, e)]
            /\ UNCHANGED pending_home_
         \/ /\ ~isCached(n, e)
            /\ pending_home_' = [pending_home_ EXCEPT ![n][e][r] = @ + 1]
            /\ net' = Take(net, s, n, i)
            /\ UNCHANGED <<loc_asks_, recs_>>
  /\ UNCHANGED <<local_registered_, pending_, pending_exists_, callVars>>

resolveResponse(s, n, i) ==
  /\ Handles(s, n, i, "resolveResponse")
  /\ LET m == net[s][n][i]
     IN  /\ recs_' = [recs_ EXCEPT ![n] =
                        LookupUpdate(@, m.id, makeRec(n, m.node))]
         /\ pending_' = [pending_ EXCEPT ![n][m.id] = 0]
  /\ net' = Take(net, s, n, i)
  /\ UNCHANGED <<local_registered_, pending_exists_, pending_home_, loc_asks_,
                 callVars>>

\* Only entities the home knows are answered.
existsRequest_KnownOnly(s, n, i) ==
  /\ Handles(s, n, i, "existsRequest")
  /\ LET e == net[s][n][i].id
         q == Take(net, s, n, i)
     IN  /\ net' = IF isCached(n, e)
                   THEN Send(q, n, net[s][n][i].node,
                             ExistsResponse(e, TRUE, HomeAnswer(n, e)))
                   ELSE q
         /\ recs_' = [recs_ EXCEPT ![n] = AfterAnswer(n, e)]
  /\ UNCHANGED <<local_registered_, pending_, pending_exists_, pending_home_,
                 loc_asks_, callVars>>

existsRequest(s, n, i) ==
  /\ Handles(s, n, i, "existsRequest")
  /\ LET e == net[s][n][i].id
         r == net[s][n][i].node
     IN  /\ net' = Send(Take(net, s, n, i), n, r,
                        IF isCached(n, e)
                        THEN ExistsResponse(e, TRUE, HomeAnswer(n, e))
                        ELSE ExistsResponse(e, FALSE, NoNode))
         /\ recs_' = [recs_ EXCEPT ![n] = AfterAnswer(n, e)]
  /\ UNCHANGED <<local_registered_, pending_, pending_exists_, pending_home_,
                 loc_asks_, callVars>>

existsResponse(s, n, i) ==
  /\ Handles(s, n, i, "existsResponse")
  /\ LET m == net[s][n][i]
     IN  /\ recs_' = IF m.exists
                     THEN [recs_ EXCEPT ![n] =
                             LookupUpdate(@, m.id, makeRec(n, m.node))]
                     ELSE recs_
         /\ pending_exists_' = [pending_exists_ EXCEPT ![n][m.id] = 0]
  /\ net' = Take(net, s, n, i)
  /\ UNCHANGED <<local_registered_, pending_, pending_home_, loc_asks_,
                 callVars>>

-----------------------------------------------------------------------------
Call(n, e) ==
  \/ registerEntity(n, e)
  \/ \E new_node \in Node : entityEmigrated(n, e, new_node)
  \/ entityImmigrated(n, e)
  \/ unregisterEntity(n, e)
  \/ getLocation(n, e)
  \/ entityExists(n, e)

\* Comm::poll on rank n dispatches one message from rank s.
Poll(s, n) ==
  \E i \in DOMAIN net[s][n] :
    \/ updateHome(s, n, i)
    \/ locationRequest(s, n, i)
    \/ resolveResponse(s, n, i)
    \/ existsRequest(s, n, i)
    \/ existsResponse(s, n, i)

Next ==
  \/ \E n \in Node, e \in Entity : Call(n, e)
  \/ \E n \in Node : clearCache(n)
  \/ \E s, n \in Node : Poll(s, n)

Spec == Init /\ [][Next]_vars

\* The embedder drives Comm::poll on every rank and the communicator loses
\* nothing, so every channel is drained.  Nothing else is forced to happen.
Fairness == \A s, n \in Node : WF_vars(Poll(s, n))

FairSpec == Spec /\ Fairness

-----------------------------------------------------------------------------
(* Properties                                                              *)

TypeOK ==
  /\ local_registered_ \in [Node -> SUBSET Entity]
  /\ recs_ \in [Node -> Lookup(Entity, LocRecord(Node))]
  /\ pending_ \in [Node -> [Entity -> Nat]]
  /\ pending_exists_ \in [Node -> [Entity -> Nat]]
  /\ pending_home_ \in [Node -> [Entity -> [Node -> Nat]]]
  /\ loc_asks_ \in [Node -> [Entity -> SUBSET Node]]
  /\ net \in [Node -> [Node -> Seq(Message)]]
  /\ transit \in [Entity -> Node \cup {NoNode}]
  /\ leaving \in [Entity -> Node \cup {NoNode}]
  /\ moves \in Nat
  /\ queries \in Nat
  /\ clears \in Nat

\* The records of an entity are kept in the directory on its home rank and in
\* the evictable cache everywhere else (lookup.h), although update() decides
\* by what the lookup happens to hold and never sees the home.
HomeInDirectory ==
  \A n \in Node, e \in Entity :
    /\ DirExists(recs_[n].directory, e) => Home[e] = n
    /\ CacheExists(recs_[n].cache, e) => Home[e] # n

\* A cache never outgrows max_size_ and never holds a key twice.
CacheBounded ==
  \A n \in Node :
    /\ Len(recs_[n].cache) <= MaxCacheSize
    /\ KeysDistinct(recs_[n].cache)

\* A getLocation callback that waits is never forgotten: on the home it waits
\* for an entity the home does not know; elsewhere the request is on its way,
\* buffered by the home for an entity it does not know, or answered.
NoForgottenWaiter ==
  \A n \in Node, e \in Entity :
    pending_[n][e] > 0 =>
      LET h == Home[e]
      IN  \/ n = h /\ ~isCached(h, e)
          \/ LocationRequest(e, n) \in Msgs(n, h)
          \/ pending_home_[h][e][n] > 0 /\ ~isCached(h, e)
          \/ \E m \in Msgs(h, n) : m.type = "resolveResponse" /\ m.id = e

\* An entityExists callback that waits has its request or its answer in flight.
NoForgottenExists ==
  \A n \in Node, e \in Entity :
    pending_exists_[n][e] > 0 =>
      \/ ExistsRequest(e, n) \in Msgs(n, Home[e])
      \/ \E m \in Msgs(Home[e], n) : m.type = "existsResponse" /\ m.id = e

\* Once no updateHome for a living entity is in flight, its home knows the
\* entity: "unknown here means it does not exist" (entityExists).
HomeKnows ==
  \A n \in Node, e \in Entity :
    Lives(e, n) /\ ~UpdateInFlight(e) => isCached(Home[e], e)

\* Once no updateHome for a living entity is in flight, the home's directory
\* names the rank it lives on, even while the rank it has left has not yet
\* called entityEmigrated.
HomeReflectsOwner ==
  \A n \in Node, e \in Entity :
    Owns(e, n) /\ ~UpdateInFlight(e) =>
      /\ DirExists(recs_[Home[e]].directory, e)
      /\ recs_[Home[e]].directory[e].cur_node = n

\* That holds for an embedder that paces its moves: updateHome carries no
\* version, so only pacing keeps a late one from overwriting a newer one.
HomeAuthoritative == Paced => HomeReflectsOwner

\* Nothing about e is under way: no message, no move.
Quiet(e) ==
  /\ transit[e] = NoNode /\ leaving[e] = NoNode
  /\ \A s, d \in Node : \A m \in Msgs(s, d) : m.id # e

\* "After an entity migrates, the home directory reflects the new owner"
\* (tests/test_coordinator.cc): once nothing about a living entity is under
\* way, the home's directory names the rank it lives on.
MigrationReflected ==
  \A n \in Node, e \in Entity :
    Lives(e, n) /\ Quiet(e) =>
      /\ DirExists(recs_[Home[e]].directory, e)
      /\ recs_[Home[e]].directory[e].cur_node = n

\* Eager refresh: over ordered channels and with paced moves, once nothing
\* about e is under way, the cached record of every rank the home has answered
\* (loc_asks_) agrees with the home's directory.  entityEmigrated changes the
\* home's record without refreshing anybody: the updateHome of the same move
\* must make up for it.
AskersConverge ==
  Ordered /\ Paced =>
    \A e \in Entity : Quiet(e) =>
      \A r \in loc_asks_[Home[e]][e] :
        /\ CacheExists(recs_[r].cache, e)
        /\ DirExists(recs_[Home[e]].directory, e)
        => LookupValue(recs_[r], e).cur_node =
             recs_[Home[e]].directory[e].cur_node

\* "The local record is repointed so local queries forward to the new node"
\* (entityEmigrated): once nothing about a living entity is under way,
\* following the locations the ranks hand out never goes round in a circle.  It
\* ends where the entity lives, or on a rank that has to ask the home.
NoForwardingLoop ==
  \A e \in Entity : Quiet(e) /\ (\E n \in Node : Lives(e, n)) =>
    \A S \in (SUBSET Node) \ {{}} :
      \E n \in S : Lives(e, n) \/ ~isCached(n, e) \/ Located(n, e) \notin S

\* A rank the home has sent a location to, or is sending one to, is remembered
\* for eager refreshes (loc_asks_): no answer is given and then never updated.
AnsweredRemembered ==
  \A h, r \in Node : \A m \in Msgs(h, r) :
    m.type = "resolveResponse" => r \in loc_asks_[h][m.id]

\* "other ranks cache resolutions and are refreshed eagerly when the location
\* changes" (coordinator.h): once nothing about a living entity is under way,
\* the location any rank hands out without asking is the rank it lives on.
CachesConverge ==
  \A n, r \in Node, e \in Entity :
    Lives(e, n) /\ Quiet(e) /\ isCached(r, e) => Located(r, e) = n

\* "Check whether an entity exists anywhere in the system" (coordinator.h):
\* once nothing about e is under way, a home that knows e, and so answers
\* entityExists with true, knows an entity that lives on some rank.
KnownOnlyIfLiving ==
  \A e \in Entity :
    Quiet(e) /\ isCached(Home[e], e) => \E n \in Node : Lives(e, n)

\* Only unregisterEntity, on the home itself, takes an entry out of the
\* directory: it is permanent, whatever the cache evicts or clears.
DirectoryPermanent ==
  [][\A n \in Node, e \in Entity :
       DirExists(recs_[n].directory, e) /\ ~DirExists(recs_[n].directory, e)'
         => Lives(e, n) /\ Nowhere(e)']_vars

\* A getLocation callback fires, on the home as elsewhere, as long as the
\* entity does not stay away for good: it may register after the request, move,
\* be unregistered and registered again.
LocationAnswered ==
  \A n \in Node, e \in Entity :
    []<>(\E m \in Node : Lives(e, m))
      => (pending_[n][e] > 0 ~> pending_[n][e] = 0)

\* An entityExists callback fires, whether the entity exists or not.
ExistenceAnswered ==
  \A n \in Node, e \in Entity :
    pending_exists_[n][e] > 0 ~> pending_exists_[n][e] = 0

=============================================================================
