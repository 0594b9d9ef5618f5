------------------------- MODULE CoordinatorHistory --------------------------
(***************************************************************************)
(* Coordinator with history variables that record where each entity has    *)
(* been sent and how far along each rank has followed it; shown to          *)
(* implement LocationService over ordered channels and with paced moves.   *)
(***************************************************************************)
EXTENDS CoordinatorInv

VARIABLES
  itinerary,   \* [id] the ranks the entity has been sent to, oldest first
  pos,         \* [rank][id] how far the rank has followed the itinerary
  asked,       \* some rank has asked another whether an entity exists
  former       \* [id] ranks other than the home that have let the entity go

histVars == <<vars, itinerary, pos, asked, former>>

\* The location rank n hands out for e without asking.
View(n, e) == IF isCached(n, e) THEN Located(n, e) ELSE NoNode

\* In this step e is registered on, or sent to, rank n, and was not before.
Goes(e, n) ==
  \/ Lives(e, n)' /\ ~Lives(e, n) /\ transit[e] # n
  \/ transit'[e] = n /\ transit[e] # n

\* The first place at or after p where rank m occurs in the itinerary s; p
\* itself if it does not.
Follow(s, p, m) ==
  LET ahead == {q \in DOMAIN s : q >= p /\ s[q] = m}
  IN  IF ahead = {} THEN p ELSE Min(ahead)

HistInit ==
  /\ Init
  /\ itinerary = [e \in Entity |-> <<>>]
  /\ pos = [n \in Node |-> [e \in Entity |-> 0]]
  /\ asked = FALSE
  /\ former = [e \in Entity |-> {}]

HistNext ==
  /\ Next
  /\ itinerary' = [e \in Entity |->
       IF \E n \in Node : Goes(e, n)
       THEN Append(itinerary[e], CHOOSE n \in Node : Goes(e, n))
       ELSE itinerary[e]]
  /\ asked' = (asked \/ pending_exists_' # pending_exists_)
  /\ former' = [e \in Entity |-> former[e] \cup
       {n \in Node \ {Home[e]} : Lives(e, n) /\ ~Lives(e, n)'}]
  /\ pos' = [n \in Node |-> [e \in Entity |->
       IF n \in former'[e]
       THEN pos[n][e]
       ELSE Follow(itinerary'[e], pos[n][e], View(n, e)')]]

HistSpec == HistInit /\ [][HistNext]_histVars

Service == INSTANCE LocationService WITH
  view <- [n \in Node |-> [e \in Entity |-> View(n, e)]]

\* Monotonic reads: the ranks read an entity's itinerary in order, whatever
\* they ask, forget and are refreshed with.  Only a rank an entity has left may
\* go back, when an older answer to it is still under way (coordinator.impl.h:
\* recs_.update in resolveResponse overwrites the emigration record).
ImplementsService == Service!Spec

\* Over ordered channels and with paced moves, the records entityEmigrated
\* leaves behind, the answers and the refreshes form no forwarding circle, as
\* long as no rank asks another whether an entity exists: existsResponse is the
\* one handler that writes a record the home will not refresh.
MovesForward == asked \/ NoForwardingLoop

\* The place of e's itinerary the home's directory stands at: the last one, or
\* the one before while e is on the move.
DirPlace(e) ==
  LET s == itinerary[e]
      d == recs_[Home[e]].directory
  IN  IF DirExists(d, e) /\ d[e].cur_node # s[Len(s)] THEN Len(s) - 1 ELSE Len(s)

\* f assigns places of the itinerary s to the messages of channel q, in order,
\* and each message that tells where e is names its place.
InPlaces(q, e, s, f) ==
  /\ \A i, j \in DOMAIN q : i <= j => f[i] <= f[j]
  /\ \A i \in DOMAIN q : Tells(q[i], e) =>
       f[i] \in DOMAIN s /\ s[f[i]] = q[i].node

\* The channel from the home to a rank is a piece of the itinerary: over
\* ordered channels and with paced moves, the answers and refreshes in flight
\* name places in order, none before the place the rank has reached and none
\* after the one the directory stands at.  A rank that hosts the entity, or has
\* let it go, is not bound: an older answer may still be under way to it.
InOrder ==
  Ordered /\ Paced =>
    \A e \in Entity : \A r \in Node \ ({Home[e]} \cup former[e]) :
      ~Lives(e, r) =>
        /\ pos[r][e] <= DirPlace(e)
        /\ LET q == net[Home[e]][r]
           IN  \E f \in [DOMAIN q -> pos[r][e] .. DirPlace(e)] :
                 InPlaces(q, e, itinerary[e], f)

\* Rank m occurs in the itinerary s after every occurrence of r.
Beyond(s, m, r) ==
  \E p \in DOMAIN s : s[p] = m /\ \A j \in DOMAIN s : s[j] = r => j < p

\* A rank that the home has never answered knows of an entity only what
\* entityEmigrated has left there, and that names a place of the itinerary after
\* all the rank's own.
LeftBehind ==
  asked \/
    \A e \in Entity, r \in Node :
      /\ r # Home[e] /\ r \notin loc_asks_[Home[e]][e]
      /\ ~Lives(e, r) /\ transit[e] # r
      => \A x \in ToSet(recs_[r].cache) :
           x.key = e => Beyond(itinerary[e], x.value.cur_node, r)

=============================================================================
