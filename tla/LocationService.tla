--------------------------- MODULE LocationService ---------------------------
(***************************************************************************)
(* What the coordinators promise together, without messages, caches or a   *)
(* home: an entity has an itinerary, and every rank reads it in order.  A   *)
(* rank may lag behind, skip ranks and forget, but the location it hands   *)
(* out is always a rank of the itinerary, and never an earlier one than it *)
(* has handed out before.  A rank that an entity has left is not bound.    *)
(***************************************************************************)
EXTENDS Integers, Sequences

CONSTANTS Node, Entity, NoNode

VARIABLES
  itinerary,   \* [id] the ranks the entity has been sent to, oldest first
  view,        \* [rank][id] the location the rank hands out, or NoNode
  pos,         \* [rank][id] how far the rank has followed the itinerary
  former       \* [id] the ranks that have let the entity go and are not bound

vars == <<itinerary, view, pos, former>>

Init ==
  /\ itinerary = [e \in Entity |-> <<>>]
  /\ view = [n \in Node |-> [e \in Entity |-> NoNode]]
  /\ pos = [n \in Node |-> [e \in Entity |-> 0]]
  /\ former = [e \in Entity |-> {}]

\* Rank n goes on reading the itinerary of e where it last stopped ...
Reads(n, e) ==
  /\ pos'[n][e] \in pos[n][e] .. Len(itinerary'[e])
  /\ pos'[n][e] > 0
  /\ view'[n][e] = itinerary'[e][pos'[n][e]]

\* ... or forgets what it has read, but not how far.
Forgets(n, e) == view'[n][e] = NoNode /\ pos'[n][e] = pos[n][e]

Keeps(n, e) == view'[n][e] = view[n][e] /\ pos'[n][e] = pos[n][e]

\* What a step about entity e does on rank n: other entities may be forgotten.
Step(n, e) ==
  /\ Reads(n, e) \/ Forgets(n, e) \/ Keeps(n, e) \/ n \in former'[e]
  /\ \A k \in Entity \ {e} : Keeps(n, k) \/ Forgets(n, k)
  /\ \A r \in Node \ {n} : view'[r] = view[r] /\ pos'[r] = pos[r]

\* The entity is registered on, or sent to, rank m ...
Go(n, e, m) ==
  /\ itinerary' = [itinerary EXCEPT ![e] = Append(@, m)]
  /\ Step(n, e)

\* ... or stays, and rank n learns or forgets something.
Learn(n, e) == UNCHANGED itinerary /\ Step(n, e)

Next ==
  /\ \E n \in Node, e \in Entity : Learn(n, e) \/ \E m \in Node : Go(n, e, m)
  /\ \A e \in Entity : former[e] \subseteq former'[e]

Spec == Init /\ [][Next]_vars

=============================================================================
