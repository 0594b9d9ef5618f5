--------------------------- MODULE CoordinatorInv ----------------------------
(***************************************************************************)
(* The inductive invariant behind the safety theorems of Coordinator: what *)
(* the protocol maintains between any two steps, as a conjunction of named *)
(* parts.  TLC checks it on small instances (runs coord_paced and          *)
(* coord_refresh); CoordinatorSafety, CoordinatorWaiters and               *)
(* CoordinatorAskers prove it for every instance.                          *)
(***************************************************************************)
EXTENDS Coordinator

\* Requests and updateHome travel to the home of their entity and carry their
\* sender; answers travel from the home; no rank sends itself a message.
RoutedMsg(s, d, m) ==
  /\ s # d
  /\ IF m.type \in {"resolveResponse", "existsResponse"}
     THEN s = Home[m.id]
     ELSE d = Home[m.id] /\ m.node = s

Routed == \A s, d \in Node : \A m \in Msgs(s, d) : RoutedMsg(s, d, m)

\* Only the home of an entity buffers requests for it and remembers askers,
\* and it is never its own asker.
AskersRouted ==
  \A n \in Node, e \in Entity :
    \A r \in Node :
      r \in loc_asks_[n][e] \/ pending_home_[n][e][r] > 0
        => n = Home[e] /\ r # n

\* An entity that lives on its home is in the home's directory.
LocalInDirectory ==
  \A e \in Entity :
    Lives(e, Home[e]) => DirExists(recs_[Home[e]].directory, e)

\* An entity is registered on one rank, or on two while it is leaving one of
\* them; on none while it is in transit.
OneHost ==
  \A e \in Entity :
    /\ \A a, b \in Node :
         Lives(e, a) /\ Lives(e, b) /\ a # b => leaving[e] \in {a, b}
    /\ transit[e] # NoNode => \A n \in Node : ~Lives(e, n)

\* The home of a living entity has an entry for it, or will get one.
HomeLearns ==
  \A n \in Node, e \in Entity :
    Lives(e, n) =>
      \/ DirExists(recs_[Home[e]].directory, e)
      \/ UpdateHome(e, n) \in Msgs(n, Home[e])

\* With paced moves, the home's entry names the owner or the updateHome that
\* will make it so is in flight, and no older updateHome is left to undo it.
PacedHome ==
  Paced =>
    \A e \in Entity :
      /\ \A n \in Node : Owns(e, n) =>
           /\ \/ /\ DirExists(recs_[Home[e]].directory, e)
                 /\ recs_[Home[e]].directory[e].cur_node = n
              \/ UpdateHome(e, n) \in Msgs(n, Home[e])
           /\ \A s, d \in Node : \A m \in Msgs(s, d) :
                m.type = "updateHome" /\ m.id = e => m.node = n
      /\ transit[e] # NoNode => ~UpdateInFlight(e)

\* Message m tells its receiver where e is.
Tells(m, e) ==
  /\ m.id = e
  /\ \/ m.type = "resolveResponse"
     \/ m.type = "existsResponse" /\ m.exists

\* The last message on channel q that tells where e is names rank d.
LastWord(q, e, d) ==
  \E i \in DOMAIN q :
    /\ Tells(q[i], e) /\ q[i].node = d
    /\ \A j \in DOMAIN q : j > i => ~Tells(q[j], e)

\* No message on channel q tells where e is.
Silent(q, e) == \A i \in DOMAIN q : ~Tells(q[i], e)

\* Rank r believes that e is on rank d, or knows nothing, once it has handled
\* what the home has sent it.
Believes(r, e, d) ==
  \/ LastWord(net[Home[e]][r], e, d)
  \/ /\ Silent(net[Home[e]][r], e)
     /\ \A x \in ToSet(recs_[r].cache) : x.key = e => x.value.cur_node = d

\* Over ordered channels and with paced moves, the last the home has told every
\* rank it has answered is what its directory says, except between the start
\* of a move and the updateHome that ends it.
AskersFollow ==
  Ordered /\ Paced =>
    \A e \in Entity, r \in Node :
      /\ r \in loc_asks_[Home[e]][e]
      /\ DirExists(recs_[Home[e]].directory, e)
      /\ ~UpdateInFlight(e)
      /\ transit[e] = NoNode
      => Believes(r, e, recs_[Home[e]].directory[e].cur_node)

\* The parts, in the order in which each relies on the ones before it.
Placement == Routed /\ AskersRouted /\ HomeInDirectory /\ LocalInDirectory

IndInv ==
  /\ TypeOK /\ CacheBounded
  /\ Placement
  /\ OneHost /\ HomeLearns /\ PacedHome
  /\ NoForgottenWaiter /\ NoForgottenExists /\ AnsweredRemembered
=============================================================================
