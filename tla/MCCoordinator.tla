---------------------------- MODULE MCCoordinator ----------------------------
(* Instances of Coordinator for TLC.                                       *)
EXTENDS CoordinatorInv

CONSTANTS n1, n2, n3, e1, e2

\* Every entity lives at home on n1 ...
HomeN1 == [e \in Entity |-> n1]

\* ... or the two entities have different homes.
HomeSplit == [e \in Entity |-> IF e = e1 THEN n1 ELSE n2]

\* An embedder that moves entities but never unregisters one.
MigrationSpec ==
  Init /\ [][Next /\ ~\E n \in Node, e \in Entity : unregisterEntity(n, e)]_vars

\* Ranks that are not a home are interchangeable.
OtherRanks == Permutations(Node \ Range(Home))
=============================================================================
