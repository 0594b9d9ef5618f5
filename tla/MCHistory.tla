------------------------------ MODULE MCHistory ------------------------------
(* Instances of CoordinatorHistory for TLC.                                *)
EXTENDS MCCoordinator, CoordinatorHistory
=============================================================================
