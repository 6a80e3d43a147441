--------------------------- MODULE MCIncumbentCast ---------------------------
(***************************************************************************)
(* Instances of IncumbentCast for TLC.                                     *)
(***************************************************************************)
EXTENDS IncumbentCast

\* Two clusters, 0 a hub that also works, 2 a hub that does not.
TwoHubs        == {0, 2}
TwoHubsWorkers == Proc \ {2}
TwoHubsOf      == [w \in Proc \ {2} |-> IF w < 2 THEN 0 ELSE 2]

=============================================================================
