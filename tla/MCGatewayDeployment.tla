------------------------- MODULE MCGatewayDeployment -------------------------
(***************************************************************************)
(* Instances of GatewayDeployment for TLC.  RepairNodes is the set of      *)
(* nodes with a repair project: all of them, or none.                      *)
(***************************************************************************)
EXTENDS GatewayDeployment

CONSTANTS itemA, itemB              \* pieces of work

OneItem == {itemA}
TwoItems == {itemA, itemB}
EveryNode == 0..MaxUpdates
NoNode == {}

=============================================================================
