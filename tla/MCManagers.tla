----------------------------- MODULE MCManagers -----------------------------
(***************************************************************************)
(* One of the three at a time; the resources are those of MCConnectorPaging*)
(***************************************************************************)
EXTENDS Managers, TLC

CONSTANTS i1, i2, i3, zone1, zone2

OneAtATime == {{"paging"}, {"locator"}, {"loops"}}

MCScopeOf == i1 :> zone1 @@ i2 :> zone1 @@ i3 :> zone2

=============================================================================
