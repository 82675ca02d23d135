------------------------- MODULE MCConnectorPaging -------------------------
(***************************************************************************)
(* All listings of all connectors, over three resources of which two are   *)
(* in one zone: enough for a zone that is spread over two pages, a page    *)
(* with several zones, and three non-empty pages.                          *)
(***************************************************************************)
EXTENDS ConnectorPaging, TLC

CONSTANTS i1, i2, i3, zone1, zone2

MCScopeOf == i1 :> zone1 @@ i2 :> zone1 @@ i3 :> zone2

=============================================================================
