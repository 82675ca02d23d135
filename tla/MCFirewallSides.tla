--------------------------- MODULE MCFirewallSides ---------------------------
(***************************************************************************)
(* Two instances with up to two interfaces in two networks: an instance of *)
(* which the first, the second, both or none of the interfaces match.  A   *)
(* rule allows a port, a range of ports, or everything.                    *)
(***************************************************************************)
EXTENDS FirewallSides

CONSTANTS vpc1, vpc2, web

Protocols == {[name |-> "tcp", ports |-> {<<22>>, <<80, 90>>}],
              [name |-> "all", ports |-> {}]}

=============================================================================
