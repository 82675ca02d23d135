------------------------ MODULE MCNetworkingManagers ------------------------
(***************************************************************************)
(* One of the networking managers at a time: they share no variable, so    *)
(* what one does holds whatever the others do.  A rule allows a port, a    *)
(* range of ports, or everything; each network has a subnet, the first     *)
(* subnet two addresses.                                                   *)
(***************************************************************************)
EXTENDS NetworkingManagers, TLC

CONSTANTS vpc1, vpc2, web, svc, ip1, ip2, east, r1, r2, v1,
          p1, p2, f1, f2, pool, m, s, b1, b2, h, vpn,
          fw, sub1, sub2, route, a1, a2

OneAtATime == {{"matching"}, {"external"}, {"balancing"}, {"vpcs"}}

Protocols == {[name |-> "tcp", ports |-> {<<22>>, <<80, 90>>}],
              [name |-> "all", ports |-> {}]}

BucketPartOf == {<<b1, b2>>}

NetworkOfEach == fw :> vpc1 @@ sub1 :> vpc1 @@ sub2 :> vpc2 @@ route :> vpc1

SubnetOfEach == a1 :> sub1 @@ a2 :> sub1

=============================================================================
