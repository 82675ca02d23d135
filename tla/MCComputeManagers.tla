------------------------- MODULE MCComputeManagers -------------------------
(***************************************************************************)
(* One of the managers at a time: two disks with up to two links to the    *)
(* policies of two regions, one of which has two; three instances with up  *)
(* to two persistent disks and a local SSD each, two of them of one custom *)
(* machine type; an instance in two networks and one whose link goes on    *)
(* after the link of the first; an instance group of each kind; disks of   *)
(* two names in two zones; and a disk that is resized once.                *)
(***************************************************************************)
EXTENDS ComputeManagers, TLC

CONSTANTS d1, d2, east, west, s1, s2, s3, v1, v2, v3, ssd, listed, custom,
          n1, n2, sub1, sub2, pool, r1, g1, g2, g3, t1, z1, z2, i1, i2

OneAtATime == {{"policies"}, {"vms"}, {"relations"}, {"groups"}, {"servers"},
               {"views"}}

PolicyRegion == s1 :> east @@ s2 :> east @@ s3 :> west

MachineTypeOf == v1 :> listed @@ v2 :> custom @@ v3 :> custom

SubnetNetwork == sub1 :> n1 @@ sub2 :> n2

SubnetsOf == v1 :> <<sub1, sub2>> @@ v2 :> <<sub1>>

PoolOf == r1 :> pool

ListedSubnets == <<sub2, sub1>>

LinkPartOf == {<<v1, v2>>}

GroupKind == g1 :> "STATEFUL" @@ g2 :> "STATELESS" @@ g3 :> "UNMANAGED"

ListedZones == <<z1, z2>>

\* A license and the public image that has it.
Images == <<[key |-> "ubuntu",
             images |-> <<[licenses |-> <<"ubuntu-2204-lts">>, arch |-> "amd64"]>>]>>

LicenseKeys == [l \in {"ubuntu-2204-lts"} |-> {"ubuntu"}]

=============================================================================
