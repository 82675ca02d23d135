---------------------------- MODULE ComputeProofs ----------------------------
(***************************************************************************)
(* What instances and disks are shown with, laid out as NetworkingProofs;  *)
(* InstanceGroupsProofs and VMRelationsProofs are about the rest of        *)
(* ComputeManagers.  The types of all of them come last.                   *)
(***************************************************************************)
EXTENDS InstanceGroupsProofs, VMRelationsProofs

-----------------------------------------------------------------------------
\* The instances of Compute Engine with their disks and machine types.

\* Nothing is built before the instances are listed.  From then on the listings
\* of disks and instances stay as they are, an instance is answered in one way,
\* and a machine type is known once it has been asked for.
BuildInv ==
  /\ phase \in {"list_disks", "list_others", "list_instances", "build"}
  /\ phase # "build" =>
       /\ compute_vms = <<>> /\ vms_left = {} /\ collected = <<>> /\ vm_errors = <<>>
       /\ asked = [t \in MachineType |-> 0]
  /\ DOMAIN attached = VM
  /\ phase = "build" => DOMAIN compute_vms = VM
  /\ phase \in {"list_instances", "build"} => Predefined \subseteq instance_types
  /\ all_disks \cap LocalSSD = {}
  /\ DOMAIN collected \cap DOMAIN vm_errors = {}
  /\ DOMAIN collected \cup DOMAIN vm_errors = (DOMAIN compute_vms) \ vms_left
  /\ \A v \in DOMAIN collected :
       collected[v].disks = compute_vms[v] /\ compute_vms[v] \subseteq all_disks
  /\ \A v \in DOMAIN vm_errors :
       vm_errors[v] = "AttributeError" <=> ~(compute_vms[v] \subseteq all_disks)
  /\ asked \in [MachineType -> Nat]
  /\ \A t \in MachineType :
       asked[t] = 0 \/ (asked[t] = 1 /\ t \in instance_types /\ t \notin Predefined)

\* The turn of one instance.
LEMMA BuildKeeps ==
  ASSUME BuildInv, NEW v \in VM, VMs!BuildVM(v) PROVE BuildInv'
<1>1. /\ phase = "build" /\ v \in vms_left /\ vms_left' = vms_left \ {v}
      /\ UNCHANGED <<attached, phase, all_disks, compute_vms>>
  BY DEF VMs!BuildVM
<1>2. v \notin DOMAIN collected /\ v \notin DOMAIN vm_errors
  BY <1>1 DEF BuildInv
<1>3. VMs!_get_matched_disk_tag_info(v) <=> compute_vms[v] \subseteq all_disks
  BY DEF VMs!_get_matched_disk_tag_info
<1>4. PICK exception :
        \/ /\ DOMAIN vm_errors' = DOMAIN vm_errors \cup {v} /\ collected' = collected
           /\ vm_errors'[v] = exception
           /\ \A w \in DOMAIN vm_errors : vm_errors'[w] = vm_errors[w]
           /\ exception = "AttributeError" <=> ~(compute_vms[v] \subseteq all_disks)
        \/ /\ DOMAIN collected' = DOMAIN collected \cup {v} /\ vm_errors' = vm_errors
           /\ collected'[v].disks = compute_vms[v]
           /\ \A w \in DOMAIN collected : collected'[w] = collected[w]
           /\ compute_vms[v] \subseteq all_disks
  <2>1. ASSUME NEW e, VMs!Fail(v, e)
        PROVE  /\ DOMAIN vm_errors' = DOMAIN vm_errors \cup {v} /\ vm_errors'[v] = e
               /\ \A w \in DOMAIN vm_errors : vm_errors'[w] = vm_errors[w]
    BY <1>2, <2>1 DEF VMs!Fail
  <2>2. ASSUME VMs!Respond(v)
        PROVE  /\ DOMAIN collected' = DOMAIN collected \cup {v}
               /\ collected'[v].disks = compute_vms[v]
               /\ \A w \in DOMAIN collected : collected'[w] = collected[w]
    BY <1>2, <2>2 DEF VMs!Respond
  <2>3. CASE VMs!FailAtDisk(v)
    BY <1>3, <2>1, <2>3 DEF VMs!FailAtDisk
  <2>4. CASE VMs!FailAtType(v)
    <3>1. VMs!Fail(v, "HttpError") /\ collected' = collected /\ compute_vms[v] \subseteq all_disks
      BY <1>3, <2>4 DEF VMs!FailAtType
    <3>2. /\ DOMAIN vm_errors' = DOMAIN vm_errors \cup {v} /\ vm_errors'[v] = "HttpError"
          /\ \A w \in DOMAIN vm_errors : vm_errors'[w] = vm_errors[w]
      BY <2>1, <3>1
    <3> WITNESS "HttpError"
    <3> QED BY <3>1, <3>2
  <2>5. CASE VMs!BuildPredefined(v) \/ VMs!BuildCustom(v)
    BY <1>3, <2>2, <2>5 DEF VMs!BuildPredefined, VMs!BuildCustom
  <2> QED BY <2>3, <2>4, <2>5 DEF VMs!BuildVM
<1>5. /\ asked' \in [MachineType -> Nat] /\ Predefined \subseteq instance_types'
      /\ \A t \in MachineType :
           asked'[t] = 0 \/ (asked'[t] = 1 /\ t \in instance_types' /\ t \notin Predefined)
  BY <1>1 DEF BuildInv, VMs!BuildVM, VMs!FailAtDisk, VMs!FailAtType, VMs!BuildPredefined,
       VMs!BuildCustom
<1>6. /\ DOMAIN collected' \cap DOMAIN vm_errors' = {}
      /\ DOMAIN collected' \cup DOMAIN vm_errors' = (DOMAIN compute_vms') \ vms_left'
  <2>1. v \in DOMAIN compute_vms
    BY <1>1 DEF BuildInv
  <2> QED BY <1>1, <1>2, <1>4, <2>1 DEF BuildInv
<1>7. /\ \A w \in DOMAIN collected' :
           collected'[w].disks = compute_vms[w] /\ compute_vms[w] \subseteq all_disks
      /\ \A w \in DOMAIN vm_errors' :
           vm_errors'[w] = "AttributeError" <=> ~(compute_vms[w] \subseteq all_disks)
  BY <1>4 DEF BuildInv
<1> QED BY <1>1, <1>5, <1>6, <1>7 DEF BuildInv

\* The instances are listed as they are then.
LEMMA ListingKeeps ==
  ASSUME BuildInv, VMs!ListDisks \/ VMs!ListOthers \/ VMs!ListInstances
  PROVE  BuildInv'
<1>1. CASE VMs!ListDisks
  <2>1. /\ phase = "list_disks" /\ phase' = "list_others" /\ all_disks' \cap LocalSSD = {}
        /\ UNCHANGED <<attached, instance_types, compute_vms, vms_left, collected, vm_errors,
                       asked>>
    BY <1>1 DEF VMs!ListDisks, VMs!results
  <2>2. DOMAIN collected = {} /\ DOMAIN vm_errors = {}
    BY <2>1 DEF BuildInv
  <2> QED BY <2>1, <2>2 DEF BuildInv
<1>2. CASE VMs!ListOthers
  BY <1>2 DEF BuildInv, VMs!ListOthers, VMs!results
<1>3. CASE VMs!ListInstances
  <2>1. /\ phase = "list_instances" /\ phase' = "build" /\ compute_vms' = attached /\ vms_left' = VM
        /\ UNCHANGED <<attached, all_disks, instance_types, collected, vm_errors, asked>>
    BY <1>3 DEF VMs!ListInstances
  <2>2. /\ collected = <<>> /\ vm_errors = <<>> /\ DOMAIN attached = VM
        /\ asked = [t \in MachineType |-> 0]
    BY <2>1 DEF BuildInv
  <2>3. DOMAIN collected = {} /\ DOMAIN vm_errors = {} /\ DOMAIN compute_vms' = VM
    BY <2>1, <2>2
  <2> QED BY <2>1, <2>2, <2>3 DEF BuildInv
<1> QED BY <1>1, <1>2, <1>3

\* What happens to the disks of the project does not reach what was listed.
LEMMA ProjectKeeps ==
  ASSUME BuildInv, NEW v \in VM, NEW d \in Disk, VMs!Attach(v, d) \/ VMs!Detach(v, d)
  PROVE  BuildInv'
<1>1. /\ UNCHANGED <<phase, all_disks, instance_types, compute_vms, vms_left, collected,
                     vm_errors, asked>>
      /\ DOMAIN attached' = DOMAIN attached
  BY DEF VMs!Attach, VMs!Detach, VMs!results
<1> QED BY <1>1 DEF BuildInv

LEMMA InitBuildInv == ASSUME VMs!Init PROVE BuildInv
<1>1. DOMAIN <<>> = {}
  OBVIOUS
<1> QED BY <1>1 DEF VMs!Init, BuildInv

WorksPolicies == "policies" \in working

LEMMA PoliciesAlone == Spec => Policies!Spec \/ []~WorksPolicies
<1>1. Init /\ WorksPolicies => Policies!Init
  BY DEF Init, WorksPolicies
<1>2. WorksPolicies /\ [Next]_vars => WorksPolicies' /\ [Policies!Next]_(Policies!vars)
  BY DEF Next, vars, WorksPolicies, policyVars, Policies!vars
<1>3. ~WorksPolicies /\ [Next]_vars => ~WorksPolicies'
  BY DEF Next, vars, WorksPolicies
<1> QED BY <1>1, <1>2, <1>3, PTL DEF Spec, Policies!Spec

WorksViews == "views" \in working

LEMMA ViewsAlone == Spec => Views!Spec \/ []~WorksViews
<1>1. Init /\ WorksViews => Views!Init
  BY DEF Init, WorksViews
<1>2. WorksViews /\ [Next]_vars => WorksViews' /\ [Views!Next]_(Views!vars)
  BY DEF Next, vars, WorksViews, viewVars, Views!vars
<1>3. ~WorksViews /\ [Next]_vars => ~WorksViews'
  BY DEF Next, vars, WorksViews
<1> QED BY <1>1, <1>2, <1>3, PTL DEF Spec, Views!Spec

LEMMA BuildInvariance == VMs!Spec => []BuildInv
<1>1. BuildInv /\ [VMs!Next]_(VMs!vars) => BuildInv'
  <2> SUFFICES ASSUME BuildInv, [VMs!Next]_(VMs!vars) PROVE BuildInv'
    OBVIOUS
  <2>1. CASE UNCHANGED VMs!vars
    BY <2>1 DEF BuildInv, VMs!vars, VMs!results
  <2> QED BY <2>1, BuildKeeps, ListingKeeps, ProjectKeeps DEF VMs!Next
<1> QED BY <1>1, InitBuildInv, PTL DEF VMs!Spec

\* Whatever is attached and detached while the project is being listed, an
\* instance is reported with the disks it was listed with, it fails at them only
\* for a local SSD or a disk that was attached meanwhile, and a machine type is
\* asked for until it is known and not once more.
LEMMA InstancesReported ==
  VMs!Spec => [](VMs!OwnDisks /\ VMs!FailsAtDiskOnly /\ VMs!TypeAskedOnce)
<1>1. BuildInv => VMs!OwnDisks /\ VMs!FailsAtDiskOnly /\ VMs!TypeAskedOnce
  <2> SUFFICES ASSUME BuildInv PROVE VMs!OwnDisks /\ VMs!FailsAtDiskOnly /\ VMs!TypeAskedOnce
    OBVIOUS
  <2>1. VMs!OwnDisks
    BY DEF BuildInv, VMs!OwnDisks
  <2>2. VMs!TypeAskedOnce
    BY DEF BuildInv, VMs!TypeAskedOnce
  <2>3. VMs!FailsAtDiskOnly
    <3> SUFFICES ASSUME NEW v \in (DOMAIN compute_vms) \ vms_left
                 PROVE  v \in DOMAIN vm_errors /\ vm_errors[v] = "AttributeError"
                        <=> \E d \in compute_vms[v] : d \in LocalSSD \/ d \notin all_disks
      BY DEF VMs!FailsAtDiskOnly
    <3>1. (\E d \in compute_vms[v] : d \in LocalSSD \/ d \notin all_disks)
          <=> ~(compute_vms[v] \subseteq all_disks)
      BY DEF BuildInv
    <3>2. CASE v \in DOMAIN vm_errors
      BY <3>1, <3>2 DEF BuildInv
    <3>3. CASE v \notin DOMAIN vm_errors
      BY <3>1, <3>3 DEF BuildInv
    <3> QED BY <3>2, <3>3
  <2> QED BY <2>1, <2>2, <2>3
<1> QED BY <1>1, BuildInvariance, PTL

-----------------------------------------------------------------------------
\* Servers.

\* What was listed is what held then: it has all that lasts, nothing that
\* never was, and no zone has two disks of one name in it.
ServerInv ==
  /\ zoned_lasting \subseteq zoned /\ zoned \subseteq zoned_ever
  /\ zoned_ever \subseteq Servers!Fact /\ Servers!NamesTaken
  /\ stage # "list_disks" =>
       /\ zoned_lasting \subseteq zoned_disks /\ zoned_disks \subseteq zoned_ever
       /\ \A f, g \in zoned_disks : f[1] = g[1] /\ f[2] = g[2] => f = g
  /\ stage \in {"build", "built"} => instance.boot[1] = instance.zone
  /\ stage = "built" => server.image = Servers!_get_images(instance.name)

\* The zones that have a disk of the name of an instance are just its own.
LEMMA ImageFound ==
  ASSUME Servers!ZonesDistinct, ServerInv, stage = "built",
         instance.boot[2] = instance.name, instance.boot \in zoned_lasting,
         \A f \in zoned_ever : f[2] = instance.name => f[1] = instance.zone
  PROVE  server.image = {instance.boot[3]}
<1>1. /\ instance.boot \in zoned_disks /\ zoned_disks \subseteq zoned_ever
         /\ zoned_ever \subseteq Servers!Fact
      /\ \A f, g \in zoned_disks : f[1] = g[1] /\ f[2] = g[2] => f = g
      /\ instance.boot[1] = instance.zone
      /\ server.image = Servers!_get_images(instance.name)
  BY DEF ServerInv
<1>2. PICK z \in Servers!Zone, n \in Name, i \in Image : instance.boot = <<z, n, i>>
  BY <1>1 DEF Servers!Fact
<1>3. z = instance.zone /\ n = instance.name /\ i = instance.boot[3]
  BY <1>1, <1>2
<1>4. PICK k \in DOMAIN Zones : Zones[k] = z
  BY DEF Servers!Zone
<1>5. \A m \in DOMAIN Zones, j \in Image :
        <<Zones[m], n, j>> \in zoned_disks => m = k /\ j = i
  <2> SUFFICES ASSUME NEW m \in DOMAIN Zones, NEW j \in Image, <<Zones[m], n, j>> \in zoned_disks
               PROVE  m = k /\ j = i
    OBVIOUS
  <2>1. <<Zones[m], n, j>>[2] = n /\ <<Zones[m], n, j>>[1] = Zones[m]
    OBVIOUS
  <2>2. Zones[m] = z
    BY <1>1, <1>3, <2>1
  <2>3. <<z, n, j>> = <<z, n, i>>
    BY <1>1, <1>2, <2>2
  <2> QED BY <1>4, <2>2, <2>3 DEF Servers!ZonesDistinct
<1>6. <<Zones[k], n, i>> \in zoned_disks
  BY <1>1, <1>2, <1>4
<1>7. k <= k
  BY <1>4 DEF Servers!ZonesDistinct
<1>8. Servers!_get_images(n) = {i}
  <2> DEFINE zones == {m \in DOMAIN Zones : \E j \in Image : <<Zones[m], n, j>> \in zoned_disks}
  <2>1. zones = {k}
    BY <1>4, <1>5, <1>6
  <2>2. Servers!_get_images(n) =
          {j \in Image : \E m \in zones : /\ \A l \in zones : m <= l
                                          /\ <<Zones[m], n, j>> \in zoned_disks}
    BY DEF Servers!_get_images, Servers!ZonedDisk
  <2> HIDE DEF zones
  <2> QED BY <1>5, <1>6, <1>7, <2>1, <2>2
<1> QED BY <1>1, <1>3, <1>8

LEMMA ImagesListed ==
  ASSUME ServerInv, stage = "built", NEW i \in server.image
  PROVE  \E z \in Servers!Zone : Servers!ZonedDisk(z, instance.name, i) \in zoned_ever
<1>1. PICK k \in DOMAIN Zones : Servers!ZonedDisk(Zones[k], instance.name, i) \in zoned_disks
  BY DEF ServerInv, Servers!_get_images
<1> QED BY <1>1 DEF ServerInv, Servers!Zone

LEMMA StepServerInv ==
  ASSUME ServerInv, [Servers!Next]_(Servers!vars)
  PROVE  ServerInv'
<1>1. CASE Servers!ProjectChanges
  <2>1. PICK f \in Servers!Fact : Servers!Change(f)
    BY <1>1 DEF Servers!ProjectChanges
  <2>2. /\ zoned_lasting' \subseteq zoned_lasting /\ zoned_lasting' \subseteq zoned'
        /\ zoned_ever \subseteq zoned_ever' /\ zoned' \subseteq zoned_ever'
           /\ zoned_ever' \subseteq Servers!Fact
    BY <2>1 DEF ServerInv, Servers!Change, Servers!Consistent
  <2>3. /\ stage \notin {"build", "built"}
        /\ UNCHANGED <<stage, zoned_disks>> /\ Servers!NamesTaken'
    BY <1>1 DEF Servers!ProjectChanges
  <2> QED BY <2>2, <2>3 DEF ServerInv
<1>2. CASE Servers!list_disks
  <2>1. /\ UNCHANGED <<zoned, zoned_lasting, zoned_ever>>
        /\ zoned_disks' = zoned /\ stage' = "list_instances"
    BY <1>2 DEF Servers!list_disks, Servers!projectVars
  <2> QED BY <2>1 DEF ServerInv, Servers!NamesTaken
<1>3. CASE Servers!list_instances
  <2>1. PICK boot \in zoned, name \in Name, keys \in {"user:key", "other"},
             licenses \in {<<>>} \cup {<<l>> : l \in License} :
          instance' = [zone |-> boot[1], name |-> name, boot |-> boot,
                       licenses |-> licenses, ssh_keys |-> keys]
    BY <1>3 DEF Servers!list_instances
  <2>2. instance'.boot[1] = instance'.zone
    BY <2>1
  <2>3. /\ UNCHANGED <<zoned, zoned_lasting, zoned_ever, zoned_disks>>
        /\ stage = "list_instances" /\ stage' = "build"
    BY <1>3 DEF Servers!list_instances, Servers!projectVars
  <2> QED BY <2>2, <2>3 DEF ServerInv, Servers!NamesTaken
<1>4. CASE Servers!get_server_info
  <2>1. /\ UNCHANGED <<zoned, zoned_lasting, zoned_ever, zoned_disks, instance>>
        /\ stage = "build" /\ stage' = "built"
        /\ server' = [os |-> Servers!_get_os_data(instance.licenses),
                      image |-> Servers!_get_images(instance.name)]
    BY <1>4 DEF Servers!get_server_info, Servers!projectVars
  <2>2. server'.image = Servers!_get_images(instance.name)
    BY <2>1
  <2>3. Servers!_get_images(instance.name)' = Servers!_get_images(instance.name)
    BY <2>1 DEF Servers!_get_images
  <2> QED BY <2>1, <2>2, <2>3 DEF ServerInv, Servers!NamesTaken
<1>5. CASE Servers!FailAtKeys
  BY <1>5 DEF ServerInv, Servers!FailAtKeys, Servers!projectVars, Servers!NamesTaken
<1>6. CASE UNCHANGED Servers!vars
  <2>1. UNCHANGED <<zoned, zoned_lasting, zoned_ever, stage, zoned_disks, instance, server>>
    BY <1>6 DEF Servers!vars, Servers!projectVars
  <2> QED BY <2>1 DEF ServerInv, Servers!NamesTaken, Servers!_get_images
<1> QED BY <1>1, <1>2, <1>3, <1>4, <1>5, <1>6 DEF Servers!Next

\* An instance is shown with the image of its boot disk if that has its name,
\* lasts, and is the only disk of that name, and with images of disks of its
\* name in any case, for any number of zones and of changes.
LEMMA ImagesFound ==
  ASSUME Servers!ZonesDistinct
  PROVE  Servers!Spec => []Servers!ImageOfBootDisk
<1>1. Servers!Init => ServerInv
  BY DEF Servers!Init, Servers!ProjectInit, Servers!Consistent, ServerInv
<1>2. ServerInv => Servers!ImageOfBootDisk
  BY ImageFound, ImagesListed DEF Servers!ImageOfBootDisk
<1> QED BY <1>1, <1>2, StepServerInv, PTL DEF Servers!Spec

-----------------------------------------------------------------------------
\* Disks and the policies they share.

Links(d) == disks[d].resourcePolicies

\* The policies of its links that disk d knows.
Reached(d) == {p \in Policies!policies(d) : \E k \in DOMAIN Links(d) : Links(d)[k] = p}

\* What DisksIndependent says of one disk.
Independent(d) ==
  /\ d \in DOMAIN errors <=>
       \/ Links(d) # <<>> /\ Policies!policies(d) = {}
       \/ \E p \in Reached(d) : resource_policies[p].start = "last"
  /\ d \in DOMAIN snapshot_schedule =>
       LET shown == snapshot_schedule[d]
       IN /\ \A k, l \in DOMAIN shown : shown[k].policy = shown[l].policy => k = l
          /\ {shown[k].policy : k \in DOMAIN shown} = Reached(d)

\* The dictionary of a policy that was shown with its region has been
\* rewritten since: this is what makes RegionShownOnce inductive.
PolicyInv ==
  /\ disks \in [Disk -> Policies!ListedDisk] /\ left \subseteq Disk
  /\ resource_policies \in [DOMAIN resource_policies -> Policies!PolicyDict]
  /\ DOMAIN snapshot_schedule \subseteq Disk \ left /\ DOMAIN errors \subseteq Disk \ left
  /\ \A p \in Policy : Policies!ShownWithRegion(p) # {} =>
       p \in DOMAIN resource_policies /\ resource_policies[p].region # "url"
  /\ Policies!RegionShownOnce
  /\ \A d \in Disk \ left : Independent(d)

LEMMA LinksOfDisk ==
  ASSUME PolicyInv, NEW d \in Disk
  PROVE  /\ \E n \in Nat : Links(d) \in [1 .. n -> Policy]
         /\ \A j, k \in DOMAIN Links(d) : Links(d)[j] = Links(d)[k] => j = k
BY DEF PolicyInv, Links, Policies!ListedDisk

\* Rewriting leaves the schedules as they are.
LEMMA RewritingKeeps ==
  ASSUME PolicyInv, NEW seen, resource_policies' = Policies!Rewritten(seen), UNCHANGED disks
  PROVE  /\ DOMAIN resource_policies' = DOMAIN resource_policies
         /\ resource_policies' \in [DOMAIN resource_policies' -> Policies!PolicyDict]
         /\ \A p \in DOMAIN resource_policies :
              /\ resource_policies'[p].start = resource_policies[p].start
              /\ p \in seen => resource_policies'[p].region =
                                 Policies!get_param_in_url(resource_policies[p].region)
              /\ p \notin seen => resource_policies'[p] = resource_policies[p]
              /\ resource_policies[p].region # "url" => resource_policies'[p].region # "url"
         /\ \A d : Policies!policies(d)' = Policies!policies(d) /\ Reached(d)' = Reached(d)
<1>1. DOMAIN resource_policies' = DOMAIN resource_policies
  BY DEF Policies!Rewritten
<1>2. \A p \in DOMAIN resource_policies :
        /\ resource_policies[p] \in Policies!PolicyDict
        /\ resource_policies'[p] =
             IF p \in seen
             THEN [resource_policies[p] EXCEPT
                     !.region = Policies!get_param_in_url(resource_policies[p].region)]
             ELSE resource_policies[p]
  BY DEF PolicyInv, Policies!Rewritten
<1>3. \A p \in DOMAIN resource_policies :
        /\ resource_policies'[p] \in Policies!PolicyDict
        /\ resource_policies'[p].start = resource_policies[p].start
        /\ p \in seen => resource_policies'[p].region =
                           Policies!get_param_in_url(resource_policies[p].region)
        /\ p \notin seen => resource_policies'[p] = resource_policies[p]
        /\ resource_policies[p].region # "url" => resource_policies'[p].region # "url"
  BY <1>2 DEF Policies!PolicyDict, Policies!get_param_in_url
<1>4. resource_policies' \in [DOMAIN resource_policies' -> Policies!PolicyDict]
  <2>1. resource_policies' = [p \in DOMAIN resource_policies' |-> resource_policies'[p]]
    BY <1>1 DEF Policies!Rewritten
  <2> QED BY <1>1, <1>3, <2>1
<1>5. \A d : Policies!policies(d)' = Policies!policies(d)
  BY <1>1 DEF Policies!policies, Policies!region
<1>6. \A d : Reached(d)' = Reached(d)
  BY <1>5 DEF Reached, Links
<1> QED BY <1>1, <1>3, <1>4, <1>5, <1>6

\* A schedule cannot be displayed exactly if a policy reached begins in the
\* last hour.
LEMMA DisplayedAll ==
  ASSUME PolicyInv, NEW d \in Disk
  PROVE  /\ Policies!Matched(d) = {k \in DOMAIN Links(d) : Links(d)[k] \in Reached(d)}
         /\ Reached(d) = {Links(d)[k] : k \in Policies!Matched(d)}
         /\ Policies!Displayed(d) = Policies!Matched(d) <=>
              ~\E p \in Reached(d) : resource_policies[p].start = "last"
         /\ Policies!Seen(d) \subseteq Reached(d)
<1>1. /\ Policies!Matched(d) = {k \in DOMAIN Links(d) : Links(d)[k] \in Reached(d)}
      /\ Reached(d) = {Links(d)[k] : k \in Policies!Matched(d)}
  BY DEF Policies!Matched, Reached, Links
<1>2. Policies!Matched(d) \subseteq Nat
  BY <1>1, LinksOfDisk
<1>3. ASSUME Policies!Displayed(d) = Policies!Matched(d), NEW p \in Reached(d)
      PROVE  resource_policies[p].start # "last"
  <2>1. PICK k \in Policies!Matched(d) : Links(d)[k] = p
    BY <1>1
  <2>2. k <= k
    BY <1>2, <2>1
  <2> QED BY <1>3, <2>1, <2>2
          DEF Policies!Displayed, Policies!Readable, Policies!_get_readable_time, Links
<1>4. ASSUME \A p \in Reached(d) : resource_policies[p].start # "last"
      PROVE  Policies!Displayed(d) = Policies!Matched(d)
  BY <1>1, <1>4 DEF Policies!Displayed, Policies!Readable, Policies!_get_readable_time, Links
<1>5. Policies!Seen(d) \subseteq Reached(d)
  BY <1>1 DEF Policies!Seen, Policies!Displayed, Links
<1> QED BY <1>1, <1>3, <1>4, <1>5

\* A disk that has been handled stays as it was shown.
LEMMA OthersStay ==
  ASSUME PolicyInv, NEW d \in left, left' = left \ {d}, UNCHANGED disks,
         DOMAIN resource_policies' = DOMAIN resource_policies,
         \A p \in DOMAIN resource_policies :
           resource_policies'[p].start = resource_policies[p].start,
         \A e : Policies!policies(e)' = Policies!policies(e) /\ Reached(e)' = Reached(e),
         \A e \in Disk \ {d} : e \in DOMAIN errors' <=> e \in DOMAIN errors,
         \A e \in Disk \ {d} : e \in DOMAIN snapshot_schedule' <=> e \in DOMAIN snapshot_schedule,
         \A e \in DOMAIN snapshot_schedule \ {d} : snapshot_schedule'[e] = snapshot_schedule[e],
         Independent(d)'
  PROVE  \A e \in Disk \ left' : Independent(e)'
<1> SUFFICES ASSUME NEW e \in Disk \ left' PROVE Independent(e)'
  OBVIOUS
<1>1. CASE e = d
  BY <1>1
<1>2. CASE e # d
  <2>1. e \in Disk \ left /\ Independent(e)
    BY <1>2 DEF PolicyInv
  <2>2. Reached(e) \subseteq DOMAIN resource_policies
    BY DEF Reached, Policies!policies
  <2>3. Links(e)' = Links(e)
    BY DEF Links
  <2> QED BY <1>2, <2>1, <2>2, <2>3 DEF Independent
<1> QED BY <1>1, <1>2

LEMMA FailWithoutPoliciesKeeps ==
  ASSUME PolicyInv, NEW d \in left, left' = left \ {d}, UNCHANGED disks,
         Policies!FailWithoutPolicies(d)
  PROVE  PolicyInv'
<1>1. /\ UNCHANGED <<resource_policies, snapshot_schedule>>
      /\ DOMAIN errors' = DOMAIN errors \cup {d}
      /\ Links(d) # <<>> /\ Policies!policies(d) = {}
  BY DEF Policies!FailWithoutPolicies, Links
<1>2. d \in Disk /\ d \notin DOMAIN snapshot_schedule
  BY DEF PolicyInv
<1>3. \A e : Policies!policies(e)' = Policies!policies(e) /\ Reached(e)' = Reached(e)
  BY <1>1 DEF Reached, Policies!policies, Policies!region, Links
<1>4. Independent(d)'
  BY <1>1, <1>2, <1>3 DEF Independent, Links
<1>5. \A e \in Disk \ left' : Independent(e)'
  BY <1>1, <1>3, <1>4, OthersStay
<1> QED BY <1>1, <1>2, <1>5 DEF PolicyInv, Policies!RegionShownOnce, Policies!ShownWithRegion

LEMMA FailToDisplayKeeps ==
  ASSUME PolicyInv, NEW d \in left, left' = left \ {d}, UNCHANGED disks,
         Policies!FailToDisplay(d)
  PROVE  PolicyInv'
<1>1. /\ UNCHANGED snapshot_schedule
      /\ DOMAIN errors' = DOMAIN errors \cup {d}
      /\ resource_policies' = Policies!Rewritten(Policies!Seen(d))
      /\ Policies!Displayed(d) # Policies!Matched(d)
  BY DEF Policies!FailToDisplay
<1>2. d \in Disk /\ d \notin DOMAIN snapshot_schedule
  BY DEF PolicyInv
<1>3. PICK p \in Reached(d) : resource_policies[p].start = "last"
  BY <1>1, <1>2, DisplayedAll
<1>4. p \in DOMAIN resource_policies
  BY DEF Reached, Policies!policies
<1>5. Independent(d)'
  BY <1>1, <1>2, <1>3, <1>4, RewritingKeeps DEF Independent
<1>6. \A e \in Disk \ left' : Independent(e)'
  BY <1>1, <1>5, RewritingKeeps, OthersStay
<1> QED BY <1>1, <1>2, <1>6, RewritingKeeps
        DEF PolicyInv, Policies!RegionShownOnce, Policies!ShownWithRegion

LEMMA CollectDiskKeeps ==
  ASSUME PolicyInv, NEW d \in left, left' = left \ {d}, UNCHANGED disks,
         Policies!Collect(d)
  PROVE  PolicyInv'
<1>1. /\ UNCHANGED errors
      /\ resource_policies' = Policies!Rewritten(Policies!Seen(d))
      /\ Links(d) = <<>> \/ Policies!policies(d) # {}
      /\ Policies!Displayed(d) = Policies!Matched(d)
  BY DEF Policies!Collect, Links
<1>2. /\ DOMAIN snapshot_schedule' = DOMAIN snapshot_schedule \cup {d}
      /\ \A e \in DOMAIN snapshot_schedule \ {d} : snapshot_schedule'[e] = snapshot_schedule[e]
      /\ DOMAIN snapshot_schedule'[d] = Policies!Matched(d)
      /\ \A k \in Policies!Matched(d) :
           snapshot_schedule'[d][k] =
             [policy |-> Links(d)[k], region |-> resource_policies'[Links(d)[k]].region]
  BY DEF Policies!Collect, Links
<1>3. d \in Disk /\ d \notin DOMAIN snapshot_schedule /\ d \notin DOMAIN errors
  BY DEF PolicyInv
<1>4. Policies!Seen(d) = Reached(d)
  BY <1>1, <1>3, DisplayedAll DEF Policies!Seen, Links
<1>5. Independent(d)'
  <2>1. ~\E p \in Reached(d) : resource_policies'[p].start = "last"
    <3>1. Reached(d) \subseteq DOMAIN resource_policies
      BY DEF Reached, Policies!policies
    <3> QED BY <1>1, <1>3, <3>1, DisplayedAll, RewritingKeeps
  <2>2. \A k, l \in Policies!Matched(d) : Links(d)[k] = Links(d)[l] => k = l
    BY <1>3, DisplayedAll, LinksOfDisk
  <2>3. {snapshot_schedule'[d][k].policy : k \in Policies!Matched(d)} = Reached(d)
    BY <1>2, <1>3, DisplayedAll
  <2>4. Links(d)' = Links(d) /\ Policies!policies(d)' = Policies!policies(d)
        /\ Reached(d)' = Reached(d)
    BY <1>1, RewritingKeeps DEF Links
  <2> QED BY <1>1, <1>2, <1>3, <2>1, <2>2, <2>3, <2>4 DEF Independent
<1>6. \A e \in Disk \ left' : Independent(e)'
  BY <1>1, <1>2, <1>5, RewritingKeeps, OthersStay
<1>7. ASSUME NEW p \in Policy, d \in Policies!ShownWithRegion(p)'
      PROVE  /\ p \in DOMAIN resource_policies /\ resource_policies[p].region = "url"
             /\ resource_policies'[p].region = "name"
  <2>1. PICK k \in Policies!Matched(d) :
          Links(d)[k] = p /\ resource_policies'[p].region = "name"
    BY <1>2, <1>7 DEF Policies!ShownWithRegion
  <2>2. p \in Policies!Seen(d) /\ p \in DOMAIN resource_policies
    BY <1>3, <1>4, <2>1, DisplayedAll DEF Reached, Policies!policies
  <2>3. Policies!get_param_in_url(resource_policies[p].region) = "name"
    BY <1>1, <2>1, <2>2, RewritingKeeps
  <2> QED BY <2>1, <2>2, <2>3 DEF Policies!get_param_in_url
<1>8. \A p \in Policy : Policies!ShownWithRegion(p)' \subseteq Policies!ShownWithRegion(p) \cup {d}
  BY <1>2 DEF Policies!ShownWithRegion
<1>9. ASSUME NEW p \in Policy, Policies!ShownWithRegion(p)' # {}
      PROVE  /\ p \in DOMAIN resource_policies' /\ resource_policies'[p].region # "url"
             /\ \A e, f \in Policies!ShownWithRegion(p)' : e = f
  <2>1. CASE d \in Policies!ShownWithRegion(p)'
    <3>1. Policies!ShownWithRegion(p) = {}
      BY <1>7, <2>1 DEF PolicyInv
    <3> QED BY <1>1, <1>7, <1>8, <2>1, <3>1, RewritingKeeps
  <2>2. CASE d \notin Policies!ShownWithRegion(p)'
    <3>1. Policies!ShownWithRegion(p)' \subseteq Policies!ShownWithRegion(p)
      BY <1>8, <2>2
    <3> QED BY <1>1, <1>9, <3>1, RewritingKeeps DEF PolicyInv, Policies!RegionShownOnce
  <2> QED BY <2>1, <2>2
<1>10. Policies!RegionShownOnce'
  BY <1>9 DEF Policies!RegionShownOnce
<1> QED BY <1>1, <1>2, <1>3, <1>6, <1>9, <1>10, RewritingKeeps DEF PolicyInv

\* However many disks share a policy, at most one of them is shown with its
\* region; what a disk reaches does not depend on the disks before it.
LEMMA DisksReported ==
  Policies!Spec => [](Policies!RegionShownOnce /\ Policies!DisksIndependent)
<1>1. Policies!Init => PolicyInv
  <2> SUFFICES ASSUME Policies!Init PROVE PolicyInv
    OBVIOUS
  <2>1. /\ disks \in [Disk -> Policies!ListedDisk] /\ left = Disk
        /\ DOMAIN snapshot_schedule = {} /\ DOMAIN errors = {}
    BY DEF Policies!Init
  <2>2. resource_policies \in [DOMAIN resource_policies -> Policies!PolicyDict]
    BY DEF Policies!Init
  <2> QED BY <2>1, <2>2 DEF PolicyInv, Policies!RegionShownOnce, Policies!ShownWithRegion
<1>2. PolicyInv /\ [Policies!Next]_(Policies!vars) => PolicyInv'
  <2> SUFFICES ASSUME PolicyInv, [Policies!Next]_(Policies!vars) PROVE PolicyInv'
    OBVIOUS
  <2>1. ASSUME NEW d \in left, Policies!BuildDisk(d) PROVE PolicyInv'
    BY <2>1, FailWithoutPoliciesKeeps, FailToDisplayKeeps, CollectDiskKeeps
       DEF Policies!BuildDisk
  <2>2. CASE UNCHANGED Policies!vars
    <3>1. UNCHANGED <<disks, resource_policies, left, snapshot_schedule, errors>>
      BY <2>2 DEF Policies!vars
    <3>2. \A d : Links(d)' = Links(d) /\ Policies!policies(d)' = Policies!policies(d)
      BY <3>1 DEF Links, Policies!policies, Policies!region
    <3>3. \A d : Reached(d)' = Reached(d)
      BY <3>2 DEF Reached
    <3>4. \A d : Independent(d) => Independent(d)'
      BY <3>1, <3>2, <3>3 DEF Independent
    <3> QED BY <3>1, <3>4
            DEF PolicyInv, Policies!RegionShownOnce, Policies!ShownWithRegion
  <2> QED BY <2>1, <2>2 DEF Policies!Next
<1>3. PolicyInv => Policies!RegionShownOnce /\ Policies!DisksIndependent
  BY DEF PolicyInv, Independent, Reached, Links, Policies!DisksIndependent
<1> QED BY <1>1, <1>2, <1>3, PTL DEF Policies!Spec

-----------------------------------------------------------------------------
\* One disk on five pages.

\* A size the disk has had.
Was(s) == s \in Nat /\ s <= disk.sizeGb

DiskPage ==
  "disk" \in DOMAIN pages => \E s \in Nat :
    /\ Was(s) /\ pages["disk"].size = GiB * s
    /\ pages["disk"].rates = Views!DiskRates(disk.type, s)
    /\ pages["disk"].encryption = Views!get_disk_encryption_type(disk.key)

InstancePage ==
  "instance" \in DOMAIN pages => \E s, t \in Nat :
    /\ viewed_disks # {} /\ Was(s) /\ Was(t) /\ s <= t /\ (grew \/ s = t)
    /\ pages["instance"].size = GiB * s
    /\ pages["instance"].rates = Views!InstanceRates(disk.type, t)

SnapshotPage ==
  "snapshot" \in DOMAIN pages => \E s \in Nat :
    /\ Was(s) /\ pages["snapshot"].size = GiB * s
    /\ pages["snapshot"].encryption = Views!get_disk_encryption_type(disk.key)

MachineImagePage ==
  "machine_image" \in DOMAIN pages => \E s \in Nat :
    /\ Was(s) /\ pages["machine_image"].size = GiB * s
    /\ pages["machine_image"].rates = Views!DiskRates(disk.type, s)

TemplatePage ==
  "template" \in DOMAIN pages => \E s \in Nat :
    /\ pages["template"].size = GiB * s
    /\ pages["template"].rates = Views!DiskRates(disk.type, GiB * s)

PagesInv ==
  /\ DiskPage /\ InstancePage /\ SnapshotPage
  /\ MachineImagePage /\ TemplatePage

\* A disk keeps its type and key, and only grows.
ViewsInv ==
  /\ disk \in [type : Views!Type, sizeGb : Nat, key : Views!Key]
  /\ grew \in BOOLEAN
  /\ \A l \in viewed_disks :
       l.type = disk.type /\ Was(l.sizeGb) /\ (grew \/ l.sizeGb = disk.sizeGb)
  /\ \A k \in DOMAIN saved :
       saved[k].type = disk.type /\ saved[k].key = disk.key /\ Was(saved[k].sizeGb)
  /\ template = {} \/ \E s \in Nat : template = {s}
  /\ DOMAIN pages \subseteq Views!Page
  /\ PagesInv

Rates == {"read_iops", "write_iops", "throughput"}

Constants == {0, 12, 28, 48, 75, 150, 600, 3000}

\* A rate is a constant of the type for every GB.
LEMMA RatesByConstant ==
  ASSUME NEW type \in Views!Type
  PROVE  /\ \A s : DOMAIN Views!DiskRates(type, s) = Rates
         /\ \A r \in Rates :
              \E c \in Constants :
                \A s \in Nat : /\ Views!DiskRates(type, s)[r] = s * c
                               /\ Views!InstanceRates(type, s)[r] = Views!Rounded(s * c)
<1>1. \A s : DOMAIN Views!DiskRates(type, s) = Rates
  BY DEF Views!DiskRates, Rates
<1>2. \A s : \A r \in Rates :
        Views!InstanceRates(type, s)[r] = Views!Rounded(Views!DiskRates(type, s)[r])
  BY <1>1 DEF Views!InstanceRates
<1> DEFINE Constant(c) == c \in Constants
<1>3. /\ Constant(Views!_get_iops_constant(type, "read"))
      /\ Constant(Views!_get_iops_constant(type, "write"))
      /\ Constant(Views!_get_throughput_constant(type))
  BY DEF Views!Type, Views!_get_iops_constant, Views!_get_throughput_constant, Constants
<1>4. \A s : /\ Views!DiskRates(type, s)["read_iops"] = s * Views!_get_iops_constant(type, "read")
             /\ Views!DiskRates(type, s)["write_iops"] = s * Views!_get_iops_constant(type, "write")
             /\ Views!DiskRates(type, s)["throughput"] = s * Views!_get_throughput_constant(type)
  BY DEF Views!DiskRates
<1> QED BY <1>1, <1>2, <1>3, <1>4 DEF Rates

LEMMA RoundedIsNear ==
  ASSUME NEW rate \in Nat
  PROVE  /\ Views!Rounded(rate) \in Nat
         /\ Views!Rounded(rate) - rate <= 5 /\ rate - Views!Rounded(rate) <= 5
<1>1. PICK tenths \in Nat, rest \in Nat :
        /\ tenths = rate \div 10 /\ rest = rate % 10
        /\ rate = 10 * tenths + rest /\ rest < 10
  BY SMT
<1>2. \/ rest > 5 /\ Views!Rounded(rate) = 10 * (tenths + 1)
      \/ rest = 5 /\ Views!Rounded(rate) \in {10 * tenths, 10 * (tenths + 1)}
      \/ rest < 5 /\ Views!Rounded(rate) = 10 * tenths
  BY <1>1 DEF Views!Rounded
<1> QED BY <1>1, <1>2

LEMMA TimesGrows ==
  ASSUME NEW g \in Nat, NEW s \in Nat, NEW t \in Nat, s <= t
  PROVE  g * s <= g * t
BY SMT

LEMMA TimesDistinct ==
  ASSUME NEW g \in Nat \ {0}, NEW s \in Nat, NEW t \in Nat, g * s = g * t
  PROVE  s = t
<1>1. ASSUME NEW a \in Nat, NEW b \in Nat, a < b
      PROVE  g * a < g * b
  BY <1>1, SMT
<1>2. ~(s < t) /\ ~(t < s)
  <2>1. g * s \in Nat /\ g * t \in Nat
    BY SMT
  <2> QED BY <1>1, <2>1, SMT
<1> QED BY <1>2

LEMMA PagesShowSizes ==
  ASSUME ViewsInv, GiB \in Nat \ {0}
  PROVE  Views!PagesAgree
<1>1. disk.type \in Views!Type /\ disk.sizeGb \in Nat
  BY DEF ViewsInv
<1>2. ASSUME Views!SameSize("disk", "machine_image")
      PROVE  pages["disk"].rates = pages["machine_image"].rates
  <2>1. PICK s \in Nat : /\ pages["disk"].size = GiB * s
                         /\ pages["disk"].rates = Views!DiskRates(disk.type, s)
    BY <1>2
       DEF ViewsInv, PagesInv, DiskPage, InstancePage,
           SnapshotPage, MachineImagePage, TemplatePage, Views!SameSize, Views!Shown
  <2>2. PICK t \in Nat : /\ pages["machine_image"].size = GiB * t
                         /\ pages["machine_image"].rates = Views!DiskRates(disk.type, t)
    BY <1>2
       DEF ViewsInv, PagesInv, DiskPage, InstancePage,
           SnapshotPage, MachineImagePage, TemplatePage, Views!SameSize, Views!Shown
  <2>3. s = t
    BY <1>2, <2>1, <2>2, TimesDistinct DEF Views!SameSize
  <2> QED BY <2>1, <2>2, <2>3
<1>3. ASSUME Views!SameSize("disk", "instance"), NEW r \in DOMAIN pages["disk"].rates
      PROVE  LET more == pages["instance"].rates[r] - pages["disk"].rates[r]
             IN more >= -5 /\ (grew \/ more <= 5)
  <2>1. PICK s \in Nat : /\ pages["disk"].size = GiB * s
                         /\ pages["disk"].rates = Views!DiskRates(disk.type, s)
    BY <1>3
       DEF ViewsInv, PagesInv, DiskPage, InstancePage,
           SnapshotPage, MachineImagePage, TemplatePage, Views!SameSize, Views!Shown
  <2>2. PICK u \in Nat, t \in Nat :
          /\ u <= t /\ (grew \/ u = t) /\ pages["instance"].size = GiB * u
          /\ pages["instance"].rates = Views!InstanceRates(disk.type, t)
    BY <1>3
       DEF ViewsInv, PagesInv, DiskPage, InstancePage,
           SnapshotPage, MachineImagePage, TemplatePage, Views!SameSize, Views!Shown
  <2>3. s = u
    BY <1>3, <2>1, <2>2, TimesDistinct DEF Views!SameSize
  <2>4. r \in Rates
    BY <1>1, <2>1, RatesByConstant
  <2>5. PICK c \in Constants :
          \A n \in Nat : /\ Views!DiskRates(disk.type, n)[r] = n * c
                         /\ Views!InstanceRates(disk.type, n)[r] = Views!Rounded(n * c)
    BY <1>1, <2>4, RatesByConstant, Zenon
  <2>6. /\ pages["disk"].rates[r] = s * c
        /\ pages["instance"].rates[r] = Views!Rounded(t * c)
    BY <2>1, <2>2, <2>5
  <2>7. c \in Nat /\ s * c \in Nat /\ t * c \in Nat /\ s * c <= t * c
    BY <2>2, <2>3, SMT DEF Constants
  <2> DEFINE near == Views!Rounded(t * c)
  <2>8. near \in Nat /\ near - t * c <= 5 /\ t * c - near <= 5
    BY <2>7, RoundedIsNear
  <2>9. grew \/ s * c = t * c
    BY <2>2, <2>3
  <2> HIDE DEF near
  <2>10. near - s * c >= -5 /\ (grew \/ near - s * c <= 5)
    <3> DEFINE x == s * c  y == t * c
    <3>1. x \in Nat /\ y \in Nat /\ x <= y /\ (grew \/ x = y)
          /\ near \in Nat /\ near - y <= 5 /\ y - near <= 5
      BY <2>7, <2>8, <2>9
    <3> HIDE DEF x, y
    <3>2. near - x >= -5
      BY <3>1, SMT
    <3>3. x = y => near - x <= 5
      BY <3>1, SMT
    <3> QED BY <3>1, <3>2, <3>3 DEF x
  <2> QED BY <2>6, <2>10 DEF near
<1>4. ASSUME Views!SameSize("disk", "template"), NEW r \in DOMAIN pages["disk"].rates
      PROVE  pages["template"].rates[r] = GiB * pages["disk"].rates[r]
  <2>1. PICK s \in Nat : /\ pages["disk"].size = GiB * s
                         /\ pages["disk"].rates = Views!DiskRates(disk.type, s)
    BY <1>4
       DEF ViewsInv, PagesInv, DiskPage, InstancePage,
           SnapshotPage, MachineImagePage, TemplatePage, Views!SameSize, Views!Shown
  <2>2. PICK t \in Nat : /\ pages["template"].size = GiB * t
                         /\ pages["template"].rates = Views!DiskRates(disk.type, GiB * t)
    BY <1>4
       DEF ViewsInv, PagesInv, DiskPage, InstancePage,
           SnapshotPage, MachineImagePage, TemplatePage, Views!SameSize, Views!Shown
  <2>3. s = t
    BY <1>4, <2>1, <2>2, TimesDistinct DEF Views!SameSize
  <2>4. r \in Rates
    BY <1>1, <2>1, RatesByConstant
  <2>5. PICK c \in Constants :
          \A n \in Nat : Views!DiskRates(disk.type, n)[r] = n * c
    BY <1>1, <2>4, RatesByConstant, Zenon
  <2>6. GiB * s \in Nat
    BY SMT
  <2>7. pages["template"].rates[r] = (GiB * s) * c /\ pages["disk"].rates[r] = s * c
    BY <2>1, <2>2, <2>3, <2>5, <2>6
  <2>8. (GiB * s) * c = GiB * (s * c)
    BY SMT DEF Constants
  <2> QED BY <2>7, <2>8
<1>5. Views!Shown("disk", "snapshot") =>
        pages["disk"].encryption = pages["snapshot"].encryption
  BY DEF ViewsInv, PagesInv, DiskPage, InstancePage,
         SnapshotPage, MachineImagePage, TemplatePage, Views!Shown
<1>6. ASSUME NEW p \in DOMAIN pages \ {"template"}
      PROVE  pages[p].size <= GiB * disk.sizeGb
  <2>1. PICK s \in Nat : Was(s) /\ pages[p].size = GiB * s
    BY DEF ViewsInv, PagesInv, DiskPage, InstancePage,
           SnapshotPage, MachineImagePage, TemplatePage, Views!Page
  <2> QED BY <1>1, <2>1, TimesGrows DEF Was
<1> QED BY <1>2, <1>3, <1>4, <1>5, <1>6 DEF Views!PagesAgree

\* A page is made from a size the disk has had.
LEMMA ShowKeeps ==
  ASSUME ViewsInv, GiB \in Nat \ {0},
         \/ Views!ShowDisk \/ Views!get_disk_info \/ Views!ShowSnapshot
         \/ Views!ShowMachineImage \/ Views!ShowTemplate
  PROVE  ViewsInv'
<1>1. UNCHANGED <<disk, grew, viewed_disks, saved, template>>
  BY DEF Views!ShowDisk, Views!get_disk_info, Views!ShowSnapshot,
         Views!ShowMachineImage, Views!ShowTemplate, Views!Show
<1>2. Was(disk.sizeGb) /\ \A s : Was(s)' <=> Was(s)
  BY <1>1 DEF ViewsInv, Was
<1>3. ASSUME NEW page \in Views!Page, NEW shown, Views!Show(page, shown),
             page = "disk" => \E s \in Nat :
               /\ Was(s) /\ shown.size = GiB * s
               /\ shown.rates = Views!DiskRates(disk.type, s)
               /\ shown.encryption = Views!get_disk_encryption_type(disk.key),
             page = "instance" => \E s, t \in Nat :
               /\ viewed_disks # {} /\ Was(s) /\ Was(t) /\ s <= t /\ (grew \/ s = t)
               /\ shown.size = GiB * s
               /\ shown.rates = Views!InstanceRates(disk.type, t),
             page = "snapshot" => \E s \in Nat :
               /\ Was(s) /\ shown.size = GiB * s
               /\ shown.encryption = Views!get_disk_encryption_type(disk.key),
             page = "machine_image" => \E s \in Nat :
               /\ Was(s) /\ shown.size = GiB * s
               /\ shown.rates = Views!DiskRates(disk.type, s),
             page = "template" => \E s \in Nat :
               /\ shown.size = GiB * s
               /\ shown.rates = Views!DiskRates(disk.type, GiB * s)
      PROVE  ViewsInv'
  <2>1. /\ DOMAIN pages' = DOMAIN pages \cup {page} /\ pages'[page] = shown
        /\ \A p \in DOMAIN pages : pages'[p] = pages[p]
    BY <1>3 DEF Views!Show
  <2>2. \A p \in DOMAIN pages : p # page
    BY <1>3 DEF Views!Show
  <2>3. CASE page = "disk"
    <3>1. PICK s \in Nat :
            /\ Was(s) /\ shown.size = GiB * s
            /\ shown.rates = Views!DiskRates(disk.type, s)
            /\ shown.encryption = Views!get_disk_encryption_type(disk.key)
      BY <1>3, <2>3
    <3>2. /\ Was(s)' /\ pages'["disk"].size = GiB * s
          /\ pages'["disk"].rates = Views!DiskRates(disk'.type, s)
          /\ pages'["disk"].encryption = Views!get_disk_encryption_type(disk'.key)
      BY <1>1, <1>2, <2>1, <2>3, <3>1
    <3>3. \A p \in DOMAIN pages' \ {"disk"} : p \in DOMAIN pages /\ pages'[p] = pages[p]
      BY <2>1, <2>3
    <3>4. DiskPage'
      BY <3>2 DEF DiskPage
    <3>5. InstancePage'
      BY <1>1, <1>2, <3>3 DEF ViewsInv, PagesInv, InstancePage
    <3>6. SnapshotPage' /\ MachineImagePage' /\ TemplatePage'
      BY <1>1, <1>2, <3>3
         DEF ViewsInv, PagesInv, SnapshotPage, MachineImagePage, TemplatePage
    <3>7. PagesInv'
      BY <3>4, <3>5, <3>6 DEF PagesInv
    <3> QED BY <1>1, <1>2, <2>1, <3>7 DEF ViewsInv
  <2>4. CASE page = "instance"
    BY <1>1, <1>2, <1>3, <2>1, <2>2, <2>4
       DEF ViewsInv, PagesInv, DiskPage, InstancePage,
           SnapshotPage, MachineImagePage, TemplatePage
  <2>5. CASE page = "snapshot"
    BY <1>1, <1>2, <1>3, <2>1, <2>2, <2>5
       DEF ViewsInv, PagesInv, DiskPage, InstancePage,
           SnapshotPage, MachineImagePage, TemplatePage
  <2>6. CASE page = "machine_image"
    BY <1>1, <1>2, <1>3, <2>1, <2>2, <2>6
       DEF ViewsInv, PagesInv, DiskPage, InstancePage,
           SnapshotPage, MachineImagePage, TemplatePage
  <2>7. CASE page = "template"
    BY <1>1, <1>2, <1>3, <2>1, <2>2, <2>7
       DEF ViewsInv, PagesInv, DiskPage, InstancePage,
           SnapshotPage, MachineImagePage, TemplatePage
  <2> QED BY <1>1, <1>2, <2>1, <2>3, <2>4, <2>5, <2>6, <2>7 DEF ViewsInv, Views!Page
<1>4. CASE Views!ShowDisk
  BY <1>2, <1>3, <1>4 DEF Views!ShowDisk, Views!Page, ViewsInv
<1>5. CASE Views!get_disk_info
  <2>1. PICK l \in viewed_disks :
          Views!Show("instance", [size |-> GiB * l.sizeGb,
                                  rates |-> Views!InstanceRates(l.type, disk.sizeGb),
                                  encryption |-> "encrypted"])
    BY <1>5 DEF Views!get_disk_info
  <2>2. /\ l.type = disk.type /\ Was(l.sizeGb) /\ l.sizeGb <= disk.sizeGb
        /\ l.sizeGb \in Nat /\ disk.sizeGb \in Nat /\ (grew \/ l.sizeGb = disk.sizeGb)
    BY DEF ViewsInv, Was
  <2> QED BY <1>2, <1>3, <2>1, <2>2 DEF Views!Page
<1>6. CASE Views!ShowSnapshot
  <2>1. saved["snapshot"].key = disk.key /\ Was(saved["snapshot"].sizeGb)
    BY <1>6 DEF ViewsInv, Views!ShowSnapshot
  <2> QED BY <1>3, <1>6, <2>1 DEF Views!ShowSnapshot, Views!Page, Was
<1>7. CASE Views!ShowMachineImage
  <2>1. saved["machine_image"].type = disk.type /\ Was(saved["machine_image"].sizeGb)
    BY <1>7 DEF ViewsInv, Views!ShowMachineImage
  <2> QED BY <1>3, <1>7, <2>1
          DEF Views!ShowMachineImage, Views!MachineImageRates, Views!Page, Was
<1>8. CASE Views!ShowTemplate
  <2>1. PICK s \in Nat : Views!_get_disk_size(template) = GiB * s
    <3>1. CASE template = {}
      <4>1. Views!_get_disk_size(template) = GiB * 0
        BY <3>1, SMT DEF Views!_get_disk_size
      <4> QED BY <4>1
    <3>2. CASE \E s \in Nat : template = {s}
      BY <3>2 DEF Views!_get_disk_size
    <3> QED BY <3>1, <3>2 DEF ViewsInv
  <2> QED BY <1>3, <1>8, <2>1 DEF Views!ShowTemplate, Views!TemplateRates, Views!Page
<1> QED BY <1>4, <1>5, <1>6, <1>7, <1>8

LEMMA DiskChangesKeeps ==
  ASSUME ViewsInv, Sizes \subseteq Nat,
         \/ \E size \in Sizes : Views!Resize(size)
         \/ \E as \in {"snapshot", "machine_image"} : Views!Save(as)
         \/ Views!list_disks
  PROVE  ViewsInv'
<1>1. CASE \E size \in Sizes : Views!Resize(size)
  <2>1. PICK size \in Nat :
          /\ size > disk.sizeGb /\ disk' = [disk EXCEPT !.sizeGb = size]
          /\ grew' = (viewed_disks # {}) /\ UNCHANGED <<viewed_disks, saved, template, pages>>
    BY <1>1 DEF Views!Resize
  <2>2. /\ disk' \in [type : Views!Type, sizeGb : Nat, key : Views!Key]
        /\ disk'.type = disk.type /\ disk'.key = disk.key
        /\ disk'.sizeGb = size /\ disk.sizeGb \in Nat
    BY <2>1 DEF ViewsInv
  <2>3. \A s : Was(s) => Was(s)'
    BY <2>1, <2>2 DEF Was
  <2>4. viewed_disks # {} => grew'
    BY <2>1
  <2>5. PagesInv'
    BY <2>1, <2>2, <2>3, <2>4
       DEF ViewsInv, PagesInv, DiskPage, InstancePage,
           SnapshotPage, MachineImagePage, TemplatePage
  <2>6. grew' \in BOOLEAN
    BY <2>1
  <2> QED BY <2>1, <2>2, <2>3, <2>4, <2>5, <2>6 DEF ViewsInv
<1>2. CASE \E as \in {"snapshot", "machine_image"} : Views!Save(as)
  <2>1. PICK as \in {"snapshot", "machine_image"} : Views!Save(as)
    BY <1>2
  <2>2. /\ UNCHANGED <<disk, grew, viewed_disks, template, pages>>
        /\ \A k \in DOMAIN saved' : saved'[k] = disk \/ (k \in DOMAIN saved /\ saved'[k] = saved[k])
    BY <2>1 DEF Views!Save
  <2>3. Was(disk.sizeGb) /\ \A s : Was(s)' <=> Was(s)
    BY <2>2 DEF ViewsInv, Was
  <2>4. PagesInv'
    BY <2>2, <2>3
       DEF ViewsInv, PagesInv, DiskPage, InstancePage,
           SnapshotPage, MachineImagePage, TemplatePage
  <2> QED BY <2>2, <2>3, <2>4 DEF ViewsInv
<1>3. CASE Views!list_disks
  <2>1. /\ UNCHANGED <<disk, grew, saved, template, pages>>
        /\ viewed_disks = {} /\ viewed_disks' = {disk}
    BY <1>3 DEF Views!list_disks
  <2>2. Was(disk.sizeGb) /\ \A s : Was(s)' <=> Was(s)
    BY <2>1 DEF ViewsInv, Was
  <2>3. PagesInv'
    BY <2>1, <2>2
       DEF ViewsInv, PagesInv, DiskPage, InstancePage,
           SnapshotPage, MachineImagePage, TemplatePage
  <2> QED BY <2>1, <2>2, <2>3 DEF ViewsInv
<1> QED BY <1>1, <1>2, <1>3

\* Pages that show a disk with one size show it with the same rates, but for
\* rounding, growth between two listings, and bytes taken for GB.
LEMMA PagesReported ==
  ASSUME Sizes \subseteq Nat, GiB \in Nat \ {0}
  PROVE  Views!Spec => []Views!PagesAgree
<1>1. Views!Init => ViewsInv
  <2> SUFFICES ASSUME Views!Init PROVE ViewsInv
    OBVIOUS
  <2>1. disk \in [type : Views!Type, sizeGb : Sizes, key : Views!Key]
    BY DEF Views!Init
  <2>2. DOMAIN saved = {} /\ DOMAIN pages = {} /\ viewed_disks = {} /\ grew = FALSE
    BY DEF Views!Init
  <2>3. template = {} \/ \E s \in Nat : template = {s}
    BY <2>1 DEF Views!Init
  <2> QED BY <2>1, <2>2, <2>3
     DEF ViewsInv, PagesInv, DiskPage, InstancePage,
         SnapshotPage, MachineImagePage, TemplatePage
<1>2. ViewsInv /\ [Views!Next]_(Views!vars) => ViewsInv'
  <2> SUFFICES ASSUME ViewsInv, [Views!Next]_(Views!vars) PROVE ViewsInv'
    OBVIOUS
  <2>1. CASE UNCHANGED Views!vars
    BY <2>1 DEF Views!vars, ViewsInv, PagesInv, DiskPage, InstancePage, SnapshotPage,
         MachineImagePage, TemplatePage, Was
  <2> QED BY <2>1, ShowKeeps, DiskChangesKeeps DEF Views!Next
<1>3. ViewsInv => Views!PagesAgree
  BY PagesShowSizes
<1> QED BY <1>1, <1>2, <1>3, PTL DEF Views!Spec

-----------------------------------------------------------------------------
\* The types.  Those of results rest on the invariants: an instance, group or
\* disk is answered in one way since it was still to be reached.

LEMMA InitPoliciesTyped == ASSUME Policies!Init PROVE Policies!TypeOK
<1>1. PICK P \in SUBSET Policy :
        resource_policies \in [P -> {d \in Policies!PolicyDict : d.region = "url"}]
  BY DEF Policies!Init
<1>2. resource_policies \in [P -> Policies!PolicyDict]
  BY <1>1
<1>3. /\ disks \in [Disk -> Policies!ListedDisk] /\ left = Disk
      /\ DOMAIN snapshot_schedule = {} /\ DOMAIN errors = {}
  BY DEF Policies!Init
<1> QED BY <1>2, <1>3 DEF Policies!TypeOK

\* Rewriting keeps the policies what they are, with a region that is parsed.
LEMMA RewrittenTyped ==
  ASSUME NEW P \in SUBSET Policy, resource_policies \in [P -> Policies!PolicyDict],
         NEW seen
  PROVE  /\ Policies!Rewritten(seen) \in [P -> Policies!PolicyDict]
         /\ \A p \in P \cap seen : Policies!Rewritten(seen)[p].region \in {"name", ""}
<1>1. ASSUME NEW p \in P
      PROVE  /\ Policies!get_param_in_url(resource_policies[p].region) \in {"name", ""}
             /\ [resource_policies[p] EXCEPT !.region = Policies!get_param_in_url(@)]
                  \in Policies!PolicyDict
  BY DEF Policies!get_param_in_url, Policies!PolicyDict
<1> QED BY <1>1 DEF Policies!Rewritten, Policies!PolicyDict

LEMMA PoliciesTyped ==
  ASSUME Policies!TypeOK, [Policies!Next]_(Policies!vars) PROVE Policies!TypeOK'
<1>1. CASE UNCHANGED Policies!vars
  BY <1>1 DEF Policies!TypeOK, Policies!vars
<1>2. ASSUME NEW d \in left, Policies!BuildDisk(d) PROVE Policies!TypeOK'
  <2>1. /\ d \in Disk /\ d \notin DOMAIN snapshot_schedule /\ d \notin DOMAIN errors
        /\ left' = left \ {d} /\ disks' = disks
    BY <1>2 DEF Policies!TypeOK, Policies!BuildDisk
  <2>2. PICK P \in SUBSET Policy : resource_policies \in [P -> Policies!PolicyDict]
    BY DEF Policies!TypeOK
  <2>3. ASSUME NEW e, e \in {"TypeError", "ValueError"}, UNCHANGED snapshot_schedule,
               errors' = [f \in DOMAIN errors \cup {d} |-> IF f = d THEN e ELSE errors[f]],
               resource_policies' \in [P -> Policies!PolicyDict]
        PROVE  Policies!TypeOK'
    <3>1. /\ DOMAIN errors' = DOMAIN errors \cup {d}
          /\ \A f \in DOMAIN errors' : errors'[f] \in {"TypeError", "ValueError"}
      BY <2>3 DEF Policies!TypeOK
    <3> QED BY <2>1, <2>3, <3>1 DEF Policies!TypeOK
  <2>4. CASE Policies!FailWithoutPolicies(d)
    <3>1. errors' = [f \in DOMAIN errors \cup {d} |-> IF f = d THEN "TypeError" ELSE errors[f]]
      BY <2>4 DEF Policies!FailWithoutPolicies
    <3> QED BY <2>2, <2>3, <2>4, <3>1 DEF Policies!FailWithoutPolicies
  <2>5. CASE Policies!FailToDisplay(d)
    <3>1. errors' = [f \in DOMAIN errors \cup {d} |-> IF f = d THEN "ValueError" ELSE errors[f]]
      BY <2>5 DEF Policies!FailToDisplay
    <3> QED BY <2>2, <2>3, <2>5, <3>1, RewrittenTyped DEF Policies!FailToDisplay
  <2>6. CASE Policies!Collect(d)
    <3> DEFINE Shown == [k \in Policies!Matched(d) |->
                           LET p == disks[d].resourcePolicies[k]
                           IN [policy |-> p, region |-> resource_policies'[p].region]]
    <3>1. /\ Policies!Displayed(d) = Policies!Matched(d) /\ errors' = errors
          /\ resource_policies' = Policies!Rewritten(Policies!Seen(d))
          /\ snapshot_schedule' = [e \in DOMAIN snapshot_schedule \cup {d} |->
               IF e # d THEN snapshot_schedule[e] ELSE Shown]
      BY <2>6 DEF Policies!Collect
    <3>2. resource_policies' \in [P -> Policies!PolicyDict]
      BY <2>2, <3>1, RewrittenTyped
    <3>3. ASSUME NEW k \in Policies!Matched(d)
          PROVE  Shown[k] \in [policy : Policy, region : {"name", ""}]
      <4> DEFINE p == disks[d].resourcePolicies[k]
      <4>1. p \in P \cap Policies!Seen(d)
        BY <2>2, <3>1, <3>3 DEF Policies!Seen, Policies!Matched, Policies!policies
      <4> HIDE DEF p
      <4>2. resource_policies'[p].region \in {"name", ""}
        <5>1. Policies!Rewritten(Policies!Seen(d))[p].region \in {"name", ""}
          BY <2>2, <4>1, RewrittenTyped
        <5> QED BY <3>1, <5>1
      <4>3. Shown[k] = [policy |-> p, region |-> resource_policies'[p].region]
        BY <3>3 DEF p
      <4>4. p \in Policy
        BY <4>1
      <4>5. [policy |-> p, region |-> resource_policies'[p].region]
              \in [policy : Policy, region : {"name", ""}]
        BY <4>2, <4>4
      <4> QED BY <4>3, <4>5, Zenon
    <3> HIDE DEF Shown
    <3>4. DOMAIN Shown = Policies!Matched(d) /\ Shown = [k \in Policies!Matched(d) |-> Shown[k]]
      BY DEF Shown
    <3>5. Shown \in [DOMAIN Shown -> [policy : Policy, region : {"name", ""}]]
      BY <3>3, <3>4
    <3>6. /\ DOMAIN snapshot_schedule' = DOMAIN snapshot_schedule \cup {d}
          /\ \A e \in DOMAIN snapshot_schedule' :
               snapshot_schedule'[e] = IF e = d THEN Shown ELSE snapshot_schedule[e]
      BY <3>1
    <3>7. \A e \in DOMAIN snapshot_schedule' :
            snapshot_schedule'[e] \in [DOMAIN snapshot_schedule'[e] ->
                                         [policy : Policy, region : {"name", ""}]]
      BY <2>1, <3>5, <3>6 DEF Policies!TypeOK
    <3>8. /\ DOMAIN snapshot_schedule' \cup DOMAIN errors' = Disk \ left'
          /\ DOMAIN snapshot_schedule' \cap DOMAIN errors' = {}
      BY <2>1, <3>1, <3>6 DEF Policies!TypeOK
    <3> QED BY <2>1, <3>1, <3>2, <3>7, <3>8 DEF Policies!TypeOK
  <2> QED BY <1>2, <2>4, <2>5, <2>6 DEF Policies!BuildDisk
<1> QED BY <1>1, <1>2 DEF Policies!Next

LEMMA InstancesTyped ==
  ASSUME Predefined \subseteq MachineType, TypeOf \in [VM -> MachineType]
  PROVE  /\ VMs!Init => VMs!TypeOK
         /\ BuildInv /\ VMs!TypeOK /\ BuildInv' /\ [VMs!Next]_(VMs!vars) => VMs!TypeOK'
<1>1. VMs!Init => VMs!TypeOK
  <2>1. DOMAIN <<>> = {}
    OBVIOUS
  <2> QED BY <2>1 DEF VMs!Init, VMs!TypeOK
<1> SUFFICES ASSUME BuildInv, VMs!TypeOK, BuildInv', [VMs!Next]_(VMs!vars)
             PROVE  VMs!TypeOK'
  BY <1>1
<1>2. /\ DOMAIN collected' \cap DOMAIN vm_errors' = {}
      /\ DOMAIN collected' \cup DOMAIN vm_errors' = (DOMAIN compute_vms') \ vms_left'
      /\ asked' \in [MachineType -> Nat]
      /\ phase' \in {"list_disks", "list_others", "list_instances", "build"}
  BY DEF BuildInv
<1>3. /\ attached' \in [VM -> SUBSET VMs!AnyDisk] /\ all_disks' \subseteq Disk
      /\ instance_types' \subseteq MachineType /\ vms_left' \subseteq VM
      /\ compute_vms' = <<>> \/ compute_vms' \in [VM -> SUBSET VMs!AnyDisk]
  <2>1. CASE VMs!ListDisks
    <3>1. /\ UNCHANGED <<attached, instance_types, compute_vms, vms_left>>
          /\ all_disks' = (UNION {attached[v] : v \in VM}) \ LocalSSD
      BY <2>1 DEF VMs!ListDisks, VMs!results
    <3>2. \A v \in VM : attached[v] \subseteq VMs!AnyDisk
      BY DEF VMs!TypeOK
    <3>3. all_disks' \subseteq Disk
      BY <3>1, <3>2 DEF VMs!AnyDisk
    <3> QED BY <3>1, <3>3 DEF VMs!TypeOK
  <2>2. CASE VMs!ListOthers
    BY <2>2 DEF VMs!TypeOK, VMs!ListOthers, VMs!results
  <2>3. CASE VMs!ListInstances
    BY <2>3 DEF VMs!TypeOK, VMs!ListInstances
  <2>4. ASSUME NEW v \in VM, VMs!BuildVM(v)
        PROVE  /\ UNCHANGED <<attached, all_disks, compute_vms>> /\ vms_left' \subseteq vms_left
               /\ instance_types' \subseteq MachineType
    BY <2>4 DEF VMs!TypeOK, VMs!BuildVM, VMs!FailAtDisk, VMs!BuildPredefined,
                VMs!BuildCustom, VMs!FailAtType
  <2>5. ASSUME NEW v \in VM, NEW d \in Disk, VMs!Attach(v, d) \/ VMs!Detach(v, d)
        PROVE  /\ UNCHANGED <<all_disks, instance_types, compute_vms, vms_left>>
               /\ attached' \in [VM -> SUBSET VMs!AnyDisk]
    BY <2>5 DEF VMs!TypeOK, VMs!Attach, VMs!Detach, VMs!AnyDisk, VMs!results
  <2>6. CASE UNCHANGED VMs!vars
    BY <2>6 DEF VMs!TypeOK, VMs!vars, VMs!results
  <2> QED BY <2>1, <2>2, <2>3, <2>4, <2>5, <2>6 DEF VMs!Next, VMs!TypeOK
<1> QED BY <1>2, <1>3 DEF VMs!TypeOK

LEMMA RelationsTyped ==
  ASSUME MaxChanges \in Nat
  PROVE  /\ Relations!Init => Relations!TypeOK
         /\ RelationsInv /\ Relations!TypeOK /\ [Relations!Next]_(Relations!vars)
              => Relations!TypeOK'
<1>0. Len(Relations!Calls) = 6
  BY DEF Relations!Calls
<1>1. ASSUME Relations!Init PROVE Relations!TypeOK
  <2>1. Relations!ProjectTypeOK
    BY <1>1 DEF Relations!Init, Relations!ProjectInit, Relations!ProjectTypeOK,
                Relations!Consistent
  <2>2. /\ Len(listings) = 0 /\ unasked = {} /\ managed = {}
        /\ DOMAIN connected = {}
    BY <1>1 DEF Relations!Init
  <2>3. raised \in BOOLEAN
    BY <1>1, Zenon DEF Relations!Init
  <2> QED BY <1>0, <2>1, <2>2, <2>3 DEF Relations!TypeOK
<1> SUFFICES ASSUME RelationsInv, Relations!TypeOK, [Relations!Next]_(Relations!vars)
             PROVE  Relations!TypeOK'
  BY <1>1
<1>2. ASSUME UNCHANGED <<project, changes, lasting, ever>> PROVE Relations!ProjectTypeOK'
  BY <1>2 DEF Relations!TypeOK, Relations!ProjectTypeOK, Relations!Consistent
<1>3. listings \in Seq(Answers) /\ Len(listings) \in 0 .. 6
  BY DEF RelationsInv, ListingsInv
<1>4. CASE Relations!ProjectChanges
  <2>1. PICK f \in Relations!Fact : Relations!Change(f)
    BY <1>4 DEF Relations!ProjectChanges
  <2>2. Relations!ProjectTypeOK'
    BY <2>1 DEF Relations!TypeOK, Relations!ProjectTypeOK, Relations!Change, Relations!Consistent
  <2>3. UNCHANGED <<listings, unasked, managed, raised, connected>>
    BY <1>4 DEF Relations!ProjectChanges, Relations!listingVars
  <2> QED BY <2>2, <2>3 DEF Relations!TypeOK
<1>5. CASE Relations!List
  <2> DEFINE call == Relations!Calls[Len(listings) + 1]
             answer == Relations!Answer(call)
  <2>1. /\ Len(listings) < 6 /\ listings' = Append(listings, answer)
        /\ unasked' = IF call = "instance_group_managers" THEN answer ELSE {}
        /\ UNCHANGED <<project, changes, lasting, ever, managed, raised, connected>>
    BY <1>0, <1>5 DEF Relations!List, Relations!Listing, Relations!projectVars
  <2>2. Len(listings') \in 0 .. 6
    BY <1>3, <2>1
  <2>3. unasked' \subseteq GroupManager
    BY <2>1 DEF Relations!Answer
  <2> QED BY <1>0, <1>2, <2>1, <2>2, <2>3 DEF Relations!TypeOK
<1>6. ASSUME NEW g \in GroupManager, Relations!ListMembers(g) \/ Relations!MembersNotFound(g)
      PROVE  Relations!TypeOK'
  <2>1. /\ UNCHANGED <<project, changes, lasting, ever, listings, connected>>
        /\ unasked' \subseteq unasked /\ managed' \subseteq managed \cup ConnectedVM
        /\ raised' \in {raised, TRUE}
    BY <1>6 DEF Relations!ListMembers, Relations!MembersNotFound, Relations!projectVars
  <2>2. raised' \in BOOLEAN
    BY <2>1, Zenon DEF Relations!TypeOK
  <2> QED BY <1>2, <2>1, <2>2 DEF Relations!TypeOK
<1>7. ASSUME NEW v \in ConnectedVM, Relations!BuildInstance(v) PROVE Relations!TypeOK'
  <2>1. /\ DOMAIN connected' = DOMAIN connected \cup {v}
        /\ UNCHANGED <<project, changes, lasting, ever, listings, unasked, managed, raised>>
    BY <1>7 DEF Relations!BuildInstance, Relations!projectVars, Relations!listingVars
  <2> QED BY <1>2, <2>1 DEF Relations!TypeOK
<1>8. CASE UNCHANGED Relations!vars
  BY <1>2, <1>8 DEF Relations!vars, Relations!projectVars, Relations!listingVars,
                    Relations!TypeOK
<1> QED BY <1>4, <1>5, <1>6, <1>7, <1>8 DEF Relations!Next

LEMMA GroupsTyped ==
  ASSUME MaxGroupChanges \in Nat
  PROVE  /\ Groups!Init => Groups!TypeOK
         /\ GroupsInv /\ Groups!TypeOK /\ [Groups!Next]_(Groups!vars) => Groups!TypeOK'
<1>1. Groups!Init => Groups!TypeOK
  BY CallsOf DEF Groups!Init, Groups!ProjectInit, Groups!TypeOK, Groups!ProjectTypeOK,
                 Groups!Consistent
<1> SUFFICES ASSUME GroupsInv, Groups!TypeOK, [Groups!Next]_(Groups!vars)
             PROVE  Groups!TypeOK'
  BY <1>1
<1>2. ASSUME UNCHANGED <<grouped, grouped_changes, grouped_lasting, grouped_ever>>
      PROVE  Groups!ProjectTypeOK' /\ Groups!OneTemplate'
  BY <1>2 DEF Groups!TypeOK, Groups!ProjectTypeOK, Groups!Consistent, Groups!OneTemplate
<1>3. grouped_listings \in Seq(GroupAnswers) /\ Len(Groups!Calls[manager]) \in Nat
  BY CallsOf DEF GroupsInv, GroupListingsInv
<1>4. CASE Groups!ProjectChanges
  <2>1. PICK f \in Groups!Fact : Groups!Change(f)
    BY <1>4 DEF Groups!ProjectChanges
  <2>2. Groups!ProjectTypeOK'
    BY <2>1 DEF Groups!TypeOK, Groups!ProjectTypeOK, Groups!Change, Groups!Consistent
  <2>3. /\ UNCHANGED <<manager, grouped_listings, groups, group_errors, templates>>
        /\ Groups!OneTemplate'
    BY <1>4 DEF Groups!ProjectChanges
  <2> QED BY <2>2, <2>3 DEF Groups!TypeOK
<1>5. CASE Groups!List
  <2>1. /\ Len(grouped_listings) < Len(Groups!Calls[manager])
        /\ grouped_listings' = Append(grouped_listings,
             Groups!Answer(Groups!Calls[manager][Len(grouped_listings) + 1]))
        /\ UNCHANGED <<grouped, grouped_changes, grouped_lasting, grouped_ever, manager, groups,
                       group_errors, templates>>
    BY <1>5 DEF Groups!List, Groups!Listing, Groups!projectVars
  <2>2. Len(grouped_listings') \in 0 .. Len(Groups!Calls[manager])
    BY <1>3, <2>1
  <2> QED BY <1>2, <2>1, <2>2 DEF Groups!TypeOK
<1>6. ASSUME NEW g \in Group, Groups!BuildGroup(g) \/ Groups!GroupNotFound(g)
      PROVE  Groups!TypeOK'
  <2>1. /\ g \notin DOMAIN groups /\ g \notin group_errors
        /\ UNCHANGED <<grouped, grouped_changes, grouped_lasting, grouped_ever, manager,
                       grouped_listings, templates>>
    BY <1>6 DEF Groups!BuildGroup, Groups!GroupNotFound, Groups!GroupsLeft, Groups!projectVars
  <2>2. \/ DOMAIN groups' = DOMAIN groups \cup {g} /\ group_errors' = group_errors
        \/ groups' = groups /\ group_errors' = group_errors \cup {g}
    BY <1>6 DEF Groups!BuildGroup, Groups!GroupNotFound
  <2> QED BY <1>2, <2>1, <2>2 DEF Groups!TypeOK
<1>7. ASSUME NEW t \in Template, Groups!BuildTemplate(t) PROVE Groups!TypeOK'
  <2>1. /\ DOMAIN templates' = DOMAIN templates \cup {t}
        /\ UNCHANGED <<grouped, grouped_changes, grouped_lasting, grouped_ever, manager,
                       grouped_listings, groups, group_errors>>
    BY <1>7 DEF Groups!BuildTemplate, Groups!projectVars
  <2> QED BY <1>2, <2>1 DEF Groups!TypeOK
<1>8. CASE UNCHANGED Groups!vars
  BY <1>2, <1>8 DEF Groups!vars, Groups!projectVars, Groups!TypeOK
<1> QED BY <1>4, <1>5, <1>6, <1>7, <1>8 DEF Groups!Next

LEMMA ServersTyped ==
  ASSUME MaxZoneChanges \in Nat
  PROVE  /\ Servers!Init => Servers!TypeOK
         /\ Servers!TypeOK /\ [Servers!Next]_(Servers!vars) => Servers!TypeOK'
<1>1. Servers!Init => Servers!TypeOK
  BY DEF Servers!Init, Servers!ProjectInit, Servers!TypeOK, Servers!ProjectTypeOK,
         Servers!Consistent
<1> SUFFICES ASSUME Servers!TypeOK, [Servers!Next]_(Servers!vars) PROVE Servers!TypeOK'
  BY <1>1
<1>2. ASSUME UNCHANGED <<zoned, zoned_changes, zoned_lasting, zoned_ever>>
      PROVE  Servers!ProjectTypeOK' /\ Servers!NamesTaken'
  BY <1>2 DEF Servers!TypeOK, Servers!ProjectTypeOK, Servers!Consistent, Servers!NamesTaken
<1>3. CASE Servers!ProjectChanges
  <2>1. PICK f \in Servers!Fact : Servers!Change(f)
    BY <1>3 DEF Servers!ProjectChanges
  <2>2. Servers!ProjectTypeOK' /\ zoned_ever \subseteq zoned_ever'
    BY <2>1 DEF Servers!TypeOK, Servers!ProjectTypeOK, Servers!Change, Servers!Consistent
  <2>3. /\ UNCHANGED <<stage, zoned_disks, instance, server>> /\ Servers!NamesTaken'
        /\ stage \in {"list_disks", "list_instances"}
    BY <1>3 DEF Servers!ProjectChanges
  <2> QED BY <2>2, <2>3 DEF Servers!TypeOK
<1>4. CASE Servers!list_disks
  <2>1. /\ UNCHANGED <<zoned, zoned_changes, zoned_lasting, zoned_ever, instance, server>>
        /\ stage = "list_disks" /\ stage' = "list_instances" /\ zoned_disks' = zoned
    BY <1>4 DEF Servers!list_disks, Servers!projectVars
  <2> QED BY <1>2, <2>1 DEF Servers!TypeOK, Servers!ProjectTypeOK
<1>5. CASE Servers!list_instances
  <2>1. PICK boot \in zoned, name \in Name, keys \in {"user:key", "other"},
             licenses \in {<<>>} \cup {<<l>> : l \in License} :
          instance' = [zone |-> boot[1], name |-> name, boot |-> boot,
                       licenses |-> licenses, ssh_keys |-> keys]
    BY <1>5 DEF Servers!list_instances
  <2>2. instance'.boot = boot /\ instance'.zone = boot[1]
    BY <2>1
  <2>3. /\ UNCHANGED <<zoned, zoned_changes, zoned_lasting, zoned_ever, zoned_disks, server>>
        /\ stage = "list_instances" /\ stage' = "build"
    BY <1>5 DEF Servers!list_instances, Servers!projectVars
  <2> QED BY <1>2, <2>2, <2>3 DEF Servers!TypeOK
<1>6. CASE Servers!get_server_info
  <2>1. /\ UNCHANGED <<zoned, zoned_changes, zoned_lasting, zoned_ever, zoned_disks, instance>>
        /\ stage = "build" /\ stage' = "built"
        /\ server' = [os |-> Servers!_get_os_data(instance.licenses),
                      image |-> Servers!_get_images(instance.name)]
    BY <1>6 DEF Servers!get_server_info, Servers!projectVars
  <2>2. DOMAIN server' = {"os", "image"} /\ DOMAIN <<>> = {}
    BY <2>1
  <2> QED BY <1>2, <2>1, <2>2 DEF Servers!TypeOK
<1>7. CASE Servers!FailAtKeys
  <2>1. /\ UNCHANGED <<zoned, zoned_changes, zoned_lasting, zoned_ever, zoned_disks, instance,
                       server>>
        /\ stage = "build" /\ stage' = "failed"
    BY <1>7 DEF Servers!FailAtKeys, Servers!projectVars
  <2> QED BY <1>2, <2>1 DEF Servers!TypeOK
<1>8. CASE UNCHANGED Servers!vars
  BY <1>2, <1>8 DEF Servers!vars, Servers!projectVars, Servers!TypeOK
<1> QED BY <1>3, <1>4, <1>5, <1>6, <1>7, <1>8 DEF Servers!Next

LEMMA ViewsTyped ==
  ASSUME MaxResizes \in Nat
  PROVE  /\ Views!Init => Views!TypeOK
         /\ Views!TypeOK /\ [Views!Next]_(Views!vars) => Views!TypeOK'
<1>1. ASSUME Views!Init PROVE Views!TypeOK
  <2>1. /\ disk \in [type : Views!Type, sizeGb : Sizes, key : Views!Key]
        /\ resizes = 0 /\ viewed_disks = {}
        /\ DOMAIN saved = {} /\ DOMAIN pages = {}
    BY <1>1 DEF Views!Init
  <2>2. grew \in BOOLEAN
    BY <1>1, Zenon DEF Views!Init
  <2> QED BY <2>1, <2>2 DEF Views!TypeOK
<1> SUFFICES ASSUME Views!TypeOK, [Views!Next]_(Views!vars) PROVE Views!TypeOK'
  BY <1>1
<1>2. ASSUME NEW size \in Sizes, Views!Resize(size) PROVE Views!TypeOK'
  <2>1. grew' \in BOOLEAN
    BY <1>2 DEF Views!Resize
  <2> QED BY <1>2, <2>1 DEF Views!Resize, Views!TypeOK
<1>3. ASSUME NEW as \in {"snapshot", "machine_image"}, Views!Save(as) PROVE Views!TypeOK'
  BY <1>3 DEF Views!Save, Views!TypeOK
<1>4. CASE Views!list_disks
  BY <1>4 DEF Views!list_disks, Views!TypeOK
<1>5. ASSUME NEW page \in Views!Page, NEW shown, Views!Show(page, shown),
             UNCHANGED viewed_disks
      PROVE  Views!TypeOK'
  BY <1>5 DEF Views!Show, Views!TypeOK
<1>6. \/ Views!ShowDisk \/ Views!get_disk_info \/ Views!ShowSnapshot
      \/ Views!ShowMachineImage \/ Views!ShowTemplate
      => Views!TypeOK'
  BY <1>5, Zenon DEF Views!ShowDisk, Views!get_disk_info, Views!ShowSnapshot,
         Views!ShowMachineImage, Views!ShowTemplate, Views!Page
<1>7. CASE UNCHANGED Views!vars
  BY <1>7 DEF Views!vars, Views!TypeOK
<1> QED BY <1>2, <1>3, <1>4, <1>6, <1>7 DEF Views!Next

-----------------------------------------------------------------------------
\* The managers together: one that is given work takes its own steps and no
\* other, since the others leave its variables as they are.

WorksVMs == "vms" \in working

LEMMA VMsAlone == Spec => VMs!Spec \/ []~WorksVMs
<1>1. Init /\ WorksVMs => VMs!Init
  BY DEF Init, WorksVMs
<1>2. WorksVMs /\ [Next]_vars => WorksVMs' /\ [VMs!Next]_(VMs!vars)
  BY DEF Next, vars, WorksVMs, vmVars, VMs!vars, VMs!results
<1>3. ~WorksVMs /\ [Next]_vars => ~WorksVMs'
  BY DEF Next, vars, WorksVMs
<1> QED BY <1>1, <1>2, <1>3, PTL DEF Spec, VMs!Spec

WorksServers == "servers" \in working

LEMMA ServersAlone == Spec => Servers!Spec \/ []~WorksServers
<1>1. Init /\ WorksServers => Servers!Init
  BY DEF Init, WorksServers
<1>2. WorksServers /\ [Next]_vars => WorksServers' /\ [Servers!Next]_(Servers!vars)
  BY DEF Next, vars, WorksServers, serverVars, Servers!vars, Servers!projectVars
<1>3. ~WorksServers /\ [Next]_vars => ~WorksServers'
  BY DEF Next, vars, WorksServers
<1> QED BY <1>1, <1>2, <1>3, PTL DEF Spec, Servers!Spec

\* Whatever is attached and detached while the project is being listed, an
\* instance is reported with the disks it was listed with, it fails at them only
\* for a local SSD or a disk that was attached meanwhile, and a machine type is
\* asked for until it is known and not once more.  It is shown with the image
\* of its boot disk if that has its name, lasts, and is the only disk of that
\* name, for any number of zones and of changes.
THEOREM Instances == Spec => []InstancesShown
<1>1. VMs!Spec => [](VMs!OwnDisks /\ VMs!FailsAtDiskOnly /\ VMs!TypeAskedOnce)
  BY InstancesReported
<1>2. Servers!Spec => []Servers!ImageOfBootDisk
  BY ImagesFound, LinksAssumption
<1>3. /\ WorksVMs => VMs!OwnDisks /\ VMs!FailsAtDiskOnly /\ VMs!TypeAskedOnce
      /\ WorksServers => Servers!ImageOfBootDisk
      => InstancesShown
  BY DEF WorksVMs, WorksServers, InstancesShown
<1> QED BY <1>1, <1>2, <1>3, VMsAlone, ServersAlone, PTL

\* However many disks share a policy, at most one of them is shown with its
\* region, and whether a disk fails does not depend on the others; the pages a
\* disk is on agree about its rates as far as they agree about its size.
THEOREM Disks == Spec => []DisksShown
<1>1. Policies!Spec => [](Policies!RegionShownOnce /\ Policies!DisksIndependent)
  BY DisksReported
<1>2. Views!Spec => []Views!PagesAgree
  BY PagesReported, SizesAssumption
<1>3. /\ WorksPolicies => Policies!RegionShownOnce /\ Policies!DisksIndependent
      /\ WorksViews => Views!PagesAgree
      => DisksShown
  BY DEF WorksPolicies, WorksViews, DisksShown
<1> QED BY <1>1, <1>2, <1>3, PoliciesAlone, ViewsAlone, PTL

\* No manager is ever in a state it has no name for: a disk, an instance or a
\* group is still to be reached, collected or an error response, and one of
\* these; what is shown of a policy is one of the project's.
THEOREM TypesCorrect == Spec => []TypeOK
<1>1. Spec => [](WorksPolicies => Policies!TypeOK)
  <2>1. Policies!Spec => []Policies!TypeOK
    BY InitPoliciesTyped, PoliciesTyped, PTL DEF Policies!Spec
  <2> QED BY <2>1, PoliciesAlone, PTL
<1>2. Spec => [](WorksVMs => VMs!TypeOK)
  <2>1. VMs!Spec => []BuildInv
    BY BuildInvariance
  <2>2. VMs!Init => VMs!TypeOK
    BY InstancesTyped, TypesAssumption
  <2>3. BuildInv /\ VMs!TypeOK /\ BuildInv' /\ [VMs!Next]_(VMs!vars) => VMs!TypeOK'
    BY InstancesTyped, TypesAssumption
  <2>4. VMs!Spec => []VMs!TypeOK
    BY <2>1, <2>2, <2>3, PTL DEF VMs!Spec
  <2> QED BY <2>4, VMsAlone, PTL
<1>3. Spec => [](WorksRelations => Relations!TypeOK)
  <2>1. Relations!Spec => []RelationsInv
    BY RelationsInvariance, LinksAssumption
  <2>2. Relations!Init => Relations!TypeOK
    BY RelationsTyped, BoundsAssumption
  <2>3. RelationsInv /\ Relations!TypeOK /\ [Relations!Next]_(Relations!vars)
          => Relations!TypeOK'
    BY RelationsTyped, BoundsAssumption
  <2>4. Relations!Spec => []Relations!TypeOK
    BY <2>1, <2>2, <2>3, PTL DEF Relations!Spec
  <2> QED BY <2>4, RelationsAlone, PTL
<1>4. Spec => [](WorksGroups => Groups!TypeOK)
  <2>1. Groups!Spec => []GroupsInv
    BY GroupsInvariance, FiniteAssumption
  <2>2. Groups!Init => Groups!TypeOK
    BY GroupsTyped, BoundsAssumption
  <2>3. GroupsInv /\ Groups!TypeOK /\ [Groups!Next]_(Groups!vars) => Groups!TypeOK'
    BY GroupsTyped, BoundsAssumption
  <2>4. Groups!Spec => []Groups!TypeOK
    BY <2>1, <2>2, <2>3, PTL DEF Groups!Spec
  <2> QED BY <2>4, GroupsAlone, PTL
<1>5. Spec => [](WorksServers => Servers!TypeOK)
  <2>1. Servers!Init => Servers!TypeOK
    BY ServersTyped, BoundsAssumption
  <2>2. Servers!TypeOK /\ [Servers!Next]_(Servers!vars) => Servers!TypeOK'
    BY ServersTyped, BoundsAssumption
  <2>3. Servers!Spec => []Servers!TypeOK
    BY <2>1, <2>2, PTL DEF Servers!Spec
  <2> QED BY <2>3, ServersAlone, PTL
<1>6. Spec => [](WorksViews => Views!TypeOK)
  <2>1. Views!Init => Views!TypeOK
    BY ViewsTyped, BoundsAssumption
  <2>2. Views!TypeOK /\ [Views!Next]_(Views!vars) => Views!TypeOK'
    BY ViewsTyped, BoundsAssumption
  <2>3. Views!Spec => []Views!TypeOK
    BY <2>1, <2>2, PTL DEF Views!Spec
  <2> QED BY <2>3, ViewsAlone, PTL
<1>7. /\ WorksPolicies => Policies!TypeOK
      /\ WorksVMs => VMs!TypeOK
      /\ WorksRelations => Relations!TypeOK
      /\ WorksGroups => Groups!TypeOK
      /\ WorksServers => Servers!TypeOK
      /\ WorksViews => Views!TypeOK
      => TypeOK
  BY DEF TypeOK, WorksPolicies, WorksVMs, WorksRelations, WorksGroups, WorksServers, WorksViews
<1> QED BY <1>1, <1>2, <1>3, <1>4, <1>5, <1>6, <1>7, PTL

=============================================================================
