----------------------------- MODULE VMRelations -----------------------------
(***************************************************************************)
(* What VMInstanceManager shows an instance with besides disks, machine    *)
(* type and firewall rules: subnet and VPC, network interfaces, the load   *)
(* balancers of target pools, and whether an instance group manages it.    *)
(* The helpers are under manager/compute_engine/vm_instance.               *)
(*                                                                         *)
(* get_all_resources lists VPCs, subnets, forwarding rules, target pools,  *)
(* then the group managers and, one by one, their members; the instances   *)
(* come last.  A manager deleted before its members are asked for makes    *)
(* the call raise, and no instance of the project is collected.            *)
(***************************************************************************)
EXTENDS Naturals, Sequences, FiniteSets

CONSTANTS
  VM, Network, Subnet, TargetPool, ForwardingRule, GroupManager,
  NetworkOf,       \* the network of a subnet
  InterfacesOf,    \* the subnets of an instance's interfaces (no legacy network)
  TargetOf,        \* the target pool of a forwarding rule
  SubnetOrder,     \* the order in which the subnets are listed
  PartOf,          \* <<v, w>>: the link of v is part of the link of w
  MaxChanges

\* What the constants are: every instance has an interface, the listing of
\* subnets some order, every rule a pool.
WellTyped ==
  /\ NetworkOf \in [Subnet -> Network]
  /\ InterfacesOf \in [VM -> Seq(Subnet)] /\ \A v \in VM : InterfacesOf[v] # <<>>
  /\ SubnetOrder \in Seq(Subnet)
  /\ \A s \in Subnet : \E k \in DOMAIN SubnetOrder : SubnetOrder[k] = s
  /\ TargetOf \in [ForwardingRule -> TargetPool]

VARIABLES
  project, changes, lasting, ever,   \* see ChangingProject
  listings,    \* the calls that returned, in their order
  unasked,     \* group managers whose members have not been listed
  managed,     \* managed_instances_in_instance_groups
  raised,      \* collect_cloud_service was left by an exception
  collected    \* instance -> what it is shown with

-----------------------------------------------------------------------------
Placed(s) == <<"subnet", s>>
Exists(v) == <<"vm", v>>
Routed(r) == <<"rule", r>>
Member(p, v) == <<"member", p, v>>
Manages(g) == <<"manager", g>>
Managed(g, v) == <<"managed", g, v>>

Fact == {Placed(s) : s \in Subnet} \cup {Exists(v) : v \in VM}
        \cup {Routed(r) : r \in ForwardingRule}
        \cup {Member(p, v) : p \in TargetPool, v \in VM}
        \cup {Manages(g) : g \in GroupManager}
        \cup {Managed(g, v) : g \in GroupManager, v \in VM}

Needs(f) ==
  CASE f[1] = "vm" -> {Placed(InterfacesOf[f[2]][k]) : k \in DOMAIN InterfacesOf[f[2]]}
    [] f[1] = "managed" -> {Manages(f[2]), Exists(f[3])}
    [] OTHER -> {}

INSTANCE ChangingProject

projectVars == <<project, changes, lasting, ever>>

listingVars == <<listings, unasked, managed, raised>>

vars == <<projectVars, listingVars, collected>>

\* The calls in the order of the code.
Calls == <<"vpcs", "subnets", "forwarding_rules", "target_pools",
           "instance_group_managers", "instances">>

Init ==
  /\ ProjectInit
  /\ listings = <<>> /\ unasked = {} /\ managed = {} /\ raised = FALSE
  /\ collected = <<>>

Listing == ~raised /\ Len(listings) < Len(Calls)

ProjectChanges ==
  /\ Listing
  /\ \E f \in Fact : Change(f)
  /\ UNCHANGED <<listingVars, collected>>

\* A VPC comes with the links of its subnets, a pool with those of instances.
Answer(call) ==
  CASE call = "vpcs" ->
         [n \in Network |-> {s \in Subnet : NetworkOf[s] = n /\ Placed(s) \in project}]
    [] call = "subnets" -> {s \in Subnet : Placed(s) \in project}
    [] call = "forwarding_rules" -> {r \in ForwardingRule : Routed(r) \in project}
    [] call = "target_pools" ->
         [p \in TargetPool |-> {v \in VM : Member(p, v) \in project}]
    [] call = "instance_group_managers" -> {g \in GroupManager : Manages(g) \in project}
    [] call = "instances" -> {v \in VM : Exists(v) \in project}

List ==
  /\ Listing /\ unasked = {}
  /\ LET call == Calls[Len(listings) + 1]
     IN /\ listings' = Append(listings, Answer(call))
        /\ unasked' = IF call = "instance_group_managers" THEN Answer(call) ELSE {}
  /\ UNCHANGED <<projectVars, managed, raised, collected>>

\* Mutant of ListMembers: the members of the last manager are kept.
ListMembersAfresh(g) ==
  /\ Listing /\ g \in unasked
  /\ Manages(g) \in project
  /\ managed' = {v \in VM : Managed(g, v) \in project}
  /\ unasked' = unasked \ {g}
  /\ UNCHANGED <<projectVars, listings, raised, collected>>

\* list_managed_instances_in_instance_groups, one manager.  The call returns
\* one page of members; a group here has no more than that.
ListMembers(g) ==
  /\ Listing /\ g \in unasked
  /\ Manages(g) \in project
  /\ managed' = managed \cup {v \in VM : Managed(g, v) \in project}
  /\ unasked' = unasked \ {g}
  /\ UNCHANGED <<projectVars, listings, raised, collected>>

\* The manager is gone: 404, which nothing in the manager catches.
MembersNotFound(g) ==
  /\ Listing /\ g \in unasked
  /\ Manages(g) \notin project
  /\ raised' = TRUE
  /\ UNCHANGED <<projectVars, listings, unasked, managed, collected>>

Listed(call) == listings[CHOOSE k \in DOMAIN Calls : Calls[k] = call]

Interfaces(v) == {InterfacesOf[v][k] : k \in DOMAIN InterfacesOf[v]}

\* The first listed subnet of any interface; {} if none is listed.
_get_matching_subnet(v) ==
  LET matched == {k \in DOMAIN SubnetOrder :
                    SubnetOrder[k] \in Listed("subnets") \cap Interfaces(v)}
  IN {SubnetOrder[k] : k \in {j \in matched : \A m \in matched : j <= m}}

\* Mutant of _get_matching_vpc: the first VPC with a subnet of the instance.
vpc_of_any_interface(subnet, v) ==
  {n \in Network : Listed("vpcs")[n] \cap Interfaces(v) # {}}

_get_matching_vpc(subnet, v) ==
  {n \in Network : subnet # {} /\ subnet \subseteq Listed("vpcs")[n]}

\* Mutant of _get_matched_target_pool: the pool's first member only.
pools_by_one_member(v) ==
  {p \in TargetPool : Listed("target_pools")[p] = {v}}

\* any(inst_self_link in s for s in target_pool["instances"])
_get_matched_target_pool(v) ==
  {p \in TargetPool :
     \E w \in Listed("target_pools")[p] : w = v \/ <<v, w>> \in PartOf}

_get_matched_forwarding_rules(pools) ==
  {r \in Listed("forwarding_rules") : TargetOf[r] \in pools}

\* instance_list is not a key of what list_instance_group_managers returns: no
\* instance has a group, hence no autoscaler and no HTTP load balancer.
get_matched_instance_group(v) == {}

get_autoscaler_info(v) == get_matched_instance_group(v)

get_loadbalancer_info(v) ==
  get_matched_instance_group(v)
    \cup _get_matched_forwarding_rules(_get_matched_target_pool(v))

get_vpc_info(v) ==
  LET subnet == _get_matching_subnet(v)
  IN [subnet |-> subnet, vpc |-> _get_matching_vpc(subnet, v)]

\* All interfaces are shown with the range of the one subnet.
get_nic_info(v, subnet) == [k \in DOMAIN InterfacesOf[v] |-> subnet]

\* The part of get_vm_instance_resource that is modelled here.
BuildInstance(v) ==
  /\ Len(listings) = Len(Calls)
  /\ v \in Listed("instances") \ DOMAIN collected
  /\ LET placed == get_vpc_info(v)
     IN collected' = [w \in DOMAIN collected \cup {v} |->
          IF w # v THEN collected[w]
          ELSE [subnet |-> placed.subnet, vpc |-> placed.vpc,
                nics |-> get_nic_info(v, placed.subnet),
                load_balancers |-> get_loadbalancer_info(v),
                autoscaler |-> get_autoscaler_info(v),
                is_managed_instance |-> v \in managed]]
  /\ UNCHANGED <<projectVars, listingVars>>

Next ==
  \/ ProjectChanges \/ List
  \/ \E g \in GroupManager : ListMembers(g) \/ MembersNotFound(g)
  \/ \E v \in VM : BuildInstance(v)

Spec == Init /\ [][Next]_vars

-----------------------------------------------------------------------------
TypeOK ==
  /\ ProjectTypeOK
  /\ Len(listings) \in 0 .. Len(Calls)
  /\ unasked \subseteq GroupManager /\ managed \subseteq VM
  /\ raised \in BOOLEAN
  /\ DOMAIN collected \subseteq VM

\* An instance is shown with one of its subnets and the VPC of that very
\* subnet.  It is shown without VPC only if one of its subnets was created
\* while the project was being listed: between list_vpcs and list_subnetworks.
PlacedInOwnNetwork ==
  \A v \in DOMAIN collected :
    LET shown == collected[v]
    IN /\ shown.subnet \subseteq Interfaces(v)
       /\ \A s \in shown.subnet : shown.vpc \subseteq {NetworkOf[s]}
       /\ shown.vpc = {} =>
            \E s \in Interfaces(v) : Placed(s) \notin lasting

\* A balancer that has led to an instance all the time is shown with it.  One
\* that never has is shown only where the name of an instance continues that
\* of another, and is then the other's.
BalancersOfInstance ==
  \A v \in DOMAIN collected, r \in ForwardingRule :
    /\ {Routed(r), Member(TargetOf[r], v)} \subseteq lasting
         => r \in collected[v].load_balancers
    /\ r \in collected[v].load_balancers =>
         /\ Routed(r) \in ever
         /\ \E w \in VM : /\ w = v \/ <<v, w>> \in PartOf
                          /\ Member(TargetOf[r], w) \in ever

\* The instances of a project are collected, those that an instance group
\* manages marked, unless the manager of a group was deleted meanwhile: then
\* none is.
ManagedInstancesMarked ==
  /\ raised => \E g \in GroupManager : Manages(g) \in ever \ lasting
  /\ \A v \in DOMAIN collected, g \in GroupManager :
       Managed(g, v) \in lasting => collected[v].is_managed_instance
  /\ \A v \in DOMAIN collected :
       collected[v].is_managed_instance =>
         \E g \in GroupManager : Managed(g, v) \in ever

=============================================================================
