------------------------- MODULE NetworkingManagers -------------------------
(***************************************************************************)
(* The networking managers of one request.  They run at the same time and  *)
(* each works on lists of its own; what they share is what                 *)
(* GoogleCloudManager models.  Any set of them that AtWork holds is given  *)
(* work, with their steps in any order; the variables of the others are    *)
(* not used.                                                               *)
(***************************************************************************)
EXTENDS Naturals, Sequences, FiniteSets

CONSTANTS
  AtWork,    \* the sets of managers that may be given work
  \* FirewallManager and RouteManager, with VMInstanceManager's firewalls
  Network, Tag, MaxInstances, MaxInterfaces, Account, Protocol,
  \* ExternalIPAddressManager
  IP, Region, Rule, VM,
  \* LoadBalancingManager
  Proxy, ForwardingRule, TargetPool, UrlMap, BackendService, BackendBucket,
  HealthCheck, VpnGateway, PartOf,
  \* VPCNetworkManager
  Firewall, Subnet, Route, Address, NetworkOf, SubnetOf, MaxChanges

VARIABLE working    \* the managers that are given work

VARIABLES rule, instances, at, nic, bound, applicable, outcome

matchingVars == <<rule, instances, at, nic, bound, applicable, outcome>>

VARIABLES all_addresses, forwarding_rule_address, all_instances, todo, source,
          check_dup, vos

externalVars == <<all_addresses, forwarding_rule_address, all_instances, todo,
                  source, check_dup, vos>>

VARIABLES proxies, forwarding_rules, url_maps, backend_services,
          backend_buckets, health_checks, target_pools, load_balancers,
          collected

balancingVars == <<proxies, forwarding_rules, url_maps, backend_services,
                   backend_buckets, health_checks, target_pools,
                   load_balancers, collected>>

VARIABLES project, changes, lasting, ever, listings, vpcs

vpcVars == <<project, changes, lasting, ever, listings, vpcs>>

vars == <<working, matchingVars, externalVars, balancingVars, vpcVars>>

Matching == INSTANCE FirewallSides

External == INSTANCE ExternalIPAddress

Balancing == INSTANCE LoadBalancing

VPCs == INSTANCE VPCNetworks

ASSUME BoundsAssumption ==
  MaxInstances \in Nat /\ MaxInterfaces \in Nat /\ MaxChanges \in Nat

ASSUME LinksAssumption ==
  External!RegionsNamed /\ Balancing!LinksApart /\ VPCs!AddressesApart

-----------------------------------------------------------------------------
MatchingUnused ==
  /\ rule = <<>> /\ instances = <<>> /\ at = 0 /\ nic = 0 /\ bound = <<>>
  /\ applicable = <<>> /\ outcome = <<>>

ExternalUnused ==
  /\ all_addresses = <<>> /\ forwarding_rule_address = <<>>
  /\ all_instances = <<>> /\ todo = {} /\ source = <<>> /\ check_dup = <<>>
  /\ vos = <<>>

BalancingUnused ==
  /\ proxies = <<>> /\ forwarding_rules = <<>> /\ url_maps = <<>>
  /\ backend_services = <<>> /\ backend_buckets = {} /\ health_checks = {}
  /\ target_pools = {} /\ load_balancers = {} /\ collected = <<>>

VPCsUnused ==
  /\ project = {} /\ changes = 0 /\ lasting = {} /\ ever = {}
  /\ listings = <<>> /\ vpcs = <<>>

Init ==
  /\ working \in AtWork
  /\ IF "matching" \in working THEN Matching!Init ELSE MatchingUnused
  /\ IF "external" \in working THEN External!Init ELSE ExternalUnused
  /\ IF "balancing" \in working THEN Balancing!Init ELSE BalancingUnused
  /\ IF "vpcs" \in working THEN VPCs!Init ELSE VPCsUnused

Next ==
  /\ UNCHANGED working
  /\ \/ /\ "matching" \in working /\ Matching!Next
        /\ UNCHANGED <<externalVars, balancingVars, vpcVars>>
     \/ /\ "external" \in working /\ External!Next
        /\ UNCHANGED <<matchingVars, balancingVars, vpcVars>>
     \/ /\ "balancing" \in working /\ Balancing!Next
        /\ UNCHANGED <<matchingVars, externalVars, vpcVars>>
     \/ /\ "vpcs" \in working /\ VPCs!Next
        /\ UNCHANGED <<matchingVars, externalVars, balancingVars>>

Spec == Init /\ [][Next]_vars

-----------------------------------------------------------------------------
\* The types of the four managers.
TypeOK ==
  /\ "matching" \in working => Matching!TypeOK
  /\ "external" \in working => External!TypeOK
  /\ "balancing" \in working => Balancing!TypeOK
  /\ "vpcs" \in working => VPCs!TypeOK

\* Which instances a firewall or a route without tags is shown with.
InstancesMatched ==
  "matching" \in working =>
    Matching!FirewallInstances /\ Matching!UntaggedRouteInstances

\* What the page of a firewall and the page of an instance say of each other.
FirewallSidesAgree == "matching" \in working => Matching!FirewallSidesAgree

\* Which external addresses are reported, and as what.
AddressesShown ==
  "external" \in working => External!EachAddressOnce /\ External!AddressKind

\* What a load balancer is put together from.
BalancersShown ==
  "balancing" \in working =>
    /\ Balancing!RuleShownOnce /\ Balancing!HealthChecksOnTheWay
    /\ Balancing!PoolOrBackend

\* What a network is shown with while the project changes.
LastingShown == "vpcs" \in working => VPCs!LastingShown

=============================================================================
