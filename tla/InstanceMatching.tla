-------------------------- MODULE InstanceMatching --------------------------
(***************************************************************************)
(* Which instances a firewall or a route applies to: _get_matched_instance *)
(* of FirewallManager and RouteManager (manager/networking).               *)
(*                                                                         *)
(* Both walk the instances and, within one, its network interfaces.  On a  *)
(* match both assign the dictionary they build for the client to the loop  *)
(* variable "instance" itself: for the remaining interfaces the name no    *)
(* longer denotes what the API returned but a flattened copy, which has no *)
(* "networkInterfaces" and whose "tags" and "labels" are lists.            *)
(***************************************************************************)
EXTENDS Naturals, Sequences, FiniteSets

CONSTANTS
  Network,       \* VPC networks
  Tag,           \* network tags
  MaxInstances,  \* bound on the instances of the project
  MaxInterfaces  \* bound on the interfaces of an instance

VARIABLES
  rule,        \* the firewall or route in work
  instances,   \* what the connector listed
  at,          \* position in instances
  nic,         \* position in the interfaces of the instance
  bound,       \* what "instance" denotes: "listed" or "flattened"
  applicable,  \* matched_instances: [instance, address] positions
  outcome      \* "matching", "matched" or "AttributeError"

vars == <<rule, instances, at, nic, bound, applicable, outcome>>

-----------------------------------------------------------------------------
\* tags = {} is a route without the key "tags"
ListedRule == [manager : {"Firewall", "Route"}, network : Network, tags : SUBSET Tag]

\* Interfaces of one instance are in different networks (Google Cloud).
Interfaces ==
  {s \in UNION {[1 .. n -> Network] : n \in 0 .. MaxInterfaces} :
     \A j, k \in DOMAIN s : s[j] = s[k] => j = k}

Instance == [networkInterfaces : Interfaces, tags : SUBSET Tag]

\* Mutant of TagsMatched: a route with tags applies to every instance.
TagsIgnored(items, tags) == TRUE

\* instance["tags"]["items"] in route["tags"]: the list of an instance's tags
\* is looked for among strings, where no list is.
TagsMatched(items, tags) == tags = {}

OnNetwork(instance) ==
  \E k \in DOMAIN instance.networkInterfaces :
    instance.networkInterfaces[k] = rule.network

\* The flattened copy has no interfaces.
_check_instance_is_matched(instance) ==
  bound = "listed" /\ OnNetwork(instance) /\ TagsMatched(instance.tags, rule.tags)

\* Mutant of Matches: a firewall takes the instance's interfaces together.
MatchesAnyInterface(instance) ==
  IF rule.manager = "Firewall" THEN OnNetwork(instance)
  ELSE _check_instance_is_matched(instance)

Matches(instance) ==
  IF rule.manager = "Firewall"
  THEN instance.networkInterfaces[nic] = rule.network
  ELSE _check_instance_is_matched(instance)

Init ==
  /\ rule \in ListedRule
  /\ instances \in UNION {[1 .. n -> Instance] : n \in 0 .. MaxInstances}
  /\ at = 1 /\ nic = 1 /\ bound = "listed"
  /\ applicable = <<>>
  /\ outcome = "matching"

HasInterface == /\ outcome = "matching" /\ at <= Len(instances)
                /\ nic <= Len(instances[at].networkInterfaces)

\* Mutant of AddInstance: the built dictionary gets a name of its own.
AddInstanceUnderOwnName ==
  /\ HasInterface /\ Matches(instances[at])
  /\ applicable' = Append(applicable, [instance |-> at, address |-> nic])
  /\ nic' = nic + 1
  /\ UNCHANGED <<rule, instances, at, bound, outcome>>

\* A match.  On a flattened instance .get("tags", {}).get raises: the whole
\* firewall becomes an error response.
AddInstance ==
  /\ HasInterface /\ Matches(instances[at])
  /\ outcome' = IF bound = "flattened" THEN "AttributeError" ELSE outcome
  /\ applicable' = Append(applicable, [instance |-> at, address |-> nic])
  /\ bound' = "flattened"
  /\ nic' = nic + 1
  /\ UNCHANGED <<rule, instances, at>>

\* Mutant of SkipInterface: the first mismatch ends the inner loop.
SkipInstance ==
  /\ HasInterface /\ ~Matches(instances[at])
  /\ nic' = Len(instances[at].networkInterfaces) + 1
  /\ UNCHANGED <<rule, instances, at, bound, applicable, outcome>>

SkipInterface ==
  /\ HasInterface /\ ~Matches(instances[at])
  /\ nic' = nic + 1
  /\ UNCHANGED <<rule, instances, at, bound, applicable, outcome>>

NextInstance ==
  /\ outcome = "matching" /\ at <= Len(instances)
  /\ nic > Len(instances[at].networkInterfaces)
  /\ at' = at + 1 /\ nic' = 1 /\ bound' = "listed"
  /\ UNCHANGED <<rule, instances, applicable, outcome>>

\* return matched_instances; their number is the affected_instance_count
Finish ==
  /\ outcome = "matching" /\ at > Len(instances)
  /\ outcome' = "matched"
  /\ UNCHANGED <<rule, instances, at, nic, bound, applicable>>

Next == AddInstance \/ SkipInterface \/ NextInstance \/ Finish

Spec == Init /\ [][Next]_vars

-----------------------------------------------------------------------------
\* In particular no flattened instance is taken for a listed one.
TypeOK ==
  /\ rule \in ListedRule
  /\ instances \in Seq(Instance)
  /\ at \in 1 .. Len(instances) + 1
  /\ nic \in Nat \ {0}
  /\ bound \in {"listed", "flattened"}
  /\ applicable \in Seq([instance : 1 .. Len(instances), address : Nat])
  /\ outcome \in {"matching", "matched"}

\* The instances found so far, and how often.
Found(k) == {j \in DOMAIN applicable : applicable[j].instance = k}

\* A firewall is shown with every instance that has an interface in its
\* network, once, and with the address of that interface.
FirewallInstances ==
  outcome = "matched" /\ rule.manager = "Firewall" =>
    \A k \in DOMAIN instances :
      IF OnNetwork(instances[k])
      THEN \E j \in DOMAIN applicable :
             /\ Found(k) = {j}
             /\ instances[k].networkInterfaces[applicable[j].address]
                  = rule.network
      ELSE Found(k) = {}

\* A route without tags is shown with every instance of its network once,
\* however many interfaces the instance has: the affected_instance_count is
\* right.  It is the rebinding of "instance" that keeps the others out.
UntaggedRouteInstances ==
  outcome = "matched" /\ rule.manager = "Route" /\ rule.tags = {} =>
    \A k \in DOMAIN instances :
      Cardinality(Found(k)) = IF OnNetwork(instances[k]) THEN 1 ELSE 0

\* RouteManager: "instance tags is matched to route tags".
TaggedRouteInstances ==
  outcome = "matched" /\ rule.manager = "Route" /\ rule.tags # {} =>
    \A k \in DOMAIN instances :
      Found(k) # {} <=>
        OnNetwork(instances[k]) /\ instances[k].tags \cap rule.tags # {}

=============================================================================
