-------------------------- MODULE ConnectorPaging --------------------------
(***************************************************************************)
(* How the connectors (connector/) turn the pages of a Google API into one *)
(* list.  Every list method runs the same loop:                            *)
(*                                                                         *)
(*   while request is not None: execute it, join the page to the result,   *)
(*   ask list_next for the next request                                    *)
(*                                                                         *)
(* and differs from the others only in how it joins a page:                *)
(*                                                                         *)
(*   "items"   appends each item of the page                               *)
(*   "scopes"  extends the result by the items of each zone or region      *)
(*   "keyed"   updates a dictionary: zone or region -> its items           *)
(*   "page"    assigns the page to the result                              *)
(*   "first"   has no loop: one page is executed and returned              *)
(***************************************************************************)
EXTENDS Naturals, FiniteSets, TLC

CONSTANTS
  Item,     \* resources
  Scope,    \* zones and regions
  ScopeOf   \* where a resource is

VARIABLES
  listing,    \* the connector class and the method that is running
  collection, \* what there is to list
  unserved,   \* what the API has not put on a page yet
  request,    \* request is not None
  result,     \* how often each resource is in the result so far
  outcome     \* "running", "returned" or "raised"

vars == <<listing, collection, unserved, request, result, outcome>>

ScopesTyped == ScopeOf \in [Item -> Scope]

-----------------------------------------------------------------------------
SQLWorkspaceConnector == [list_dataset |-> "items"]

StorageConnector == [list_buckets |-> "items"]

CloudSQLInstanceConnector ==
  [list_instances |-> "items", list_databases |-> "items",
   list_users |-> "first"]

InstanceTemplateConnector ==
  [list_instance_templates |-> "items",
   list_instance_group_managers |-> "scopes"]

InstanceGroupConnector ==
  [list_instances |-> "first", list_instance_templates |-> "items",
   list_instance_groups |-> "scopes",
   list_instance_group_managers |-> "scopes", list_autoscalers |-> "scopes"]

MachineImageConnector ==
  [list_machine_images |-> "items", list_machine_types |-> "first",
   list_disks |-> "first", list_public_images |-> "first"]

DiskConnector ==
  [list_disks |-> "scopes", list_resource_policies |-> "keyed"]

ComputeSnapshotConnector ==
  [list_snapshot |-> "items", list_resource_policies |-> "first",
   list_all_disks_for_snapshots |-> "scopes"]

VMInstanceCollections ==
  [list_regions |-> "first", list_zones |-> "first",
   list_instances |-> "scopes", list_machine_types |-> "scopes",
   list_url_maps |-> "scopes", list_back_end_services |-> "scopes",
   list_disks |-> "scopes", list_autoscalers |-> "scopes",
   list_firewall |-> "items"]

VMInstanceConnector ==
  VMInstanceCollections @@
  [list_images |-> "first", list_instance_groups |-> "scopes",
   list_instance_from_instance_groups |-> "first",
   list_instance_group_managers |-> "scopes", list_vpcs |-> "items",
   list_subnetworks |-> "scopes", list_target_pools |-> "scopes",
   list_forwarding_rules |-> "scopes", get_instance_in_group |-> "first"]

RouteConnector == [list_routes |-> "items", list_instance |-> "scopes"]

ExternalIPAddressConnector ==
  [list_instance_for_networks |-> "scopes", list_forwarding_rule |-> "scopes",
   list_addresses |-> "scopes"]

FirewallConnector ==
  [list_firewall |-> "items", list_instance_for_networks |-> "scopes"]

LoadBalancingRoutes ==
  [list_url_maps |-> "scopes", list_backend_services |-> "scopes",
   list_target_pools |-> "scopes", list_forwarding_rules |-> "scopes",
   list_tcp_proxies |-> "items", list_ssl_proxies |-> "items",
   list_grpc_proxies |-> "items", list_backend_buckets |-> "items"]

LoadBalancingConnector ==
  LoadBalancingRoutes @@
  [list_target_http_proxies |-> "scopes",
   list_target_https_proxies |-> "scopes", list_ssl_certificates |-> "scopes",
   list_health_checks |-> "scopes", list_http_health_checks |-> "items",
   list_https_health_checks |-> "items", list_instance_groups |-> "scopes",
   list_autoscalers |-> "scopes"]

VPCNetworkConnector ==
  [list_instance_for_networks |-> "scopes", list_forwarding_rule |-> "scopes",
   list_networks |-> "items", list_regional_addresses |-> "scopes",
   list_subnetworks |-> "scopes", list_routes |-> "items",
   list_firewall |-> "items"]

SchemaConnector == [list_schema_names |-> "page"]

SubscriptionConnector == [list_subscriptions |-> "page"]

PubSubSnapshotConnector == [list_snapshots |-> "page"]

TopicConnector ==
  [list_topics |-> "page", list_snapshot_names |-> "page",
   list_subscription_names |-> "page"]

FunctionGen1Connector == [list_functions |-> "page"]

FunctionGen2Connector == [list_functions |-> "page"]

EventarcConnector == [list_providers |-> "page"]

RecommendationConnector == [list_recommendations |-> "page"]

CloudAssetConnector == [list_assets_in_project |-> "items"]

\* The listings of a class, each with the way it joins its pages.
Listings(class, methods) ==
  {[class |-> class, method |-> m, join |-> methods[m]] : m \in DOMAIN methods}

Listing ==
  Listings("SQLWorkspaceConnector", SQLWorkspaceConnector) \cup
  Listings("StorageConnector", StorageConnector) \cup
  Listings("CloudSQLInstanceConnector", CloudSQLInstanceConnector) \cup
  Listings("InstanceTemplateConnector", InstanceTemplateConnector) \cup
  Listings("InstanceGroupConnector", InstanceGroupConnector) \cup
  Listings("MachineImageConnector", MachineImageConnector) \cup
  Listings("DiskConnector", DiskConnector) \cup
  Listings("ComputeSnapshotConnector", ComputeSnapshotConnector) \cup
  Listings("VMInstanceConnector", VMInstanceConnector) \cup
  Listings("RouteConnector", RouteConnector) \cup
  Listings("ExternalIPAddressConnector", ExternalIPAddressConnector) \cup
  Listings("FirewallConnector", FirewallConnector) \cup
  Listings("LoadBalancingConnector", LoadBalancingConnector) \cup
  Listings("VPCNetworkConnector", VPCNetworkConnector) \cup
  Listings("SchemaConnector", SchemaConnector) \cup
  Listings("SubscriptionConnector", SubscriptionConnector) \cup
  Listings("PubSubSnapshotConnector", PubSubSnapshotConnector) \cup
  Listings("TopicConnector", TopicConnector) \cup
  Listings("FunctionGen1Connector", FunctionGen1Connector) \cup
  Listings("FunctionGen2Connector", FunctionGen2Connector) \cup
  Listings("EventarcConnector", EventarcConnector) \cup
  Listings("RecommendationConnector", RecommendationConnector) \cup
  Listings("CloudAssetConnector", CloudAssetConnector)

-----------------------------------------------------------------------------
\* Occurrences after a page has been appended to, or has become, the result.
Appended(page) == [i \in Item |-> result[i] + IF i \in page THEN 1 ELSE 0]
Assigned(page) == [i \in Item |-> IF i \in page THEN 1 ELSE 0]

\* Mutant of Keyed: the dictionary is rebuilt on every page.
KeyedAfresh(page) == Assigned(page)

\* resource_policy_vo.update({key: ...}): a scope that comes up again loses
\* what an earlier page had of it.  A scope without items is not in the page.
Keyed(page) ==
  [i \in Item |-> IF i \in page THEN 1
                  ELSE IF \E j \in page : ScopeOf[j] = ScopeOf[i] THEN 0
                  ELSE result[i]]

Join(page) == CASE listing.join \in {"items", "scopes"} -> Appended(page)
                [] listing.join = "keyed" -> Keyed(page)
                [] OTHER -> Assigned(page)

Init ==
  /\ listing \in Listing
  /\ collection \in SUBSET Item
  /\ unserved = collection
  /\ request = TRUE
  /\ result = [i \in Item |-> 0]
  /\ outcome = "running"

\* The API puts any part of the rest on the next page, an empty one included;
\* the last page, the one without a nextPageToken, holds what remains.
Page(page, last) == page \subseteq unserved /\ (last => page = unserved)

\* Mutant of Execute: an empty page is taken for the end of the listing.
ExecuteUntilEmpty ==
  /\ outcome = "running" /\ request
  /\ \E page \in SUBSET unserved, last \in BOOLEAN :
       /\ Page(page, last)
       /\ result' = Join(page)
       /\ unserved' = unserved \ page
       /\ request' = (~last /\ listing.join # "first" /\ page # {})
  /\ UNCHANGED <<listing, collection, outcome>>

\* Mutant of Execute: list_next is given the first request again.
ExecuteAgain ==
  /\ outcome = "running" /\ request
  /\ \E page \in SUBSET unserved, last \in BOOLEAN :
       /\ Page(page, last)
       /\ result' = Join(page)
       /\ request' = (~last /\ listing.join # "first")
  /\ UNCHANGED <<listing, collection, unserved, outcome>>

\* response = request.execute(), the join, and list_next.
Execute ==
  /\ outcome = "running" /\ request
  /\ \E page \in SUBSET unserved, last \in BOOLEAN :
       /\ Page(page, last)
       /\ result' = Join(page)
       /\ unserved' = unserved \ page
       /\ request' = (~last /\ listing.join # "first")
  /\ UNCHANGED <<listing, collection, outcome>>

\* execute raises: no method catches, what was joined so far is lost.
ExecuteFails ==
  /\ outcome = "running" /\ request
  /\ outcome' = "raised"
  /\ UNCHANGED <<listing, collection, unserved, request, result>>

Return ==
  /\ outcome = "running" /\ ~request
  /\ outcome' = "returned"
  /\ UNCHANGED <<listing, collection, unserved, request, result>>

Next == Execute \/ ExecuteFails \/ Return

Spec == Init /\ [][Next]_vars

-----------------------------------------------------------------------------
\* In particular no way of joining pages lists a resource twice.
TypeOK ==
  /\ listing \in Listing
  /\ collection \in SUBSET Item
  /\ unserved \in SUBSET collection
  /\ request \in BOOLEAN
  /\ result \in [Item -> 0 .. 1]
  /\ outcome \in {"running", "returned", "raised"}

Complete == \A i \in Item : result[i] = IF i \in collection THEN 1 ELSE 0

\* A listing that appends its pages returns every resource exactly once, into
\* however many pages, empty ones included, the API cuts the collection.
AppendedListingComplete ==
  outcome = "returned" /\ listing.join \in {"items", "scopes"} => Complete

\* The dictionary of resource policies has a policy of each region or zone
\* that has any, although it may have lost others: DiskManager, which reads
\* it with resource_policies.get(region), finds an entry.
RegionsWithPoliciesListed ==
  outcome = "returned" /\ listing.join = "keyed" =>
    \A i \in collection :
      \E j \in collection : ScopeOf[j] = ScopeOf[i] /\ result[j] = 1

\* FunctionGen2Manager: "List all information through connector".
FunctionsListed ==
  outcome = "returned" /\ listing.class = "FunctionGen2Connector" => Complete

=============================================================================
