--------------------------- MODULE ManagerLocator ---------------------------
(***************************************************************************)
(* How a name of CLOUD_SERVICE_GROUP_MAP becomes the class that runs.      *)
(*                                                                         *)
(* manager/__init__.py and connector/__init__.py import one class after    *)
(* the other into two name spaces, in which a later import of an equal     *)
(* name replaces the earlier one.  collect turns the option                *)
(* "cloud_service_types" into manager names and looks each up in the first *)
(* name space; a manager looks its connector up in the second.             *)
(***************************************************************************)
EXTENDS Naturals, Sequences, FiniteSetsExt

CONSTANT MaxGroups  \* bound on the length of the option's list

VARIABLES
  managers,         \* name space of the package manager: name -> package
  connectors,       \* name space of the package connector
  options,          \* the cloud_service_types of a request: one list or none
  execute_managers, \* names to run, then what they denote
  phase             \* "importing", "ready", "submitted" or "raised"

vars == <<managers, connectors, options, execute_managers, phase>>

-----------------------------------------------------------------------------
CLOUD_SERVICE_GROUP_MAP ==
  [ComputeEngine |-> <<"VMInstanceManager", "SnapshotManager",
                       "MachineImageManager", "InstanceTemplateManager",
                       "InstanceGroupManager", "DiskManager">>,
   CloudSQL |-> <<"CloudSQLManager">>,
   BigQuery |-> <<"SQLWorkspaceManager">>,
   CloudStorage |-> <<"StorageManager">>,
   Networking |-> <<"ExternalIPAddressManager", "FirewallManager",
                    "LoadBalancingManager", "RouteManager",
                    "VPCNetworkManager">>,
   PubSub |-> <<"SchemaManager", "SnapshotManager", "SubscriptionManager",
                "TopicManager">>,
   CloudFunctions |-> <<"FunctionGen2Manager", "FunctionGen1Manager">>]

\* The order of CLOUD_SERVICE_GROUP_MAP.keys()
Groups == <<"ComputeEngine", "CloudSQL", "BigQuery", "CloudStorage",
            "Networking", "PubSub", "CloudFunctions">>

\* "from spaceone....<package>.<module> import <name>".  Imports of one package
\* that follow each other are taken together: they have different names.
From(package, names) == [package |-> package, names |-> names]

\* Imports of manager/__init__.py, in their order.
ManagerImports ==
  <<From("CloudSQL", {"CloudSQLManager"}),
    From("ComputeEngine",
         {"InstanceGroupManager", "InstanceTemplateManager",
          "MachineImageManager", "DiskManager", "SnapshotManager"}),
    From("CloudStorage", {"StorageManager"}),
    From("Networking",
         {"VPCNetworkManager", "ExternalIPAddressManager", "FirewallManager",
          "RouteManager", "LoadBalancingManager"}),
    From("BigQuery", {"SQLWorkspaceManager"}),
    From("ComputeEngine", {"VMInstanceManager"}),
    From("PubSub", {"SchemaManager", "SnapshotManager",
                    "SubscriptionManager", "TopicManager"}),
    From("CloudFunctions", {"FunctionGen2Manager", "FunctionGen1Manager"}),
    From("Recommender", {"RecommendationManager"})>>

\* Mutant of PubSubConnectors: the connector of snapshots is not imported.
PubSubConnectorsWithoutSnapshot ==
  From("PubSub", {"SchemaConnector", "SubscriptionConnector", "TopicConnector"})

PubSubConnectors ==
  From("PubSub", {"SchemaConnector", "SubscriptionConnector",
                  "SnapshotConnector", "TopicConnector"})

\* Imports of connector/__init__.py, in their order.
ConnectorImports ==
  <<From("BigQuery", {"SQLWorkspaceConnector"}),
    From("CloudStorage", {"MonitoringConnector", "StorageConnector"}),
    From("CloudSQL", {"CloudSQLInstanceConnector"}),
    From("ComputeEngine",
         {"InstanceTemplateConnector", "InstanceGroupConnector",
          "MachineImageConnector", "DiskConnector", "SnapshotConnector",
          "VMInstanceConnector"}),
    From("Networking",
         {"RouteConnector", "ExternalIPAddressConnector", "FirewallConnector",
          "LoadBalancingConnector", "VPCNetworkConnector"}),
    PubSubConnectors,
    From("CloudFunctions", {"FunctionGen2Connector", "FunctionGen1Connector",
                            "EventarcConnector"}),
    From("Recommender", {"InsightConnector", "RecommendationConnector",
                         "CloudAssetConnector"})>>

\* connector_name of the manager classes
ConnectorName ==
  [VMInstanceManager |-> "VMInstanceConnector",
   SnapshotManager |-> "SnapshotConnector",
   MachineImageManager |-> "MachineImageConnector",
   InstanceTemplateManager |-> "InstanceTemplateConnector",
   InstanceGroupManager |-> "InstanceGroupConnector",
   DiskManager |-> "DiskConnector",
   CloudSQLManager |-> "CloudSQLInstanceConnector",
   SQLWorkspaceManager |-> "SQLWorkspaceConnector",
   StorageManager |-> "StorageConnector",
   ExternalIPAddressManager |-> "ExternalIPAddressConnector",
   FirewallManager |-> "FirewallConnector",
   LoadBalancingManager |-> "LoadBalancingConnector",
   RouteManager |-> "RouteConnector",
   VPCNetworkManager |-> "VPCNetworkConnector",
   SchemaManager |-> "SchemaConnector",
   SubscriptionManager |-> "SubscriptionConnector",
   TopicManager |-> "TopicConnector",
   FunctionGen2Manager |-> "FunctionGen2Connector",
   FunctionGen1Manager |-> "FunctionGen1Connector"]

Names(imports) == UNION {imports[k].names : k \in DOMAIN imports}

\* "from ... import X" binds X; an earlier binding is gone.
NameSpace(imports) ==
  [n \in Names(imports) |->
     imports[Max({k \in DOMAIN imports : n \in imports[k].names})].package]

Known(group) == group \in DOMAIN CLOUD_SERVICE_GROUP_MAP

\* Position <<i, k>> of the list is that of the k-th name of the i-th group.
Positions(groups) ==
  UNION {{i} \X DOMAIN CLOUD_SERVICE_GROUP_MAP[groups[i]] :
           i \in {j \in DOMAIN groups : Known(groups[j])}}

Before(p, q) == p[1] < q[1] \/ (p[1] = q[1] /\ p[2] < q[2])

\* Unknown groups are passed over; a group given twice is run twice.
_cloud_service_groups_to_types(groups) ==
  [p \in Positions(groups) |-> CLOUD_SERVICE_GROUP_MAP[groups[p[1]]][p[2]]]

_get_target_execute_manager ==
  _cloud_service_groups_to_types(
    IF options = {} THEN Groups ELSE CHOOSE groups \in options : TRUE)

Option ==
  {{}} \cup
  {{groups} : groups \in
     UNION {[1 .. n -> DOMAIN CLOUD_SERVICE_GROUP_MAP \cup {"other"}] :
              n \in 0 .. MaxGroups}}

Init ==
  /\ managers = <<>> /\ connectors = <<>>
  /\ options \in Option
  /\ execute_managers = <<>>
  /\ phase = "importing"

Import ==
  /\ phase = "importing" /\ phase' = "ready"
  /\ managers' = NameSpace(ManagerImports)
  /\ connectors' = NameSpace(ConnectorImports)
  /\ UNCHANGED <<options, execute_managers>>

\* self.locator.get_manager(execute_manager) for each name; the first name that
\* is not bound raises, in the middle of the "with" block.
Collect ==
  /\ phase = "ready"
  /\ LET names == _get_target_execute_manager
         Bound(p) == names[p] \in DOMAIN managers
         found == {p \in DOMAIN names :
                     Bound(p) /\ \A q \in DOMAIN names : Before(q, p) => Bound(q)} IN
     /\ phase' = IF found = DOMAIN names THEN "submitted" ELSE "raised"
     /\ execute_managers' =
          [p \in found |-> [name |-> names[p], package |-> managers[names[p]]]]
  /\ UNCHANGED <<managers, connectors, options>>

Next == Import \/ Collect

Spec == Init /\ [][Next]_vars

-----------------------------------------------------------------------------
Executed == {execute_managers[p] : p \in DOMAIN execute_managers}

Selected ==
  {g \in DOMAIN CLOUD_SERVICE_GROUP_MAP :
     \A groups \in options : \E k \in DOMAIN groups : groups[k] = g}

\* In particular every name of the map is bound: no look-up raises.
TypeOK ==
  /\ phase \in {"importing", "ready", "submitted"}
  /\ DOMAIN managers \subseteq Names(ManagerImports)
  /\ DOMAIN connectors \subseteq Names(ConnectorImports)
  /\ \A e \in Executed : e.name \in DOMAIN ConnectorName

\* Whichever class a name denotes, the connector it looks up by name belongs
\* to the same service: the two import lists agree about equal names.
ConnectorOfOwnService ==
  \A e \in Executed : connectors[ConnectorName[e.name]] = e.package

\* Every manager name of every selected group is run, however the option's
\* list is ordered and whatever else it holds.
SelectedNamesRun ==
  phase = "submitted" =>
    \A g \in Selected : \A k \in DOMAIN CLOUD_SERVICE_GROUP_MAP[g] :
      \E e \in Executed : e.name = CLOUD_SERVICE_GROUP_MAP[g][k]

\* README: "only the specified cloud service type is collected".
OnlySelectedGroups == \A e \in Executed : e.package \in Selected

=============================================================================
