---------------------------- MODULE ManagerLoops ----------------------------
(***************************************************************************)
(* The loop of collect_cloud_service in each manager.  GoogleCloudManager  *)
(* models what the loops share; this module models in what they differ:    *)
(* the id an error response is made with.  It is a variable that the body  *)
(* of the loop sets and the except clause reads.  It keeps its value from  *)
(* one turn to the next, so that a turn that fails before the assignment   *)
(* is reported under the id of an earlier one.                             *)
(***************************************************************************)
EXTENDS Naturals, Sequences, FiniteSets

CONSTANT MaxItems    \* bound on the items a manager lists

VARIABLES
  manager,    \* the manager that runs
  listed,     \* the number of items it listed
  at,         \* the item in work
  id,         \* the loop-carried id: the number of an item, 0 for ""
  collected,  \* collected_cloud_services
  errors      \* error_responses: [of, early, id]

vars == <<manager, listed, at, id, collected, errors>>

-----------------------------------------------------------------------------
(***************************************************************************)
(* Where a loop sets the id: "first" if nothing can fail before it is set, *)
(* "late" if a statement before the assignment can or the expression that  *)
(* is assigned can, "never" if it does not.                                *)
(***************************************************************************)
SQLWorkspaceManager      == "first"
CloudSQLManager          == "first"
StorageManager           == "first"
DiskManager              == "first"
InstanceGroupManager     == "first"
InstanceTemplateManager  == "first"
MachineImageManager      == "first"
ComputeSnapshotManager   == "first"
VMInstanceManager        == "first"
ExternalIPAddressManager == "first"
FirewallManager          == "first"
VPCNetworkManager        == "first"

\* _make_location_and_id and _make_*_id take the name apart and may raise
FunctionGen1Manager      == "late"
FunctionGen2Manager      == "late"
TopicManager             == "late"
SubscriptionManager      == "late"
PubSubSnapshotManager    == "late"

\* after the instances are matched and the Route model is built
RouteManager             == "late"

\* after the call of get_schema
SchemaManager            == "late"

\* lb_id is "" throughout
LoadBalancingManager     == "never"

Loops ==
  [SQLWorkspace |-> SQLWorkspaceManager,
   FunctionGen1 |-> FunctionGen1Manager, FunctionGen2 |-> FunctionGen2Manager,
   CloudSQL |-> CloudSQLManager, Storage |-> StorageManager,
   Disk |-> DiskManager, InstanceGroup |-> InstanceGroupManager,
   InstanceTemplate |-> InstanceTemplateManager,
   MachineImage |-> MachineImageManager,
   ComputeSnapshot |-> ComputeSnapshotManager,
   VMInstance |-> VMInstanceManager,
   ExternalIPAddress |-> ExternalIPAddressManager,
   Firewall |-> FirewallManager, VPCNetwork |-> VPCNetworkManager,
   Topic |-> TopicManager, Subscription |-> SubscriptionManager,
   PubSubSnapshot |-> PubSubSnapshotManager,
   Route |-> RouteManager, Schema |-> SchemaManager,
   LoadBalancing |-> LoadBalancingManager]

Init ==
  /\ manager \in DOMAIN Loops
  /\ listed \in 0 .. MaxItems
  /\ at = 1 /\ id = 0
  /\ collected = {} /\ errors = {}

\* Mutant of NextTurn: a turn too many.
NextTurnBeyond == at <= listed + 1 /\ at' = at + 1 /\ UNCHANGED <<manager, listed>>

NextTurn == at <= listed /\ at' = at + 1 /\ UNCHANGED <<manager, listed>>

\* Mutant of SetId: the assignment is behind what may fail.
SetIdLate == IF Loops[manager] = "late" THEN at ELSE id

SetId == IF Loops[manager] = "never" THEN id ELSE at

\* A statement before the assignment raises, or the assignment itself.
FailEarly ==
  /\ NextTurn /\ Loops[manager] = "late"
  /\ errors' = errors \cup {[of |-> at, early |-> TRUE, id |-> id]}
  /\ UNCHANGED <<id, collected>>

\* A statement after it does.
FailLate ==
  /\ NextTurn
  /\ id' = SetId
  /\ errors' = errors \cup {[of |-> at, early |-> FALSE, id |-> id']}
  /\ UNCHANGED collected

\* Mutant of Respond: the turn ends with the id put back to "".
RespondAndReset ==
  /\ NextTurn
  /\ id' = 0
  /\ collected' = collected \cup {at}
  /\ UNCHANGED errors

Respond ==
  /\ NextTurn
  /\ id' = SetId
  /\ collected' = collected \cup {at}
  /\ UNCHANGED errors

Next == FailEarly \/ FailLate \/ Respond

Spec == Init /\ [][Next]_vars

-----------------------------------------------------------------------------
TypeOK ==
  /\ manager \in DOMAIN Loops
  /\ listed \in 0 .. MaxItems
  /\ at \in 1 .. listed + 1
  /\ id \in 0 .. listed
  /\ collected \subseteq 1 .. listed
  /\ errors \subseteq [of : 1 .. listed, early : BOOLEAN, id : 0 .. listed]

\* An error response names the item that failed, whatever happened to the
\* items before it, in every manager that sets the id before anything fails.
ErrorNamesItem ==
  Loops[manager] = "first" => \A e \in errors : e.id = e.of

\* In a manager that can fail before the id is set, an item that does is
\* reported under the id of the nearest item before it that did not: one that
\* was collected, or one that was already reported under this id.
StaleIdIsNearest ==
  Loops[manager] = "late" =>
    \A e \in errors :
      IF e.early
      THEN LET named == {i \in 1 .. e.of - 1 :
                           ~ \E f \in errors : f.of = i /\ f.early} IN
           /\ e.id \in named \cup {0}
           /\ \A i \in named : i <= e.id
      ELSE e.id = e.of

=============================================================================
