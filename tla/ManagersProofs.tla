--------------------------- MODULE ManagersProofs ---------------------------
(***************************************************************************)
(* What is the same for all managers, proved for collections of any size,  *)
(* lists of any length and any number of items.                            *)
(*                                                                         *)
(* Paging: none of the properties is inductive, since they speak of a      *)
(* listing that has returned.  The invariant says what the result is in    *)
(* the middle: nothing that is still unserved, and, where pages are        *)
(* appended, everything that has been served.                              *)
(*                                                                         *)
(* Names: the data are those of the import lists and of the group map; the *)
(* proof finds for every name of the map the last import that binds it,    *)
(* and the same for its connector.                                         *)
(***************************************************************************)
EXTENDS Managers, FiniteSets, TLAPS

-----------------------------------------------------------------------------
\* The pages of a listing.

\* Resources that have been on a page.
Served == collection \ unserved

\* What the loop has left to do when it ends.
PageInv ==
  /\ outcome = "returned" => ~request
  /\ ~request /\ listing.join # "first" => unserved = {}
  /\ \A i \in unserved : result[i] = 0

AppendInv ==
  listing.join \in {"items", "scopes"} =>
    \A i \in Item : result[i] = IF i \in Served THEN 1 ELSE 0

KeyedInv ==
  listing.join = "keyed" =>
    \A i \in Served : \E j \in Served :
      ScopeOf[j] = ScopeOf[i] /\ result[j] = 1

PagingInv == Paging!TypeOK /\ PageInv /\ AppendInv /\ KeyedInv

-----------------------------------------------------------------------------
\* Every way of joining a page of unserved resources yields 0 or 1 for each
\* resource, and 0 for those that stay unserved.
LEMMA JoinBounded ==
  ASSUME PagingInv, NEW page \in SUBSET unserved
  PROVE  /\ Paging!Join(page) \in [Item -> 0 .. 1]
         /\ \A i \in unserved \ page : Paging!Join(page)[i] = 0
<1>1. /\ Paging!Appended(page) \in [Item -> 0 .. 1]
      /\ \A i \in unserved \ page : Paging!Appended(page)[i] = 0
  BY DEF PagingInv, Paging!TypeOK, PageInv, Paging!Appended
<1>2. /\ Paging!Keyed(page) \in [Item -> 0 .. 1]
      /\ \A i \in unserved \ page : Paging!Keyed(page)[i] = 0
  BY DEF PagingInv, Paging!TypeOK, PageInv, Paging!Keyed
<1>3. /\ Paging!Assigned(page) \in [Item -> 0 .. 1]
      /\ \A i \in unserved \ page : Paging!Assigned(page)[i] = 0
  BY DEF PagingInv, Paging!TypeOK, Paging!Assigned
<1>4. Paging!Join(page) \in {Paging!Appended(page), Paging!Keyed(page), Paging!Assigned(page)}
  BY DEF Paging!Join
<1> QED
  BY <1>1, <1>2, <1>3, <1>4

LEMMA InitPagingInv == Paging!Init => PagingInv
<1> SUFFICES ASSUME Paging!Init PROVE PagingInv
  OBVIOUS
<1>1. Paging!TypeOK
  BY DEF Paging!Init, Paging!TypeOK
<1>2. PageInv /\ AppendInv /\ KeyedInv
  BY DEF Paging!Init, PageInv, AppendInv, KeyedInv, Served
<1> QED
  BY <1>1, <1>2 DEF PagingInv

\* The one step that disturbs the invariant: a page is joined to the result.
LEMMA ExecuteInv == PagingInv /\ Paging!Execute => PagingInv'
<1> SUFFICES ASSUME PagingInv, Paging!Execute PROVE PagingInv'
  OBVIOUS
<1>1. PICK page \in SUBSET unserved, last \in BOOLEAN :
        /\ Paging!Page(page, last)
        /\ result' = Paging!Join(page)
        /\ unserved' = unserved \ page
        /\ request' = (~last /\ listing.join # "first")
  BY DEF Paging!Execute
<1>2. UNCHANGED <<listing, collection, outcome>> /\ outcome = "running"
  BY DEF Paging!Execute
<1>3. /\ Paging!Join(page) \in [Item -> 0 .. 1]
      /\ \A i \in unserved \ page : Paging!Join(page)[i] = 0
  BY JoinBounded
<1>4. Paging!TypeOK'
  BY <1>1, <1>2, <1>3 DEF PagingInv, Paging!TypeOK
<1>5. PageInv'
  <2>1. last => unserved' = {}
    BY <1>1 DEF Paging!Page
  <2> QED
    BY <1>1, <1>2, <1>3, <2>1 DEF PageInv
<1>6. AppendInv'
  <2> SUFFICES ASSUME listing.join \in {"items", "scopes"}, NEW i \in Item
               PROVE  result'[i] = IF i \in Served' THEN 1 ELSE 0
    BY <1>2 DEF AppendInv
  <2>1. result' = Paging!Appended(page)
    BY <1>1 DEF Paging!Join
  <2>2. result'[i] = result[i] + IF i \in page THEN 1 ELSE 0
    BY <2>1 DEF Paging!Appended
  <2>3. result[i] = IF i \in Served THEN 1 ELSE 0
    BY DEF PagingInv, AppendInv
  <2>4. i \in Served' <=> (i \in Served \/ i \in page)
    BY <1>1, <1>2 DEF Served, PagingInv, Paging!TypeOK
  <2>5. i \in page => i \notin Served
    BY DEF Served
  <2> QED
    BY <2>2, <2>3, <2>4, <2>5
<1>7. KeyedInv'
  <2> SUFFICES ASSUME listing.join = "keyed", NEW i \in Served'
               PROVE  \E j \in Served' : /\ ScopeOf[j] = ScopeOf[i]
                                         /\ result'[j] = 1
    BY <1>2 DEF KeyedInv
  <2>1. result' = Paging!Keyed(page)
    BY <1>1 DEF Paging!Join
  <2>2. Served' = Served \cup page /\ Served' \subseteq Item
    BY <1>1, <1>2 DEF Served, PagingInv, Paging!TypeOK
  <2>3. CASE \E j \in page : ScopeOf[j] = ScopeOf[i]
    BY <2>1, <2>2, <2>3 DEF Paging!Keyed
  <2>4. CASE ~ \E j \in page : ScopeOf[j] = ScopeOf[i]
    <3>1. PICK j \in Served : ScopeOf[j] = ScopeOf[i] /\ result[j] = 1
      BY <2>2, <2>4 DEF PagingInv, KeyedInv
    <3>2. result'[j] = 1
      BY <2>1, <2>2, <2>4, <3>1 DEF Paging!Keyed
    <3> QED
      BY <2>2, <3>1, <3>2
  <2> QED
    BY <2>3, <2>4
<1> QED
  BY <1>4, <1>5, <1>6, <1>7 DEF PagingInv

LEMMA StepPagingInv == PagingInv /\ [Paging!Next]_(Paging!vars) => PagingInv'
<1> SUFFICES ASSUME PagingInv, [Paging!Next]_(Paging!vars) PROVE PagingInv'
  OBVIOUS
<1> USE DEF PagingInv, Paging!TypeOK, PageInv, AppendInv, KeyedInv, Served
<1>1. CASE Paging!Execute
  BY <1>1, ExecuteInv
<1>2. CASE Paging!ExecuteFails
  BY <1>2 DEF Paging!ExecuteFails
<1>3. CASE Paging!Return
  BY <1>3 DEF Paging!Return
<1>4. CASE UNCHANGED Paging!vars
  BY <1>4 DEF Paging!vars
<1> QED
  BY <1>1, <1>2, <1>3, <1>4 DEF Paging!Next

\* The invariant holds of every listing, whatever the collection and however
\* the API cuts it into pages.
LEMMA PagingInvariance == Paging!Spec => []PagingInv
<1>1. Paging!Init => PagingInv
  BY InitPagingInv
<1>2. PagingInv /\ [Paging!Next]_(Paging!vars) => PagingInv'
  BY StepPagingInv
<1> QED
  BY <1>1, <1>2, PTL DEF Paging!Spec

LEMMA AppendedComplete == PagingInv => Paging!AppendedListingComplete
BY DEF PagingInv, Paging!TypeOK, PageInv, AppendInv, Served,
       Paging!AppendedListingComplete, Paging!Complete

LEMMA PoliciesOfEveryRegion == PagingInv => Paging!RegionsWithPoliciesListed
BY DEF PagingInv, Paging!TypeOK, PageInv, KeyedInv, Served,
       Paging!RegionsWithPoliciesListed

-----------------------------------------------------------------------------
\* The ids of errors.

\* The items before n whose turn got as far as setting the id.
Named(n) == {i \in 1 .. n - 1 : ~ \E f \in errors : f.of = i /\ f.early}

\* n is the last of these, or 0 if there is none.
Nearest(n, i) == i \in Named(n) \cup {0} /\ \A j \in Named(n) : j <= i

\* The id is that of the nearest item before the one in work; the errors are of
\* items before it, and each has the id that was the nearest at its time.
LoopInv ==
  /\ Loops!TypeOK
  /\ Loops!Loops[manager] = "late" => Nearest(at, id)
  /\ \A e \in errors :
       /\ e.of < at
       /\ e.early => Loops!Loops[manager] = "late" /\ Nearest(e.of, e.id)
       /\ ~e.early /\ Loops!Loops[manager] # "never" => e.id = e.of

LEMMA InitLoopInv == ASSUME MaxItems \in Nat, Loops!Init PROVE LoopInv
BY DEF Loops!Init, Loops!TypeOK, LoopInv, Nearest, Named

\* An error of item k, the one in work, leaves the items before it as they were;
\* k itself is named unless it failed early.
LEMMA TurnNames ==
  ASSUME LoopInv, NEW k, k = at, NEW e, e.of = k, errors' = errors \cup {e}
  PROVE  /\ \A n \in 1 .. k : Named(n)' = Named(n)
         /\ e.early => Named(k + 1)' = Named(k)
         /\ ~e.early => Named(k + 1)' = Named(k) \cup {k}
<1>1. k \in Nat \ {0}
  BY DEF LoopInv, Loops!TypeOK
<1>2. \A f \in errors : f.of < k /\ f.of \in Nat
  BY DEF LoopInv, Loops!TypeOK
<1>3. ASSUME NEW i \in 1 .. k - 1
      PROVE  (\E f \in errors' : f.of = i /\ f.early) <=> (\E f \in errors : f.of = i /\ f.early)
  <2>1. e.of # i
    BY <1>1
  <2> QED BY <2>1
<1>4. (\E f \in errors' : f.of = k /\ f.early) <=> e.early
  <2>1. \A f \in errors : f.of # k
    BY <1>1, <1>2
  <2> QED BY <2>1
<1>5. \A n \in 1 .. k : Named(n)' = Named(n)
  <2> SUFFICES ASSUME NEW n \in 1 .. k PROVE Named(n)' = Named(n)
    OBVIOUS
  <2>1. 1 .. n - 1 \subseteq 1 .. k - 1
    BY <1>1
  <2> QED BY <1>3, <2>1 DEF Named
<1>6. 1 .. (k + 1) - 1 = (1 .. k - 1) \cup {k}
  BY <1>1
<1>7. e.early => Named(k + 1)' = Named(k)
  BY <1>3, <1>4, <1>6, Zenon DEF Named
<1>8. ~e.early => Named(k + 1)' = Named(k) \cup {k}
  BY <1>3, <1>4, <1>6, Zenon DEF Named
<1> QED BY <1>5, <1>7, <1>8

\* The errors so far go on being what the invariant says of them.
LEMMA ErrorsStay ==
  ASSUME LoopInv, \A n \in 1 .. at : Named(n)' = Named(n),
         manager' = manager, at' = at + 1, NEW e \in errors
  PROVE  /\ e.of < at'
         /\ e.early => Loops!Loops[manager'] = "late" /\ Nearest(e.of, e.id)'
         /\ ~e.early /\ Loops!Loops[manager'] # "never" => e.id = e.of
<1>1. e.of \in 1 .. at /\ e.of < at /\ at \in Nat
  BY DEF LoopInv, Loops!TypeOK
<1>2. Nearest(e.of, e.id)' <=> Nearest(e.of, e.id)
  BY <1>1 DEF Nearest
<1> QED BY <1>1, <1>2 DEF LoopInv

LEMMA StepLoopInv ==
  ASSUME MaxItems \in Nat, LoopInv, [Loops!Next]_Loops!vars
  PROVE  LoopInv'
<1>1. CASE UNCHANGED Loops!vars
  BY <1>1 DEF LoopInv, Loops!TypeOK, Nearest, Named, Loops!vars
<1>2. CASE Loops!FailEarly
  <2>1. Loops!NextTurn /\ id' = id /\ collected' = collected /\ Loops!Loops[manager] = "late"
    BY <1>2 DEF Loops!FailEarly
  <2> PICK e, k : e = [of |-> at, early |-> TRUE, id |-> id] /\ k = at
    OBVIOUS
  <2>2. e.of = k /\ e.early /\ e.id = id /\ errors' = errors \cup {e}
    BY <1>2, Zenon DEF Loops!FailEarly
  <2>3. k \in 1 .. listed /\ at' = k + 1 /\ UNCHANGED <<manager, listed>>
    BY <2>1 DEF LoopInv, Loops!TypeOK, Loops!NextTurn
  <2>4. (\A n \in 1 .. k : Named(n)' = Named(n)) /\ Named(k + 1)' = Named(k)
    BY <2>2, TurnNames
  <2>5. Loops!TypeOK'
    <3>1. e \in [of : 1 .. listed, early : BOOLEAN, id : 0 .. listed]
      BY <2>3 DEF LoopInv, Loops!TypeOK
    <3>2. errors' \subseteq [of : 1 .. listed, early : BOOLEAN, id : 0 .. listed]
      BY <2>2, <3>1 DEF LoopInv, Loops!TypeOK
    <3>3. at' \in 1 .. listed + 1 /\ id' \in 0 .. listed
      BY <2>1, <2>3 DEF LoopInv, Loops!TypeOK
    <3> QED BY <2>1, <2>3, <3>2, <3>3 DEF LoopInv, Loops!TypeOK
  <2>6. Nearest(k, id) /\ k \in 1 .. k
    BY <2>1, <2>3 DEF LoopInv
  <2>7. Nearest(k + 1, id)' /\ Nearest(k, id)'
    BY <2>1, <2>4, <2>6 DEF Nearest
  <2>8. Nearest(at, id)' /\ Nearest(e.of, e.id)'
    BY <2>1, <2>2, <2>3, <2>7
  <2>9. e.of < at'
    BY <2>2, <2>3
  <2> QED BY <2>1, <2>2, <2>3, <2>4, <2>5, <2>8, <2>9, ErrorsStay DEF LoopInv
<1>3. CASE Loops!FailLate
  <2>1. Loops!NextTurn /\ id' = Loops!SetId /\ collected' = collected
    BY <1>3 DEF Loops!FailLate
  <2> PICK e, k : e = [of |-> at, early |-> FALSE, id |-> id'] /\ k = at
    OBVIOUS
  <2>2. e.of = k /\ ~e.early /\ e.id = id' /\ errors' = errors \cup {e}
    BY <1>3, Zenon DEF Loops!FailLate
  <2>3. k \in 1 .. listed /\ at' = k + 1 /\ UNCHANGED <<manager, listed>>
    BY <2>1 DEF LoopInv, Loops!TypeOK, Loops!NextTurn
  <2>4. (\A n \in 1 .. k : Named(n)' = Named(n)) /\ Named(k + 1)' = Named(k) \cup {k}
    BY <2>2, TurnNames
  <2>5. Loops!TypeOK'
    <3>1. id' \in 0 .. listed
      BY <2>1, <2>3 DEF LoopInv, Loops!TypeOK, Loops!SetId
    <3>2. e \in [of : 1 .. listed, early : BOOLEAN, id : 0 .. listed]
      BY <2>3, <3>1
    <3>3. errors' \subseteq [of : 1 .. listed, early : BOOLEAN, id : 0 .. listed]
      BY <2>2, <3>2 DEF LoopInv, Loops!TypeOK
    <3>4. at' \in 1 .. listed + 1 /\ id' \in 0 .. listed
      BY <3>1, <2>1, <2>3 DEF LoopInv, Loops!TypeOK
    <3> QED BY <2>1, <2>3, <3>3, <3>4 DEF LoopInv, Loops!TypeOK
  <2>6. Loops!Loops[manager] # "never" => id' = k
    BY <2>1 DEF Loops!SetId
  <2>7. Loops!Loops[manager] = "late" => Nearest(k + 1, k)'
    BY <2>3, <2>4 DEF Nearest, Named
  <2>8. Loops!Loops[manager'] = "late" => Nearest(at, id)'
    BY <2>3, <2>6, <2>7
  <2> QED BY <2>2, <2>3, <2>4, <2>5, <2>6, <2>8, ErrorsStay DEF LoopInv
<1>4. CASE Loops!Respond
  BY <1>4 DEF LoopInv, Loops!TypeOK, Nearest, Named, Loops!Respond, Loops!NextTurn, Loops!SetId
<1> QED BY <1>1, <1>2, <1>3, <1>4 DEF Loops!Next

\* Whatever happened to the items before it, an error names its own item, or
\* the nearest one before it in the managers that may fail too early for that.
LEMMA ErrorsNamed ==
  ASSUME MaxItems \in Nat
  PROVE  Loops!Spec => [](Loops!ErrorNamesItem /\ Loops!StaleIdIsNearest)
<1>1. LoopInv => Loops!ErrorNamesItem /\ Loops!StaleIdIsNearest
  <2> SUFFICES ASSUME LoopInv PROVE Loops!ErrorNamesItem /\ Loops!StaleIdIsNearest
    OBVIOUS
  <2>1. Loops!ErrorNamesItem
    BY DEF LoopInv, Loops!ErrorNamesItem
  <2>2. Loops!StaleIdIsNearest
    BY DEF LoopInv, Loops!StaleIdIsNearest, Nearest, Named
  <2> QED BY <2>1, <2>2
<1> QED BY <1>1, InitLoopInv, StepLoopInv, PTL DEF Loops!Spec

-----------------------------------------------------------------------------
\* The names.

\* The last import that binds a name decides what it denotes.
LEMMA LastImport ==
  ASSUME NEW imports, DOMAIN imports \subseteq Nat, NEW b \in DOMAIN imports,
         NEW n \in imports[b].names,
         \A c \in DOMAIN imports : c > b => n \notin imports[c].names
  PROVE  /\ n \in DOMAIN Locator!NameSpace(imports)
         /\ Locator!NameSpace(imports)[n] = imports[b].package
<1> DEFINE of == {k \in DOMAIN imports : n \in imports[k].names}
<1>1. b \in of /\ \A c \in of : b >= c
  OBVIOUS
<1>2. \A c \in of : (\A d \in of : c >= d) => c = b
  BY <1>1
<1>3. Locator!Max(of) = b
  <2> HIDE DEF of
  <2> QED BY <1>1, <1>2 DEF Locator!Max
<1>4. n \in Locator!Names(imports)
  BY DEF Locator!Names
<1> QED BY <1>3, <1>4 DEF Locator!NameSpace

\* The two import lists, import by import.
LEMMA ManagerBlocks ==
  LET imports == Locator!ManagerImports IN
  /\ DOMAIN imports = 1 .. 9
  /\ imports[1] = [package |-> "CloudSQL", names |-> {"CloudSQLManager"}]
  /\ imports[2] = [package |-> "ComputeEngine",
                   names |-> {"InstanceGroupManager", "InstanceTemplateManager",
                              "MachineImageManager", "DiskManager", "SnapshotManager"}]
  /\ imports[3] = [package |-> "CloudStorage", names |-> {"StorageManager"}]
  /\ imports[4] = [package |-> "Networking",
                   names |-> {"VPCNetworkManager", "ExternalIPAddressManager",
                              "FirewallManager", "RouteManager",
                              "LoadBalancingManager"}]
  /\ imports[5] = [package |-> "BigQuery", names |-> {"SQLWorkspaceManager"}]
  /\ imports[6] = [package |-> "ComputeEngine", names |-> {"VMInstanceManager"}]
  /\ imports[7] = [package |-> "PubSub",
                   names |-> {"SchemaManager", "SnapshotManager",
                              "SubscriptionManager", "TopicManager"}]
  /\ imports[8] = [package |-> "CloudFunctions",
                   names |-> {"FunctionGen2Manager", "FunctionGen1Manager"}]
  /\ imports[9] = [package |-> "Recommender", names |-> {"RecommendationManager"}]
BY DEF Locator!ManagerImports, Locator!From

LEMMA ConnectorBlocks ==
  LET imports == Locator!ConnectorImports IN
  /\ DOMAIN imports = 1 .. 8
  /\ imports[1] = [package |-> "BigQuery", names |-> {"SQLWorkspaceConnector"}]
  /\ imports[2] = [package |-> "CloudStorage",
                   names |-> {"MonitoringConnector", "StorageConnector"}]
  /\ imports[3] = [package |-> "CloudSQL", names |-> {"CloudSQLInstanceConnector"}]
  /\ imports[4] = [package |-> "ComputeEngine",
                   names |-> {"InstanceTemplateConnector", "InstanceGroupConnector",
                              "MachineImageConnector", "DiskConnector",
                              "SnapshotConnector", "VMInstanceConnector"}]
  /\ imports[5] = [package |-> "Networking",
                   names |-> {"RouteConnector", "ExternalIPAddressConnector",
                              "FirewallConnector", "LoadBalancingConnector",
                              "VPCNetworkConnector"}]
  /\ imports[6] = [package |-> "PubSub",
                   names |-> {"SchemaConnector", "SubscriptionConnector",
                              "SnapshotConnector", "TopicConnector"}]
  /\ imports[7] = [package |-> "CloudFunctions",
                   names |-> {"FunctionGen2Connector", "FunctionGen1Connector",
                              "EventarcConnector"}]
  /\ imports[8] = [package |-> "Recommender",
                   names |-> {"InsightConnector", "RecommendationConnector",
                              "CloudAssetConnector"}]
BY DEF Locator!ConnectorImports, Locator!From, Locator!PubSubConnectors

\* A name denotes a manager that finds the connector of its own package.
Serves(n) ==
  LET connector == Locator!ConnectorName[n] IN
  /\ n \in DOMAIN Locator!NameSpace(Locator!ManagerImports)
  /\ n \in DOMAIN Locator!ConnectorName
  /\ Locator!NameSpace(Locator!ConnectorImports)[connector]
       = Locator!NameSpace(Locator!ManagerImports)[n]

\* The names, import by import of the manager each denotes and of the connector
\* it looks up.  That the other SnapshotManager is gone shows in the second set.
LEMMA ServedByBlock ==
  ASSUME NEW b \in DOMAIN Locator!ManagerImports,
         NEW c \in DOMAIN Locator!ConnectorImports,
         NEW n \in Locator!ManagerImports[b].names,
         Locator!ManagerImports[b].package = Locator!ConnectorImports[c].package,
         \A d \in DOMAIN Locator!ManagerImports :
           d > b => n \notin Locator!ManagerImports[d].names,
         n \in DOMAIN Locator!ConnectorName,
         Locator!ConnectorName[n] \in Locator!ConnectorImports[c].names,
         \A d \in DOMAIN Locator!ConnectorImports :
           d > c => Locator!ConnectorName[n] \notin Locator!ConnectorImports[d].names
  PROVE  Serves(n)
<1>1. /\ DOMAIN Locator!ManagerImports \subseteq Nat
      /\ DOMAIN Locator!ConnectorImports \subseteq Nat
  BY ManagerBlocks, ConnectorBlocks
<1>2. /\ n \in DOMAIN Locator!NameSpace(Locator!ManagerImports)
      /\ Locator!NameSpace(Locator!ManagerImports)[n] = Locator!ManagerImports[b].package
  BY <1>1, LastImport
<1>3. Locator!NameSpace(Locator!ConnectorImports)[Locator!ConnectorName[n]]
        = Locator!ConnectorImports[c].package
  BY <1>1, LastImport
<1> QED BY <1>2, <1>3 DEF Serves

LEMMA NamesServed ==
  \A g \in DOMAIN Locator!CLOUD_SERVICE_GROUP_MAP :
    \A k \in DOMAIN Locator!CLOUD_SERVICE_GROUP_MAP[g] :
      Serves(Locator!CLOUD_SERVICE_GROUP_MAP[g][k])
<1>1. \A n \in {"CloudSQLManager"} : Serves(n)
  <2> TAKE n \in {"CloudSQLManager"}
  <2>1. /\ n \in DOMAIN Locator!ConnectorName
        /\ Locator!ConnectorName[n]
             \in {"CloudSQLInstanceConnector"}
    BY DEF Locator!ConnectorName
  <2>2. /\ 1 \in DOMAIN Locator!ManagerImports
        /\ n \in Locator!ManagerImports[1].names
        /\ \A d \in DOMAIN Locator!ManagerImports :
             d > 1 => n \notin Locator!ManagerImports[d].names
    BY ManagerBlocks
  <2>3. /\ 3 \in DOMAIN Locator!ConnectorImports
        /\ Locator!ConnectorName[n] \in Locator!ConnectorImports[3].names
        /\ \A d \in DOMAIN Locator!ConnectorImports :
             d > 3 => Locator!ConnectorName[n] \notin Locator!ConnectorImports[d].names
    BY <2>1, ConnectorBlocks
  <2>4. Locator!ManagerImports[1].package = Locator!ConnectorImports[3].package
    BY ManagerBlocks, ConnectorBlocks
  <2> QED BY <2>1, <2>2, <2>3, <2>4, ServedByBlock
<1>2. \A n \in {"InstanceGroupManager", "InstanceTemplateManager",
                "MachineImageManager", "DiskManager"} : Serves(n)
  <2> TAKE n \in {"InstanceGroupManager", "InstanceTemplateManager",
                  "MachineImageManager", "DiskManager"}
  <2>1. /\ n \in DOMAIN Locator!ConnectorName
        /\ Locator!ConnectorName[n]
             \in {"InstanceGroupConnector", "InstanceTemplateConnector",
                  "MachineImageConnector", "DiskConnector"}
    BY DEF Locator!ConnectorName
  <2>2. /\ 2 \in DOMAIN Locator!ManagerImports
        /\ n \in Locator!ManagerImports[2].names
        /\ \A d \in DOMAIN Locator!ManagerImports :
             d > 2 => n \notin Locator!ManagerImports[d].names
    BY ManagerBlocks
  <2>3. /\ 4 \in DOMAIN Locator!ConnectorImports
        /\ Locator!ConnectorName[n] \in Locator!ConnectorImports[4].names
        /\ \A d \in DOMAIN Locator!ConnectorImports :
             d > 4 => Locator!ConnectorName[n] \notin Locator!ConnectorImports[d].names
    BY <2>1, ConnectorBlocks
  <2>4. Locator!ManagerImports[2].package = Locator!ConnectorImports[4].package
    BY ManagerBlocks, ConnectorBlocks
  <2> QED BY <2>1, <2>2, <2>3, <2>4, ServedByBlock
<1>3. \A n \in {"StorageManager"} : Serves(n)
  <2> TAKE n \in {"StorageManager"}
  <2>1. /\ n \in DOMAIN Locator!ConnectorName
        /\ Locator!ConnectorName[n]
             \in {"StorageConnector"}
    BY DEF Locator!ConnectorName
  <2>2. /\ 3 \in DOMAIN Locator!ManagerImports
        /\ n \in Locator!ManagerImports[3].names
        /\ \A d \in DOMAIN Locator!ManagerImports :
             d > 3 => n \notin Locator!ManagerImports[d].names
    BY ManagerBlocks
  <2>3. /\ 2 \in DOMAIN Locator!ConnectorImports
        /\ Locator!ConnectorName[n] \in Locator!ConnectorImports[2].names
        /\ \A d \in DOMAIN Locator!ConnectorImports :
             d > 2 => Locator!ConnectorName[n] \notin Locator!ConnectorImports[d].names
    BY <2>1, ConnectorBlocks
  <2>4. Locator!ManagerImports[3].package = Locator!ConnectorImports[2].package
    BY ManagerBlocks, ConnectorBlocks
  <2> QED BY <2>1, <2>2, <2>3, <2>4, ServedByBlock
<1>4. \A n \in {"VPCNetworkManager", "ExternalIPAddressManager",
                "FirewallManager", "RouteManager", "LoadBalancingManager"} : Serves(n)
  <2> TAKE n \in {"VPCNetworkManager", "ExternalIPAddressManager",
                  "FirewallManager", "RouteManager", "LoadBalancingManager"}
  <2>1. /\ n \in DOMAIN Locator!ConnectorName
        /\ Locator!ConnectorName[n]
             \in {"VPCNetworkConnector", "ExternalIPAddressConnector",
                  "FirewallConnector", "RouteConnector", "LoadBalancingConnector"}
    BY DEF Locator!ConnectorName
  <2>2. /\ 4 \in DOMAIN Locator!ManagerImports
        /\ n \in Locator!ManagerImports[4].names
        /\ \A d \in DOMAIN Locator!ManagerImports :
             d > 4 => n \notin Locator!ManagerImports[d].names
    BY ManagerBlocks
  <2>3. /\ 5 \in DOMAIN Locator!ConnectorImports
        /\ Locator!ConnectorName[n] \in Locator!ConnectorImports[5].names
        /\ \A d \in DOMAIN Locator!ConnectorImports :
             d > 5 => Locator!ConnectorName[n] \notin Locator!ConnectorImports[d].names
    BY <2>1, ConnectorBlocks
  <2>4. Locator!ManagerImports[4].package = Locator!ConnectorImports[5].package
    BY ManagerBlocks, ConnectorBlocks
  <2> QED BY <2>1, <2>2, <2>3, <2>4, ServedByBlock
<1>5. \A n \in {"SQLWorkspaceManager"} : Serves(n)
  <2> TAKE n \in {"SQLWorkspaceManager"}
  <2>1. /\ n \in DOMAIN Locator!ConnectorName
        /\ Locator!ConnectorName[n]
             \in {"SQLWorkspaceConnector"}
    BY DEF Locator!ConnectorName
  <2>2. /\ 5 \in DOMAIN Locator!ManagerImports
        /\ n \in Locator!ManagerImports[5].names
        /\ \A d \in DOMAIN Locator!ManagerImports :
             d > 5 => n \notin Locator!ManagerImports[d].names
    BY ManagerBlocks
  <2>3. /\ 1 \in DOMAIN Locator!ConnectorImports
        /\ Locator!ConnectorName[n] \in Locator!ConnectorImports[1].names
        /\ \A d \in DOMAIN Locator!ConnectorImports :
             d > 1 => Locator!ConnectorName[n] \notin Locator!ConnectorImports[d].names
    BY <2>1, ConnectorBlocks
  <2>4. Locator!ManagerImports[5].package = Locator!ConnectorImports[1].package
    BY ManagerBlocks, ConnectorBlocks
  <2> QED BY <2>1, <2>2, <2>3, <2>4, ServedByBlock
<1>6. \A n \in {"VMInstanceManager"} : Serves(n)
  <2> TAKE n \in {"VMInstanceManager"}
  <2>1. /\ n \in DOMAIN Locator!ConnectorName
        /\ Locator!ConnectorName[n]
             \in {"VMInstanceConnector"}
    BY DEF Locator!ConnectorName
  <2>2. /\ 6 \in DOMAIN Locator!ManagerImports
        /\ n \in Locator!ManagerImports[6].names
        /\ \A d \in DOMAIN Locator!ManagerImports :
             d > 6 => n \notin Locator!ManagerImports[d].names
    BY ManagerBlocks
  <2>3. /\ 4 \in DOMAIN Locator!ConnectorImports
        /\ Locator!ConnectorName[n] \in Locator!ConnectorImports[4].names
        /\ \A d \in DOMAIN Locator!ConnectorImports :
             d > 4 => Locator!ConnectorName[n] \notin Locator!ConnectorImports[d].names
    BY <2>1, ConnectorBlocks
  <2>4. Locator!ManagerImports[6].package = Locator!ConnectorImports[4].package
    BY ManagerBlocks, ConnectorBlocks
  <2> QED BY <2>1, <2>2, <2>3, <2>4, ServedByBlock
<1>7. \A n \in {"SchemaManager", "SnapshotManager", "SubscriptionManager",
                "TopicManager"} : Serves(n)
  <2> TAKE n \in {"SchemaManager", "SnapshotManager", "SubscriptionManager",
                  "TopicManager"}
  <2>1. /\ n \in DOMAIN Locator!ConnectorName
        /\ Locator!ConnectorName[n]
             \in {"SchemaConnector", "SnapshotConnector",
                  "SubscriptionConnector", "TopicConnector"}
    BY DEF Locator!ConnectorName
  <2>2. /\ 7 \in DOMAIN Locator!ManagerImports
        /\ n \in Locator!ManagerImports[7].names
        /\ \A d \in DOMAIN Locator!ManagerImports :
             d > 7 => n \notin Locator!ManagerImports[d].names
    BY ManagerBlocks
  <2>3. /\ 6 \in DOMAIN Locator!ConnectorImports
        /\ Locator!ConnectorName[n] \in Locator!ConnectorImports[6].names
        /\ \A d \in DOMAIN Locator!ConnectorImports :
             d > 6 => Locator!ConnectorName[n] \notin Locator!ConnectorImports[d].names
    BY <2>1, ConnectorBlocks
  <2>4. Locator!ManagerImports[7].package = Locator!ConnectorImports[6].package
    BY ManagerBlocks, ConnectorBlocks
  <2> QED BY <2>1, <2>2, <2>3, <2>4, ServedByBlock
<1>8. \A n \in {"FunctionGen2Manager", "FunctionGen1Manager"} : Serves(n)
  <2> TAKE n \in {"FunctionGen2Manager", "FunctionGen1Manager"}
  <2>1. /\ n \in DOMAIN Locator!ConnectorName
        /\ Locator!ConnectorName[n]
             \in {"FunctionGen2Connector", "FunctionGen1Connector"}
    BY DEF Locator!ConnectorName
  <2>2. /\ 8 \in DOMAIN Locator!ManagerImports
        /\ n \in Locator!ManagerImports[8].names
        /\ \A d \in DOMAIN Locator!ManagerImports :
             d > 8 => n \notin Locator!ManagerImports[d].names
    BY ManagerBlocks
  <2>3. /\ 7 \in DOMAIN Locator!ConnectorImports
        /\ Locator!ConnectorName[n] \in Locator!ConnectorImports[7].names
        /\ \A d \in DOMAIN Locator!ConnectorImports :
             d > 7 => Locator!ConnectorName[n] \notin Locator!ConnectorImports[d].names
    BY <2>1, ConnectorBlocks
  <2>4. Locator!ManagerImports[8].package = Locator!ConnectorImports[7].package
    BY ManagerBlocks, ConnectorBlocks
  <2> QED BY <2>1, <2>2, <2>3, <2>4, ServedByBlock
<1> QED BY <1>1, <1>2, <1>3, <1>4, <1>5, <1>6, <1>7, <1>8
   DEF Locator!CLOUD_SERVICE_GROUP_MAP

\* What collect goes through.
Groups == IF options = {} THEN Locator!Groups ELSE CHOOSE groups \in options : TRUE

LEMMA Listed ==
  ASSUME options \in Locator!Option, NEW g \in DOMAIN Locator!CLOUD_SERVICE_GROUP_MAP
  PROVE  g \in Locator!Selected => \E i \in DOMAIN Groups : Groups[i] = g
<1>1. CASE options = {}
  BY <1>1 DEF Groups, Locator!Groups, Locator!CLOUD_SERVICE_GROUP_MAP
<1>2. CASE options # {}
  BY <1>2 DEF Groups, Locator!Option, Locator!Selected
<1> QED BY <1>1, <1>2

\* Every position of the list names a manager of the map, and every name of
\* every group in it has a position.
LEMMA Target ==
  LET target == Locator!_get_target_execute_manager IN
  /\ \A p \in DOMAIN target : Serves(target[p])
  /\ \A i \in DOMAIN Groups :
       Groups[i] \in DOMAIN Locator!CLOUD_SERVICE_GROUP_MAP =>
         \A k \in DOMAIN Locator!CLOUD_SERVICE_GROUP_MAP[Groups[i]] :
           \E p \in DOMAIN target :
             target[p] = Locator!CLOUD_SERVICE_GROUP_MAP[Groups[i]][k]
<1> DEFINE target == Locator!_get_target_execute_manager
           map == Locator!CLOUD_SERVICE_GROUP_MAP
<1>1. target = [p \in Locator!Positions(Groups) |-> map[Groups[p[1]]][p[2]]]
  BY DEF Locator!_get_target_execute_manager, Groups,
         Locator!_cloud_service_groups_to_types
<1>2. \A p \in Locator!Positions(Groups) :
        /\ p[1] \in DOMAIN Groups /\ Groups[p[1]] \in DOMAIN map
        /\ p[2] \in DOMAIN map[Groups[p[1]]]
  BY DEF Locator!Positions, Locator!Known
<1>3. \A i \in DOMAIN Groups : Groups[i] \in DOMAIN map =>
        \A k \in DOMAIN map[Groups[i]] : <<i, k>> \in Locator!Positions(Groups)
  BY DEF Locator!Positions, Locator!Known
<1> HIDE DEF map
<1>4. \A p \in DOMAIN target : Serves(target[p])
  BY <1>1, <1>2, NamesServed DEF map
<1>5. \A i \in DOMAIN Groups : Groups[i] \in DOMAIN map =>
        \A k \in DOMAIN map[Groups[i]] :
          \E p \in DOMAIN target : target[p] = map[Groups[i]][k]
  BY <1>1, <1>3
<1> QED BY <1>4, <1>5 DEF map

\* Until the request is submitted nothing is run; then all of the list is.
LocatorInv ==
  /\ options \in Locator!Option
  /\ phase \in {"importing", "ready", "submitted"}
  /\ phase = "importing" => managers = <<>> /\ connectors = <<>>
  /\ phase # "importing" =>
       /\ managers = Locator!NameSpace(Locator!ManagerImports)
       /\ connectors = Locator!NameSpace(Locator!ConnectorImports)
  /\ execute_managers =
       IF phase # "submitted" THEN <<>>
       ELSE [p \in DOMAIN Locator!_get_target_execute_manager |->
               [name |-> Locator!_get_target_execute_manager[p],
                package |-> managers[Locator!_get_target_execute_manager[p]]]]

LEMMA InitLocatorInv == Locator!Init => LocatorInv
BY DEF Locator!Init, LocatorInv

LEMMA StepLocatorInv == LocatorInv /\ [Locator!Next]_(Locator!vars) => LocatorInv'
<1> SUFFICES ASSUME LocatorInv, [Locator!Next]_(Locator!vars) PROVE LocatorInv'
  OBVIOUS
<1>1. CASE Locator!Import
  BY <1>1 DEF LocatorInv, Locator!Import
<1>2. CASE Locator!Collect
  <2> DEFINE names == Locator!_get_target_execute_manager
             found == {p \in DOMAIN names : names[p] \in DOMAIN managers
                         /\ \A q \in DOMAIN names :
                              Locator!Before(q, p) => names[q] \in DOMAIN managers}
  <2>1. found = DOMAIN names
    BY <1>2, Target DEF Serves, LocatorInv, Locator!Collect
  <2>2. options' = options /\ managers' = managers /\ connectors' = connectors
    BY <1>2 DEF Locator!Collect
  <2>3. (Locator!_get_target_execute_manager)' = names
    BY <2>2 DEF Locator!_get_target_execute_manager,
                Locator!_cloud_service_groups_to_types
  <2> HIDE DEF names
  <2>4. /\ phase = "ready" /\ phase' = "submitted"
        /\ execute_managers' =
             [p \in DOMAIN names |-> [name |-> names[p], package |-> managers[names[p]]]]
    BY <1>2, <2>1 DEF Locator!Collect, names
  <2> HIDE DEF found
  <2> QED BY <2>2, <2>3, <2>4 DEF LocatorInv
<1>3. CASE UNCHANGED Locator!vars
  <2>1. (Locator!_get_target_execute_manager)' = Locator!_get_target_execute_manager
    BY <1>3 DEF Locator!_get_target_execute_manager, Locator!vars,
                Locator!_cloud_service_groups_to_types
  <2> QED BY <1>3, <2>1 DEF LocatorInv, Locator!vars
<1> QED BY <1>1, <1>2, <1>3 DEF Locator!Next

LEMMA LocatorInvariance == Locator!Spec => []LocatorInv
BY InitLocatorInv, StepLocatorInv, PTL DEF Locator!Spec

LEMMA LocatorTyped == LocatorInv => Locator!TypeOK
<1> SUFFICES ASSUME LocatorInv PROVE Locator!TypeOK
  OBVIOUS
<1>1. /\ DOMAIN managers \subseteq Locator!Names(Locator!ManagerImports)
      /\ DOMAIN connectors \subseteq Locator!Names(Locator!ConnectorImports)
  BY DEF LocatorInv, Locator!NameSpace
<1>2. \A e \in Locator!Executed : e.name \in DOMAIN Locator!ConnectorName
  <2>1. CASE phase # "submitted"
    BY <2>1 DEF LocatorInv, Locator!Executed
  <2>2. CASE phase = "submitted"
    <3> DEFINE names == Locator!_get_target_execute_manager
    <3>1. /\ DOMAIN execute_managers = DOMAIN names
          /\ \A p \in DOMAIN names : execute_managers[p].name = names[p]
      BY <2>2 DEF LocatorInv
    <3> QED BY <3>1, Target DEF Serves, Locator!Executed
  <2> QED BY <2>1, <2>2
<1> QED BY <1>1, <1>2 DEF LocatorInv, Locator!TypeOK

LEMMA NamesFound ==
  LocatorInv => Locator!ConnectorOfOwnService /\ Locator!SelectedNamesRun
<1> SUFFICES ASSUME LocatorInv
             PROVE  Locator!ConnectorOfOwnService /\ Locator!SelectedNamesRun
  OBVIOUS
<1> DEFINE names == Locator!_get_target_execute_manager
<1>1. CASE phase # "submitted"
  BY <1>1 DEF LocatorInv, Locator!ConnectorOfOwnService, Locator!SelectedNamesRun,
              Locator!Executed
<1>2. CASE phase = "submitted"
  <2>1. /\ DOMAIN execute_managers = DOMAIN names
        /\ \A p \in DOMAIN names :
             /\ execute_managers[p].name = names[p]
             /\ execute_managers[p].package = managers[names[p]]
        /\ managers = Locator!NameSpace(Locator!ManagerImports)
        /\ connectors = Locator!NameSpace(Locator!ConnectorImports)
    BY <1>2 DEF LocatorInv
  <2>2. Locator!ConnectorOfOwnService
    BY <2>1, Target DEF Serves, Locator!ConnectorOfOwnService, Locator!Executed
  <2>3. ASSUME NEW g \in Locator!Selected,
               NEW k \in DOMAIN Locator!CLOUD_SERVICE_GROUP_MAP[g]
        PROVE  \E e \in Locator!Executed :
                 e.name = Locator!CLOUD_SERVICE_GROUP_MAP[g][k]
    <3>1. g \in DOMAIN Locator!CLOUD_SERVICE_GROUP_MAP
      BY DEF Locator!Selected
    <3>2. PICK i \in DOMAIN Groups : Groups[i] = g
      BY <3>1, Listed DEF LocatorInv
    <3>3. PICK p \in DOMAIN names : names[p] = Locator!CLOUD_SERVICE_GROUP_MAP[g][k]
      BY <3>1, <3>2, Target
    <3> QED BY <2>1, <3>3 DEF Locator!Executed
  <2> QED BY <2>2, <2>3 DEF Locator!SelectedNamesRun
<1> QED BY <1>1, <1>2

-----------------------------------------------------------------------------
\* The managers together: one that is given work takes its own steps and no
\* other, since the others leave its variables as they are.

WorksPaging == "paging" \in working

LEMMA PagingAlone == Spec => Paging!Spec \/ []~WorksPaging
<1>1. Init /\ WorksPaging => Paging!Init
  BY DEF Init, WorksPaging
<1>2. WorksPaging /\ [Next]_vars => WorksPaging' /\ [Paging!Next]_(Paging!vars)
  BY DEF Next, vars, WorksPaging, pagingVars, Paging!vars
<1>3. ~WorksPaging /\ [Next]_vars => ~WorksPaging'
  BY DEF Next, vars, WorksPaging
<1> QED BY <1>1, <1>2, <1>3, PTL DEF Spec, Paging!Spec

WorksLocator == "locator" \in working

LEMMA LocatorAlone == Spec => Locator!Spec \/ []~WorksLocator
<1>1. Init /\ WorksLocator => Locator!Init
  BY DEF Init, WorksLocator
<1>2. WorksLocator /\ [Next]_vars => WorksLocator' /\ [Locator!Next]_(Locator!vars)
  BY DEF Next, vars, WorksLocator, locatorVars, Locator!vars
<1>3. ~WorksLocator /\ [Next]_vars => ~WorksLocator'
  BY DEF Next, vars, WorksLocator
<1> QED BY <1>1, <1>2, <1>3, PTL DEF Spec, Locator!Spec

WorksLoops == "loops" \in working

LEMMA LoopsAlone == Spec => Loops!Spec \/ []~WorksLoops
<1>1. Init /\ WorksLoops => Loops!Init
  BY DEF Init, WorksLoops
<1>2. WorksLoops /\ [Next]_vars => WorksLoops' /\ [Loops!Next]_(Loops!vars)
  BY DEF Next, vars, WorksLoops, loopVars, Loops!vars
<1>3. ~WorksLoops /\ [Next]_vars => ~WorksLoops'
  BY DEF Next, vars, WorksLoops
<1> QED BY <1>1, <1>2, <1>3, PTL DEF Spec, Loops!Spec

\* A listing that appends its pages is complete and without duplicates,
\* whatever the collection and however the API cuts it into pages.
THEOREM ListingsComplete == Spec => []AppendedListingComplete
<1>1. Paging!Spec => [](Paging!AppendedListingComplete)
  BY AppendedComplete, PagingInvariance, PTL
<1>2. (WorksPaging => Paging!AppendedListingComplete) => AppendedListingComplete
  BY DEF WorksPaging, AppendedListingComplete
<1> QED BY <1>1, <1>2, PagingAlone, PTL

\* No region that has resource policies is missing from the dictionary.
THEOREM PolicyRegionsListed == Spec => []RegionsWithPoliciesListed
<1>1. Paging!Spec => [](Paging!RegionsWithPoliciesListed)
  BY PoliciesOfEveryRegion, PagingInvariance, PTL
<1>2. (WorksPaging => Paging!RegionsWithPoliciesListed) => RegionsWithPoliciesListed
  BY DEF WorksPaging, RegionsWithPoliciesListed
<1> QED BY <1>1, <1>2, PagingAlone, PTL

\* Whatever happened to the items before it, an error names its own item, or
\* the nearest one before it in the managers that may fail too early for that.
THEOREM ErrorsNameItems == Spec => []ErrorIds
<1>1. Loops!Spec => [](Loops!ErrorNamesItem /\ Loops!StaleIdIsNearest)
  BY ErrorsNamed, BoundAssumption
<1>2. (WorksLoops => Loops!ErrorNamesItem /\ Loops!StaleIdIsNearest) => ErrorIds
  BY DEF WorksLoops, ErrorIds
<1> QED BY <1>1, <1>2, LoopsAlone, PTL

\* Whatever list of groups a request names, all managers of its groups run, and
\* each finds the connector of its own service.
THEOREM NamesServices == Spec => []NamesStandForServices
<1>1. Locator!Spec => [](Locator!ConnectorOfOwnService /\ Locator!SelectedNamesRun)
  BY LocatorInvariance, NamesFound, PTL
<1>2. (WorksLocator => Locator!ConnectorOfOwnService /\ Locator!SelectedNamesRun)
        => NamesStandForServices
  BY DEF WorksLocator, NamesStandForServices
<1> QED BY <1>1, <1>2, LocatorAlone, PTL

\* A listing has no resource twice, no look-up of a manager raises, and an error
\* is one of an item that was listed.
THEOREM TypesCorrect == Spec => []ManagersTypeOK
<1>1. PagingInv => Paging!TypeOK
  BY DEF PagingInv
<1>2. LoopInv => Loops!TypeOK
  BY DEF LoopInv
<1>3. Loops!Spec => []LoopInv
  <2>1. Loops!Init => LoopInv
    BY InitLoopInv, BoundAssumption
  <2>2. LoopInv /\ [Loops!Next]_(Loops!vars) => LoopInv'
    BY StepLoopInv, BoundAssumption
  <2> QED BY <2>1, <2>2, PTL DEF Loops!Spec
<1>4. /\ WorksPaging => Paging!TypeOK
      /\ WorksLocator => Locator!TypeOK
      /\ WorksLoops => Loops!TypeOK
      => ManagersTypeOK
  BY DEF ManagersTypeOK, WorksPaging, WorksLocator, WorksLoops
<1>5. Spec => [](WorksPaging => Paging!TypeOK)
  BY <1>1, PagingInvariance, PagingAlone, PTL
<1>6. Spec => [](WorksLocator => Locator!TypeOK)
  BY LocatorInvariance, LocatorTyped, LocatorAlone, PTL
<1>7. Spec => [](WorksLoops => Loops!TypeOK)
  BY <1>2, <1>3, LoopsAlone, PTL
<1> QED BY <1>4, <1>5, <1>6, <1>7, PTL

=============================================================================
