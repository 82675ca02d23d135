# Verification of the Google Cloud inventory collector

A TLA+ development kept beside the plugin in `src/`.  It models the collection
pipeline, the state its threads share, and the logic of the service managers;
TLC checks small instances; TLAPS proves, for every value of the constants, all
that they show but liveness.
Paths below are relative to `src/src/spaceone/inventory/`.

## 1. Inventory

| Part | State | Operations | Interacts with |
|---|---|---|---|
| `api/plugin/collector.py` gRPC servicer | none | `init`, `verify`, `collect` | makes one `CollectorService` per call; calls run side by side in one process |
| `service/collector_service.py` `CollectorService` | `execute_managers`, the futures, the stream of one call | `collect` (target selection, pool, `as_completed`, metrics), `init`, `verify` | submits managers to a `ThreadPoolExecutor(MAX_WORKER)`, pulls their results, streams primitives to the client |
| `libs/manager.py` `GoogleCloudManager` | class attributes shared by all managers of the process: `collected_region_codes`, and through `cloud_service_types` the module-level type objects | `collect_resources`, `collect_cloud_service_type`, `set_region_code`, `collect_region`, error constructors, URL/zone parsing | called in pool threads |
| `manager/**` service managers: 20 in the group map, and `RecommendationManager`, whose entry in the map is commented out | per call: `collected_cloud_services`, `error_responses`, the loop-carried resource id, the dictionaries of the related resources | `collect_cloud_service`: list, match related resources, build one response per item | connectors; base class |
| `connector/**` | a Google API client per call | `list_*`/`get_*`, paging with `nextPageToken` / `*_next` | Google Cloud APIs (external) |
| `conf/cloud_service_conf.py` | constants: `MAX_WORKER`, group map, `REGION_INFO`, and `RECOMMENDATION_MAP`, which is written to | - | all managers |
| `manager/__init__.py`, `connector/__init__.py` | the names under which the locator finds classes | import order decides between equal names | `locator.get_manager`, `get_connector` |
| `model/**`, `libs/schema/**`, `metrics/**`, `info/**` | declarative schemas, dashboards, metric files | `to_primitive` (schematics) | every response |

Hard behaviours: threads of several requests share lists and objects without a
lock; a listing, an item, or a serialisation may fail while others go on; results
are streamed in completion order; a client may go away; pages of a listing must
be joined; resources are matched to each other through URLs; a manager makes up
to fifteen calls one after the other, of a project that goes on changing.

What makes each part correct:

* base class - every listed item is answered once; the region of each resource
  comes with it; failures are reported unless the service is disabled; options of
  one request do not reach another;
* service - no result is lost, repeated or reordered; one manager's failure costs
  no other manager anything; every call ends; no thread survives its call;
* managers - each match (firewall/instance, route/instance, disk/policy, ...)
  is what the lists determine, whatever their order; what exists all the time
  while a project is being listed is shown as it is, whatever is created and
  deleted next to it; two pages that show one thing say the same of it;
* connectors - a listing contains the items of all pages;
* locator - each name of the group map denotes the class the map means.

## 2. Modules

| Module | Models | Uses |
|---|---|---|
| `GoogleCloudManager` | `libs/manager.py`, one task per call of `collect_resources`; the loop of `collect_cloud_service` | - |
| `GoogleCloudManagerProofs` | theorems about it | `GoogleCloudManager`, TLAPS |
| `CollectorService` | `service/collector_service.py`, one generator per request over the tasks | extends `GoogleCloudManager` |
| `CollectorServiceProofs` | theorems about it, its refinement of `CollectionContract` among them | `CollectorService`, `GoogleCloudManagerProofs`, TLAPS |
| `CollectionContract` | what a call of `collect` promises its client (abstract specification) | instantiated by `CollectorService` |
| `ConnectorPaging` | the paging loop of every `list_*` method of `connector/` | - |
| `ManagerLocator` | the name spaces of `manager/__init__.py`, `connector/__init__.py`, the group map, target selection | - |
| `ManagerLoops` | the loop-carried id of twenty managers | - |
| `Managers` | these three side by side | the three by INSTANCE |
| `ManagersProofs` | theorems about them | `Managers`, TLAPS |
| `ChangingProject` | the Google Cloud project while it is being listed (external) | - |
| `InstanceMatching` | `_get_matched_instance` of `FirewallManager` and `RouteManager` | - |
| `VMFirewalls` | the firewall helper of `VMInstanceManager`: the rules of an instance | - |
| `FirewallSides` | what both say of one firewall and one instance | extends the two above |
| `ExternalIPAddress` | the merge of three listings in `ExternalIPManager` | - |
| `LoadBalancing` | the joins of `LoadBalancingManager` | - |
| `VPCNetworks` | the five listings and joins of `VPCNetworkManager` | `ChangingProject` |
| `NetworkingManagers` | the networking managers of one request | `FirewallSides`, `ExternalIPAddress`, `LoadBalancing`, `VPCNetworks` by INSTANCE |
| `NetworkingProofs` | theorems about them | `NetworkingManagers`, TLAPS |
| `DiskPolicies` | snapshot schedules in `DiskManager` | - |
| `DiskViews` | size, rates and encryption of one disk in the five managers that show it | - |
| `VMInstances` | listings, disk join and machine types of `VMInstanceManager` | - |
| `VMRelations` | its joins with subnets, VPCs, target pools, forwarding rules and managed groups | `ChangingProject` |
| `VMServers` | its image, operating system and ssh keys | `ChangingProject` |
| `InstanceGroups` | `InstanceGroupManager` and `InstanceTemplateManager`, the two ends of one relation | `ChangingProject` |
| `ComputeManagers` | the Compute Engine managers of one request | the six above by INSTANCE |
| `InstanceGroupsProofs`, `VMRelationsProofs` | theorems about groups with their templates, and about what an instance is connected with | `ComputeManagers`, TLAPS |
| `ComputeProofs` | theorems about the others, and the types of all | the two above |
| `SQLInstances` | `CloudSQLManager`: availability, databases and users | - |
| `Buckets` | `StorageManager`: public access, payer, region | `ChangingProject` |
| `PubSubTopics`, `PubSubSubscriptions` | `TopicManager`, `SubscriptionManager` | `ChangingProject` (topics) |
| `CloudFunctions` | trigger providers and update times of both generations | - |
| `Recommendations` | `RecommendationManager` over the module-level `RECOMMENDATION_MAP` | - |
| `ServiceManagers` | these managers of one request | the six above by INSTANCE |
| `ServiceProofs` | theorems about them | `ServiceManagers`, TLAPS |
| `MC...` | values of the constants for TLC | the module named |

In a module, an operator whose comment begins "Mutant of" is a broken variant of
the definition below it.  No specification uses it; PROJECT.json pairs it with
the property that notices it.

### GoogleCloudManager

One `pc` per task; one action per read or write of shared state, so that every
interleaving the interpreter can produce is a behaviour.  `CheckCode`,
`LookUpCode`, `StoreCode` are the three accesses of lines 41-46 to the shared
`service_code`; `CheckRegion` and `AppendRegion` the test and the append of
`set_region_code`; `AddRegion` one turn of the loop of `collect_region` over the
live list.  `List`/`ListFails`, `BuildItem`, `BuildFails`, `Respond` and `EndLoop`
are the loop all managers share (`set_region_code` comes after the resource is
built, the response object last); managers outside `Regional` (the four of
Pub/Sub) do not register regions.  `Raise` is the `except` clause with its
"service disabled" cases.  The order in which a listing returns its items is left
open: `todo` is a set.  Labels, tags, icons, names and message texts are
abstracted away.  In particular `custom_asset_url`, which rewrites the shared icon
in the same way as the service code, is not modelled.

### CollectorService and CollectionContract

`Submit`, `BadTargets` and `Reject` are the three ways through the head of
`collect`; `StartTask` is the pool (external: first-in first-out, at most
`MaxWorker` at a time); `NextFuture`, `Yield`, `YieldFails`, `EndFuture` are the
loop over `as_completed`; `LeavePool` and `SendMetrics` the end.  `Cancel` is
gRPC closing the generator of a client that went away (external); leaving the
`with` block waits for the pool, `EndDrain`.  A type object is read when it is
serialised (`Primitive`), not when it was gathered: `total_resources` holds
references.  Entries of `stream` carry the task and position they come from;
these two fields are history.

`CollectionContract` says what is promised without pool, shared state or order of
the stream: items are answered at most once, a manager is concluded once, as
complete only if every item has its answer, a call that ends has concluded every
manager, a call that is closed leaves none at work.  The mapping (`Contract` in
`CollectorService`) has an operator for each of the contract's variables:
`CallPhase` is read off `rpc`, `Activity` off `pc`, `Answered` off the stream, and
`Verdict` off `settled`: "complete" if the manager met no exception and its whole
result was streamed.  `KeepsContract` is `Contract!ContractSpec`.

### Managers, NetworkingManagers, ComputeManagers, ServiceManagers

A composition has the variables of its parts, each part by INSTANCE with its
constants left open, and `working`, the set of parts that are given work: one of
the sets in `AtWork`, chosen at the start.  A step of the whole is a step of one of
these and leaves the others' variables alone; a part without work has its
variables at values that nothing reads (`PagingUnused`, ...).  The managers of a
request do run at the same time, each in a thread of the pool, over lists of
their own; what they share is in `GoogleCloudManager`.  A property of a composition
says what its parts' properties say of those at work.  Runs and theorems are of
the same specifications: TLC takes an `AtWork` of singletons, a theorem any.

### ConnectorPaging

Every list method runs one loop and differs in how it joins a page; a definition
per connector lists its methods with their way of joining.  The API (external)
cuts what is left into pages, an empty page included, and may fail at each.

### ManagerLocator

`Import` is what the two lists of imports leave: a later import of an equal name
replaces the earlier.  Names that one package imports in a row are taken together
(`From`).  `Collect` is the target selection of `CollectorService.collect`, unknown and
repeated groups included.  The two classes called `SnapshotManager` (Compute
Engine, Pub/Sub) and the two called `SnapshotConnector` are in it as they are.

### ManagerLoops

A definition per manager says whether anything can fail before the id is set.
`FailEarly`, `FailLate` and `Respond` are the outcomes of a turn; the id survives
the turn.  `RouteManager` sets it after the model is built, `SchemaManager` after
a call, `LoadBalancingManager` never.  The managers of topics, subscriptions,
Pub/Sub snapshots and functions set it at once, but take it from a name in an
expression that may raise itself, so they count as late too.

### InstanceMatching, VMFirewalls, FirewallSides

`InstanceMatching` keeps what is unusual in the code: on a match both managers
rebind the loop variable `instance` to the flattened copy they built while they
are still walking its interfaces (`bound`).  `VMFirewalls` answers the same
question for `VMInstanceManager`: by targets and networks, one entry per port.
`FirewallSides` runs the first and evaluates the second in its states, over all
service accounts and protocols a rule may add.  The two pages are not equal:
`FirewallSidesAgree` says exactly how far they go together.

### ExternalIPAddress, LoadBalancing

`ExternalIPAddress` has one action per listing and the list that guards against
duplicates.  `LoadBalancing` builds one load balancer per step from links; a link
stands for its object, except that bucket links are compared as parts of strings
(`PartOf`).  All listings are made before the joins, and an object that comes or
goes between them is in some of them only: the initial states leave any of the
proxies, rules, URL maps, backend services, buckets, health checks and pools out
of its listing, and let each link lead to anything of the kind it may refer to,
listed or not.  A URL map without a default service, which redirects, has "" for
it, as the code has (`:319`, `:357`).

### ChangingProject and the managers that join listings of it

A project is a set of facts - that an object exists, that one refers to another -
each with the facts it needs, since Google Cloud refuses to delete what is
referred to.  `Change` adds or removes a fact.  `lasting` and `ever` are history:
what has held all the time, and at some time.  They say what a manager that joins
listings of different moments can be held to: show what lasts, and nothing that
never was.

`VPCNetworks`, `VMRelations`, `InstanceGroups` keep the answers in `listings`, in
the order of the code's calls (`Calls`); `ProjectChanges` may come between any
two.  `VMRelations` asks for the members of each group manager after the listing
of managers; a 404 there is caught nowhere (`MembersNotFound`, `raised`).
`InstanceGroups` starts as one manager or the other and asks for members within
the loop, where a 404 is an error response (`GroupNotFound`).  `VMServers` has the
look-up of a boot disk by the name of the instance, over all zones.  `Buckets`
and `PubSubTopics` ask for each item within the loop; `SQLInstances` has the
lives of its instances in place of facts, because a state leads to the next.

### DiskPolicies, VMInstances, DiskViews

`DiskPolicies`: the dictionaries of policies are shared state of the loop;
`Rewritten` is what a disk does to those it reaches, including the ones before the
policy at which it fails.  `VMInstances`: `ListDisks`, `ListOthers`,
`ListInstances` are the calls in the order of the code, and the project changes in
between (`Attach`, `Detach`, external).  `BuildCustom` appends the machine type it
asked for to the list all instances share.  `DiskViews` has one disk and the five
pages it is shown on, each with its own copy of the formulas; rates are in
hundredths, and rounding is Python's, to the even tenth.

### PubSubTopics, PubSubSubscriptions, CloudFunctions, Recommendations

In `PubSubTopics` topics and names are listed as the connector does it: each page
replaces the one before, so that of what there is any part may be left
(`LastPage`); the history variable `missed` has the rest.  A topic whose retention
has a fraction of a second is an error response once its parts have been asked for
(`Unread`).  `PubSubSubscriptions` models the conversion of a duration to its two
largest units, and the four durations that go through the same `int()`
(`ReadsAsInt`).  `CloudFunctions` makes the provider map one listing at a time; an
Eventarc provider is listed once per location.  `Recommendations` has one `at` per
request and a step wherever another thread may come between: listing, checking
whether the shared map has an entry, replacing or extending it, counting and
reporting. Of each parent the last page of recommendations is received, any part
of what there is to list (`received`).  Three things raise, and end the request:
the name of an asset, which is taken apart outside of every try (`StartNested`); a
recommendation that cannot be read (`Reads`); and, where the sums are made, a
priority that is none of the four (`LevelsCount`) or, in a recommender whose
category is COST, a cost of None (`CostsAdd`).  The last two come from the shared
map, so the recommendation may be another request's.  Lists the code builds from
others are sets of positions in these, in the order of the loops (`Before`): a
parent is the position of a location, of a recommender and of a zone.  `Turn` is
the next recommendation to merge; those of one parent come in an order of the
API's, which the CHOOSE leaves open.  Its entry in the group map is commented out,
so this is the code as it would run.

## 3. Runs

| Run | Instance | Shows |
|---|---|---|
| `manager_threads` | 3 threads, two of them of one type under one mapper, 2 items that both count as "global", 3 exceptions | `TypeOK`, `EachItemAnsweredOnce`, `OwnRegionsCollected`, `SilentOnlyIfSkipped`, `DuplicatesBounded`, `KeyErrorNeedsRival`, `AppendOnly` |
| `collector_pair` | 1 request, 2 managers, a pool of 1, 2 items in two regions | `CollectorTypeOK`, `Delivered`, `NoOrphanManagers`, and the refinement `KeepsContract`, with a waiting queue |
| `collector_rivals` | 2 requests with 1 manager each over the same type, one mapping | `RegionsDelivered`, `CodeAsConfigured` when all requests agree, `RequestsEnd` under fairness |
| `collector_leak` (violation) | request r1 maps codes, r2 does not | r2 is sent mapped codes |
| `all_managers` | every list method, 3 resources in 2 zones, every cut into pages; every option of up to 2 groups, or none; 20 managers, up to 4 items, each of which may fail early or late | `ManagersTypeOK`, `AppendedListingComplete`, `RegionsWithPoliciesListed`, `NamesStandForServices`, `ErrorIds` |
| `paging_functions` (violation) | the listings of `all_managers` | a Cloud Functions listing of several pages keeps the last |
| `locator_only_selected` (violation) | one group | Compute Engine runs the Pub/Sub class |
| `networking_managers` | 2 instances with 2 interfaces in 2 networks, rules with and without targets and ports; 2 addresses in 3 listings; 2 proxies, 2 rules, a pool, a service, 2 buckets, each listed or not; 2 networks with a firewall, subnets, a route and 2 addresses | `TypeOK`, `InstancesMatched`, `FirewallSidesAgree`, `AddressesShown`, `BalancersShown`, `LastingShown` |
| `matching_tags` (violation) | 2 instances, a tag | a route with tags is shown with no instance |
| `all_ports` (violation) | the same, and a rule for the protocol "all" | an instance is not shown with a rule that allows everything |
| `compute_managers` | 2 disks, 3 policies in 2 regions; 3 instances, 2 disks, a local SSD, a custom type; 2 instances in 2 networks, a pool, 2 group managers; a group of each kind, a template; disks of 2 names in 2 zones; a disk on 5 pages | `TypeOK`, `DisksShown`, `InstancesShown`, `PlacedInOwnNetwork`, `BalancersOfInstance`, `ManagedInstancesMarked`, `GroupsAsTheyAre`, `UseShownOnBothEnds` |
| `service_managers` | 2 SQL instances, 2 buckets, 2 topics with 2 subscriptions and a snapshot, a subscription, up to 3 providers and a function, 2 requests with 3 recommendations and one with an asset of a name that raises | `TypeOK`, `FailsOnlyByChange`, `BucketsShown`, `PubSubShown`, `ProviderOffersEvent`, `ReportsOwn`, `EndedBy` |

A property of a composition is the conjunction of properties of its modules, each
stated and commented where it belongs.

Bounds.  Two threads are enough for a check-then-act race, three for a second
overtaking; two items reach both orders of success and error in a loop; one
exception of each class reaches each branch of the `except` clause.  Three
resources in two zones reach a zone split over two pages with another between.  A
join over links needs two objects that share a third and one that links to
nothing.

* `MaxChanges`, `MaxSteps` (2; 1 for groups and servers, which have more facts):
  one change tells what lasts from what does not, at each place between two
  calls; the second lets something come and go, or go and come back.
* `Sizes` {10, 11, 13} with one resize: rates of `pd-standard` that are rounded up,
  down and to the even tenth.  `GiB` stands for 1024^3 and is 1024, so that rates
  stay within TLC's integers; nothing depends on its value but that it is large.
* `Seconds`: both sides of each unit, and the shortest and longest retention.
* `MaxProviders` 3: one name listed in two locations with another between.
* The recommender has three recommendations: two of one request, so that they are
  merged; one of another, so that it is a leak.  `Contents` has what each branch
  tells apart: two of the four priorities, and none of them; COST with and without
  a cost, and another category without; one that cannot be read.
* A listing of which the last page replaces the others is any subset of what there
  is: no number of pages can leave anything else.

In the runs of compositions one manager at a time has work: they share no state
besides what `GoogleCloudManager` models, so their interleavings would add
nothing, which is what the lemmas ending in `Alone` prove.  `Recommendations` does
share state, and has its requests within the module.  Deadlock checking is off
because each system rests once its (finitely many) requests have ended.

Fairness (`collector_rivals`): weak fairness of each pool thread (an operating
system thread whose API calls return or raise) and of each generator (the client
reads on, or goes away).  Requests need not arrive, clients need not cancel.  The
managers by themselves are loops over finite lists; that they end is what
`RequestsEnd` shows of the whole.

What the violations say of the code:

* `collector_leak` - `service_code_mappers` of one request rewrites module-level
  type objects, so later and concurrent requests are sent the rewritten code.
* `paging_functions` - `list_functions` and seven other listings assign each page
  to the result; a listing of more than one page keeps only the last.
* `locator_only_selected` - `SnapshotManager` denotes the Pub/Sub class for both
  groups; Compute Engine snapshots are never collected, Pub/Sub ones run twice in
  a request for everything.
* `matching_tags` - `RouteManager` looks for a list among strings.
* `all_ports` - the branch for a rule that applies to all ports asks for a key the
  entry was not given; such a rule is missing among those of an instance.

Properties that hold and may surprise:

* `RegionShownOnce` - a policy's region is parsed again for each disk and is empty
  from the second on.
* `FailsAtDiskOnly` - an instance with a local SSD, or with a disk attached while
  the project was being listed, is always an error response.
* `StaleIdIsNearest` - route and schema errors may carry another item's id, as may
  those of Pub/Sub and functions whose name does not come apart.
* `KeyErrorNeedsRival` - a code mapping may fail with KeyError, but only because
  of another thread of the same type.
* `ManagedInstancesMarked` - a group manager deleted at the wrong moment costs all
  instances of the project.
* `AccessOnceTrue` - two changes to a bucket can show it with an access it never
  had, one cannot.
* `ImageOfBootDisk` - an instance may have the image of a disk in another zone.
* `PagesAgree` - a template's rates are GiB times too large.
* `TopicsComplete` - a topic is shown without the subscriptions whose names were on
  an earlier page, and is itself passed over if its name was.
* `RetentionShown` - a backoff of half a second costs the whole subscription.
* `PoolOrBackend` - a proxy is shown with no backend exactly if its URL map redirects
  or what leads to the backend was not listed.
* `ReportsOwn` - a request that met no other reports what was on the last pages of
  its listings, beside what earlier requests left; one that met another may have
  lost them.  A recommendation comes once per location, so that one of a region with
  assets in two of its zones is counted twice.
* `EndedBy` - a request may be ended by a recommendation that is another's: by one
  of unknown priority, or by one without a cost beside one about costs, either of
  which an earlier request left in the map.

## 4. Proofs

Every invariant a run checks, and the action property `AppendOnly` and the refinement
`KeepsContract`, is a theorem; `RequestsEnd` is not.

### Assumptions

Constants are left open.  What the proofs assume of them is named in the module
that declares them, and TLC evaluates it with the values of the runs, so that the
instances checked are among those the theorems speak of.

| Assumption | Where | Says |
|---|---|---|
| `TypeAssumption`, `MapperAssumption`, `RegionAssumption`, `FaultAssumption` | `GoogleCloudManager` | types of the constants; a `KeyError` of the code is no fault of the API's |
| `RequestAssumption` | `CollectorService` | each task is of one request |
| `BoundAssumption`, `ScopeAssumption` | `Managers` | bounds are numbers; a resource is in one region or zone |
| `BoundsAssumption` | the other three compositions | bounds are numbers |
| `LinksAssumption` | `NetworkingManagers` | an access configuration has a region (`RegionsNamed`); links to resources of different kinds differ and none is empty (`LinksApart`); addresses are in subnets and no objects of another kind (`AddressesApart`) |
| `LinksAssumption` | `ComputeManagers` | every instance has an interface, the listing of subnets an order, every rule a pool (`WellTyped`); zones are listed once (`ZonesDistinct`) |
| `FiniteAssumption`, `SizesAssumption`, `TypesAssumption` | `ComputeManagers` | templates are finitely many; sizes are numbers of GB; each instance has a machine type |
| `LocationAssumption`, `SecondsAssumption`, `NamesAssumption` | `ServiceManagers` | a location is a region or of one of two types of several regions; durations are numbers; no provider is called "Not Found", the text for none |
| `AdviceAssumption` | `ServiceManagers` | keys of the map of recommenders are distinct; a recommendation is one request's, of one recommender, and in a region or zone; assets are a list |

`CodesAsConfigured` has a premise besides, `MappersAgree` (below).

### The base class

`GoogleCloudManagerProofs` proves, for every set of tasks, types, items, regions
and faults: `TypeCorrect`, `ListAppendOnly`, `AnsweredOnce`, `RegionsCollected`,
`KeyErrorOnlyByRival`, `FailuresReported`, `DuplicatesLimited`.  The invariant
`IInv` has one conjunct per concern: `LoopInv` (at most one item in work),
`BuiltInv` (each handled item has one answer in one of the loop's lists),
`GatherInv` (the gathered list takes exactly these over), `RegionInv` (a built
item's region is in the shared list, and the walk has handed over what it passed),
`CodeInv`, `FaultInv`.  None of the properties is inductive by itself: they speak
of finished tasks only.  The argument rests on two facts about other threads,
`Frame` (they leave a task's own state alone) and `ListGrows` (they only append to
the shared list).

`DuplicatesLimited` counts, and no invariant of one task says how often all of them
append.  `AppendInv` says it of the list: there is an assignment of its entries to
tasks under which each entry belongs to a task that listed a resource of that
region, and no task has two entries of one region - because the check that leads
a task to an append comes after all its earlier appends, and it finds these.  The
entries of one region are thus at most as many as the tasks that listed one of
its resources.  `Task` may be infinite: at any time finitely many have listed.

### The service

`CollectorServiceProofs` extends this to the service, for every set of requests,
every assignment of tasks to them and every size of the pool.  A step of the
service is a step of one task or leaves the tasks alone, so `IInv` carries over
(`ServiceInvariance`).  `ServiceInv` adds what the generators keep: `ResultInv` (what
a task may have gathered), `StreamInv` (the stream holds the first `yielded[t]` of a
task's responses in their order, then at most one error), `ProgressInv` (a result
is streamed when its task has finished; a future is settled when its result is at
an end or cut short), `RequestInv` (which futures a call has in each phase).  What
connects them is `DoneStays`: a task that has finished no longer changes, so that
what was streamed remains what was gathered.  From these:

* `ServiceTypeCorrect`, `DeliveredInOrderAndOnce`, `RegionsReachClient`,
  `ThreadsEndWithStream`.
* `CodesAsConfigured`, which assumes `MappersAgree`: tasks of one type, of one request
  or of several, are to give it one code, and leave that code as it is.  How a
  request maps a type that no other uses is free.  The assumption is what the code
  needs and does not see to; `collector_leak` is an instance without it.
  The invariant (`CodedInv`) is that a type object has its declared code or the
  configured one, and the latter from the moment a task of that type is done with
  its mapping; that a type is read only as it is streamed does no harm then.
* `ContractKept`, the refinement: the initial states map to initial states of the
  contract (`InitImplements`), steps of a task to the steps of its `activity`
  (`TaskImplements`), and those of a generator to answers, conclusions and phases
  (`YieldImplements`, `YieldFailsImplements`, `EndFutureImplements`, `PhaseImplements`)
  or to a stutter.

### The managers

The proofs about compositions are laid out alike: a section for each part, about
the part's own specification (`BuildInvariance : VMs!Spec => []...`); then the lemmas
ending in `Alone`, by which a part that is given work takes its own steps and no
other (`Spec => [](WorksVMs => ...)` follows by temporal logic); and last the
theorems about the composition, which these give.

*All managers* (`ManagersProofs`).

* `ListingsComplete` and `PolicyRegionsListed`, for collections of any size cut into
  any pages.  `PagingInv` relates `result` to what has been served: exactly once for
  methods that append (`AppendInv`), and for the keyed one at least one resource of
  every served scope (`KeyedInv`).
* `ErrorsNameItems`.  `LoopInv`: the id is that of the nearest item before the one in
  work that got as far as setting it, and so it was for each error when it was
  made; errors of later items do not change which item that is (`ErrorsStay`).
* `NamesServices`, for an option of any length.  For each name of the group map the
  last import that binds it is found (`LastImport`, `NamesServed`); every position of
  the list then has a class whose connector is of its package (`NamesFound`).
* `TypesCorrect`: no listing has a resource twice, and no look-up raises.

*Networking* (`NetworkingProofs`).

* `Instances`, `FirewallPages`.  `MatchInv` says which interfaces have been passed
  and that each hit has its entry.  An instance is found once because no two of
  its interfaces are in one network - and, by a route, because after a match the
  loop variable is the flattened copy.  That the two pages agree follows in every
  state.
* `Addresses`.  `AddressInv`: reserved addresses are distinct and the others are looked
  for among those shown, so no two entries have one address; listings gone through
  are shown (`ShownSoFar`); an entry says what the listings say (`EntryTrue`).
* `Balancers`.  `BalancerInv`: what is shown is what the joins find, and these depend on
  nothing the loop changes (`InputsDecide`).  The rest is an argument about links
  (`RuleOrProxy`, `BalancersOfRule`, `BehindBalancer`), which holds whatever the
  listings leave out: both sides of each equation speak of what was listed.
* `Networks`, by the argument about changing projects below.
* `TypesCorrect`.

*Compute Engine* (`InstanceGroupsProofs`, `VMRelationsProofs`, `ComputeProofs`).

* `GroupsShown` and `UsesShown`; `InstancesPlaced`, `BalancersShown` and
  `ManagedMarked`, by the argument about changing projects.  That a manager's
  template is a single one is an argument about cardinality, for which templates
  are finitely many.
* `Instances`.  `BuildInv`: an instance is collected only if all its disks were
  listed; a type is asked for successfully only while it is missing from the list,
  and then is in it.  `ServerInv`: the disks listed are what held at one moment,
  so that no two in one zone have one name.
* `Disks`.  `PolicyInv`: the dictionary of a policy that was shown with its region has
  been rewritten since, so that no later disk is shown the region; and a disk that
  has been handled is shown with the policies of its links that it knows, each
  once, whatever disks came before (`Independent`).  `ViewsInv`: each page is made from
  a size the disk has had, and the formulas differ at most by rounding
  (`RoundedIsNear`, `PagesShowSizes`), but for a template's, which takes bytes for GB.
* `TypesCorrect`, for which the invariants above are needed: an instance, a group or a
  disk is shown with what was listed.

*Services* (`ServiceProofs`).

* `Databases`.  While the life of an instance does not go on, what was listed of it is
  what it is doing, and to be available is to be running, which is when the API
  answers (`AvailableIsRunning`).
* `StorageBuckets`.  `AccessInv`: before the first change what was listed holds, so that
  change alters what was listed or the policy and not both (`OneChange`).
* `PubSub`.  `WorkInv`: what was listed of the topic in work is still to be got or
  has been got, or was on an earlier page (`missed`).  A topic with a fraction in
  its retention has no other end than an error (`FractionsFail`).  One whose part
  is gone fails rightly, because the part was attached, so that it was there
  (`GoneIsChange`).  `DurationInUnits`: the remainder of each unit is less than
  the unit, so a duration shown is cut by less than the smallest unit shown, for
  every number of seconds.
* `Providers`.  `TriggersInv`: the map has an entry for every name listed so far, and it
  is that of the name's last listing, whether it was put in the place of an earlier
  one or at the end (`AssignKeeps`).  The first provider in the order of the map that
  offers an event exists, because a set of positions has a least (`LeastOf`).
* `Endings`.  `MapInv`: what is in the shared map is of its recommender and was received
  by some request; what a request has merged is a recommender it received
  something of, with an entry in the map.  So a level that cannot be counted, or a
  cost that cannot be added, is that of a recommendation somebody received
  (`UncountedHasCause`), and stays a cause since nothing received is given back
  (`CauseStays`).  Nothing is assumed of how many requests
  there are or in what order they take their turns.
* `Reports`.  `OwnInv` has a part about all requests and one about those that have
  met no other.  Of two requests at work each has met the other (`AloneInv`), so
  that the others' steps do not disturb what a request that has met none is
  promised (`OthersOwn`).  Of such a request the map has each recommendation as
  often as it has been merged (`MergedOnce`), beside whatever was there before; an
  entry found empty still is when it is replaced (`StillEmpty`); the level last
  counted is that of the entry about to be reported (`LevelTrue`); and what has
  been reported is true (`ReportsTrue`).  What has been merged is still to be
  reported or is reported (`OrderInv`).  When all has been merged, a
  recommendation has been as often as it was received, and that is once per
  location that covers it and whose last page had it: what was received of a
  recommendation and these locations are in bijection (`SlotsDiffer`,
  `SlotForLocation`, `HadAreLocations`), since a location is taken at the first
  asset that has it, and of its region and zones one is the recommendation's.
* `TypesCorrect`: what is shown or failed was listed, and is not both; the map of
  providers has each name once.

*Changing projects.*  `lasting` is a subset of `project` and `project` of `ever`;
both sides of this stay closed under what a fact needs.  So an answer holds all
that lasts and, where a property needs it, nothing that never was (`ListingsInv`;
`AnswersTrue`), and it goes on to as `lasting` shrinks and `ever` grows
(`StaysTrue`). A join of answers then finds what lasts, because what refers to it
lasts too (`JoinsOf`, `PlaceFound`, `BalancersFound`).  In `VMRelations` the
members of groups come one manager at a time: `MembersInv` says that those of
every manager already asked are known, and that every manager still to be asked
was there once; the second is why a failing call means that it was deleted
meanwhile.  Nothing bounds the changes or their times.

### What is only model-checked

`RequestsEnd`: it is liveness under fairness, and the prover cannot reason about
ENABLED.  The violations are examples, which TLC finds.

No definition here is recursive.  Where the code builds one list from
others, the modules define the result by positions and sets; induction enters only
as the existence of a least position (`WFMin`), and as the induction over steps.

## 5. Not modelled

Models, schemas, metrics and layouts are declarations without control flow.  The
gRPC servicer and `info/` translate messages and keep no state.  Building clients
and credentials (`libs/connector.py`) is I/O; a failing project lookup is
`Reject`.  Display texts, labels and currency are left out wherever no property
is about them.

Some results are the same whatever the project holds.  They are in the modules
where they bear on something else, but a property about them would only repeat
the line:

* `load_balancing_manager.py:295` looks certificates up in a wrapper that has
  none; `:41` never sets the id of an error (`ManagerLoops`, "never").
* `external_ip_address_manager.py:155` files every regional reserved address under
  global (`StaticRegion`).
* `vpc_network_manager.py:73` and `:325` give every network the region global,
  global routing and dynamic routing on.
* `machine_image_manager.py:188` shows every image as encrypted by a customer's key
  (`ShowMachineImage`); `:64` never asks for disk types; `:256` turns an image
  without storage locations into an error response.
* `instancegroup_manager_resource_helper.py:48` never finds an instance's group, so
  the branches for autoscalers and HTTP load balancers behind it are dead.
* `load_balancer_manager_resource_helper.py:158` fails for a rule without a port
  range, which a target pool's rule always has.

Pages.  `ConnectorPaging` has every list method page by page.  The modules of the
managers take a listing whole where its method appends.  Where it keeps the last
page, `PubSubTopics` and `Recommendations` have what is lost.  `CloudFunctions` and
`PubSubSubscriptions` start from what was listed, which is any collection, so that
a page that was lost is one that was not there.  Methods that ask for one page
return what it had: users of an SQL instance, images, the policies of a region,
members of an instance group (`connector/compute_engine/vm_instance.py:251`,
`instance_group.py:23`).  What the modules have of these is no more than a page.

A few branches are left out because nothing reaches them, or the constants do not:

* `storage_manager.py:235`, an access that could not be read: `list_iam_policy`
  raises instead (`connector/cloud_storage/storage.py:37`), which is `FailAtBucket`.
* `vpc_manager_resource_helper.py:86`, an interface without a subnetwork, which a
  legacy network has: every interface of `VMRelations` has one.
* More managers than `MAX_WORKER`: `collector_pair` has two for a pool of one, for
  safety; `RequestsEnd` is checked with one manager per request.

## 6. Left open

* `LoadBalancing` over a changing project, as the other joins are.
* `MachineImages` and snapshots: regions of storage locations; the display state
  of first-generation functions and their source archives.
* `get_param_in_url` and `parse_region_from_zone` against a reference definition.
* `CollectionContract` implemented by the managers, with what each of them shows
  in place of `Answered`: it would join `ContractKept` and the theorems about
  managers in one.
